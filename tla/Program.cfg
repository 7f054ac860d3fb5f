SPECIFICATION Spec
CONSTANTS
  a = a
  b = b
  c = c
  Direct = Direct
  None = None
  Unknown = Unknown
  Network = Network
  Ticket = Ticket
  Galleries <- MCGalleries
  DisplayCap = 1
  MaxTiles = 2
  MaxExtras = 1
INVARIANTS LabelsMatch NoStaleTile QuietAfterCleanup LeftClean
PROPERTIES Ends TicketShown
CHECK_DEADLOCK FALSE
