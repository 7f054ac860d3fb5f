SPECIFICATION Spec
CONSTANTS
  Remotes = {1}
  Self = 2
  Unknown = Unknown
  Direct = Unknown
  Local = Unknown
  Names = {n1, n2}
  OwnName = None
  None = None
  FrameCap = 1
  CmdCap = 3
  DisplayCap = 1
INVARIANTS GhostsExplained NamesInStep
PROPERTY LeaverGoes
CHECK_DEADLOCK FALSE
