SPECIFICATION FairSpec
CONSTANTS
  Peers <- ThreePeers
  None = None
  Invites <- AllInvites3
  MaxGen = 1
  QueueCap = 2
  MaxLag = 0
  MaxDrops = 0
  MaxQuits = 1
  Quitters <- Middle
INVARIANTS NoWaitCycle
PROPERTIES ConvergesUndisturbed DepartedForgotten HandshakesEnd
CHECK_DEADLOCK FALSE
