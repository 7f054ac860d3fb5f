SPECIFICATION FairSpec
CONSTANTS
  Peers <- TwoPeers
  None = None
  Invites <- AllInvites2
  MaxGen = 2
  QueueCap = 3
  MaxLag = 0
  MaxDrops = 1
  MaxQuits = 0
  Quitters = {}
PROPERTY RemovedOnlyWhenClosed
CHECK_DEADLOCK FALSE
