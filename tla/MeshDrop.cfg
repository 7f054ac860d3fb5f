SPECIFICATION Spec
CONSTANTS
  Peers <- TwoPeers
  None = None
  Invites <- AllInvites2
  MaxGen = 2
  QueueCap = 2
  MaxLag = 0
  MaxDrops = 1
  MaxQuits = 0
  Quitters = {}
INVARIANTS TypeOK NoHalfOpen NoZombie
