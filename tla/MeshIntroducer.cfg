SPECIFICATION FairSpec
CONSTANTS
  Peers <- ThreePeers
  None = None
  Invites <- StarInvites
  MaxGen = 1
  QueueCap = 2
  MaxLag = 0
  MaxDrops = 0
  MaxQuits = 1
  Quitters <- Middle
PROPERTY Converges
CHECK_DEADLOCK FALSE
