SPECIFICATION AudioSpec
CONSTANTS
  FrameTime = 2
  TargetDelay = 2
  MaxLate = 2
  None = None
  MaxFrames = 3
  MaxTime = 8
  peer = peer
  Others = {other}
  DecodeCap = 1
  MixCap = 1
  PlayCap = 1
  MaxOthers = 1
INVARIANTS TypeOK QueueInTurn Accounted MixerHoldsNothing
PROPERTIES InOrder HeardInOrder
CHECK_DEADLOCK FALSE
