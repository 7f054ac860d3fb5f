SPECIFICATION Spec
CONSTANTS
  Buffers = 2
  Contents = {}
  Peers = {p1, p2}
  viewer = p1
  None = None
  Samples <- MCSamples
  Slack = 26
  VideoCap = 1
  MaxFrames = 2
INVARIANTS DecodedAsEncoded WholeStreamsRead OneHome FreeIsEmpty EveryHandleHeld
CHECK_DEADLOCK FALSE
