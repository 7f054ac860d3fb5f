SPECIFICATION PathSpec
CONSTANTS
  Sessions = {s1}
  viewer = s1
  None = None
  ChanCap = 1
  KeyInterval = 4
  MaxFrames = 4
  MaxFails = 0
  VideoCap = 2
  MaxErrors = 1
INVARIANTS PathTypeOK GateHasDecoder NothingVanishes
PROPERTY ReferenceKept
CHECK_DEADLOCK FALSE
