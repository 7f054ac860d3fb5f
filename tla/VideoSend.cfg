SPECIFICATION SendSpec
CONSTANTS
  Sessions = {s1, s2}
  None = None
  ChanCap = 2
  KeyInterval = 3
  MaxFrames = 4
  MaxFails = 1
SYMMETRY Symmetry
INVARIANTS KeyframeOwed OneGroupInFlight CutSuperseded
CHECK_DEADLOCK FALSE
