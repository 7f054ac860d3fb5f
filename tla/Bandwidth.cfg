SPECIFICATION FairBandwidth
CONSTANTS
  Ladder <- SmallLadder
  MinBitrate = 2
  MaxBitrate = 12
  IncreasePct = 50
  Durations <- SendTimes
INVARIANTS TypeOK QualityFits PresetNotLost
PROPERTIES Recovers EncoderFollows
