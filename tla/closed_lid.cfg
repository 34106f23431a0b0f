SPECIFICATION PacerSpec
CONSTANTS
  Period = 4
  Threshold = 1
  MaxSkip = 2
  MaxRender = 1
  MaxStall = 30
  MaxPause = 0
  MaxNow = 44
INVARIANT StallsNeverFlood
CHECK_DEADLOCK FALSE
