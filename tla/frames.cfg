SPECIFICATION FramesSpec
CONSTANTS
  \* FramePacer
  Period = 4
  Threshold = 1
  MaxSkip = 2
  MaxRender = 1
  MaxStall = 18
  MaxPause = 6
  MaxNow = 40
  \* FrameTiming
  DotsPerScanline = 11
  ScanlinesPerFrame = 11
  VblankStart = 7
  Instructions = {2, 3, 5}
  DmaStall = 6
  DmcStall = 4
  SafetyLimit = 70
  \* AudioRing
  SrcRate = 2
  DstRate = 3
  U32Max = 5
  Capacity = 2
  Burst = 2
  Window = 2
  MaxFed = 8
  \* Apu
  Events <- MCEvents
  Lengths = {2}
  MaxDecay = 2
  Volumes = {0, 2}
  Periods = {7, 1792}
  Shifts = {0, 1}
  Dividers = {0}
  SampleStarts = {5, 7}
  SampleLengths = {1, 3}
  LastAddress = 7
  WrapAddress = 2
  Rates = {1}
  Bits = 2
  MaxLevel = 2
  SampleBytes = {1}
  LfsrStart = 1
  NoMode = NoMode
INVARIANTS
  PacerInvariant NoDrift RingInvariant PauseBounded ApuInvariant SamplePlaysWhole
PROPERTIES OnePicturePerFrame NmiOnTime FrameCounterKeepsTime
\* The pacer's instance stops when the clock reaches MaxNow.
CHECK_DEADLOCK FALSE
