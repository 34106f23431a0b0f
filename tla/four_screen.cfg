SPECIFICATION MemorySpec
CONSTANTS
  VramAddresses = {16, 8192, 9216, 10240, 11264, 12288, 16128, 16132, 16144, 16160}
  VramBytes = {193}
  PatternMaps <- FlatPatterns
  SpriteBytes = 1
  MaxUses = 2
PROPERTY FourScreensAreDistinct
CHECK_DEADLOCK FALSE
