SPECIFICATION ConsoleSpec
CONSTANTS
  \* CpuDecode
  OperandBytes = {0, 240}
  PageBytes = {32, 255}
  Indexes = {0, 15, 16}
  StackPointers = {0, 253}
  Stored = {255}
  Addresses = {32770, 33021}
  NoInstruction = NoInstruction
  \* CpuAlu
  Values = {0, 1, 63, 64, 126, 127, 128, 129, 192, 254, 255}
  NoOperation = NoOperation
  \* CpuInterrupts
  PageSize = 6
  Addrs = 3
  Depth = 2
  None = None
  \* PpuScroll
  Tiles = 3
  Lines = 2
  ScrollBytes = {20, 239}
  AddressBytes = {33}
  MaxAccesses = 2
  AccessDots = {12, 25, 26, 94}
  Blank = Blank
  Torn = Torn
  \* PpuMemory
  VramAddresses = {16, 2064, 4112, 8192, 9216, 10240, 11264, 12288, 16128, 16144, 16160}
  VramBytes = {193}
  PatternMaps <- MCPatternMaps
  SpriteBytes = 1
  MaxUses = 2
  \* PpuSprites
  SpriteLists <- MCSpriteLists
  Pattern <- MCPattern
  Size = 2
  MaxPerLine = 2
  Columns = 4
  Rows = 3
  MaxChanges = 2
  \* Cartridge
  Files <- MCFiles
  RegisterBytes = {0, 1, 128, 199}
  RamBytes = {7}
  MaxWrites = 3
  MaxSerialWrites = 10
  Refused = Refused
INVARIANTS BusIsTheCpus AluIsExact PictureFollowsScroll BanksInRange SerialLoads
PROPERTIES
  HandlerIsTransparent InterruptsAtTheirTurn
  DataReachesItsMirrors LinesShowTheirSprites
\* A part may have run to its bound, and an instruction is executed once.
CHECK_DEADLOCK FALSE
