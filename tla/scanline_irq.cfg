SPECIFICATION Spec
CONSTANTS
  Tiles = 2
  MaxLatch = 2
  MaxWrites = 2
INVARIANTS ScanlineInvariant
PROPERTIES IrqOnTime
