SPECIFICATION Spec
CONSTANTS
  Tiles = 2
  MaxLatch = 2
  MaxWrites = 0
INVARIANT NeverTwoClocks
