SPECIFICATION Spec
CONSTANTS
  Roms = {r1, r2}
  MaxSessions = 2
  MaxRam = 2
  None = None
  Partial = Partial
INVARIANTS SaveInvariant
PROPERTIES SaveNeverGoesBack CommandReturns
