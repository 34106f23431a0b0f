SPECIFICATION Spec
CONSTANTS
  Hashes = {h1, h2}
  Paths = {p1}
  Titles = {t1}
  Names = {n1, n2}
  MaxVer = 4
  None = None
  Partial = Partial
INVARIANTS LibraryInvariant OkIsDurable
PROPERTIES FileNeverGoesBack
SYMMETRY Symmetry
