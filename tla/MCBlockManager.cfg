CONSTANTS
  Blocks = {b1, b2, b3, b4}
  NULL = NULL
  PagesPerBlock = 4
  LsbPages = {0, 1, 3}
  MaxBad = 1
  MaxPages = 3
  MaxFaults = 1
SYMMETRY BlockSymmetry
SPECIFICATION Spec
INVARIANTS
  BadRetired
  NoBlockLost
CHECK_DEADLOCK FALSE
PROPERTY ImplementsPageAllocator
