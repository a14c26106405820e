SPECIFICATION Loops
CONSTANTS
  Residues = 64
  Stride = 4
  Words = 16
  IntMax = 511
  Chars <- MCChars
  MaxLen = 3
  Far = 2
  Distances <- MCDistances
INVARIANTS
  WrapInvisible
  LookupFindsInserted
  NeighboursDiffer
  CodeIsNearest
CHECK_DEADLOCK FALSE
