SPECIFICATION Spec
CONSTANTS
  Residues = 64
  Stride = 4
  Words = 16
  IntMax = 511
  Chars <- MCChars
  MaxLen = 3
INVARIANTS
  UsesAllBuckets
CHECK_DEADLOCK FALSE
