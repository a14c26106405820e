SPECIFICATION Spec
CONSTANTS
  Bytes = {0, 1}
  Junk = 9
  Blocks <- MCBlocks
  Limit = 4
  IntMax = 20
INVARIANTS
  TypeOK
  InBounds
PROPERTY FileSpec
CHECK_DEADLOCK FALSE
