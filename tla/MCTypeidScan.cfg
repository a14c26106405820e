SPECIFICATION FairSpec
CONSTANTS
  MaxRows = 3
  MaxWidth = 2
  Styles = {"hash", "ids", "load", "rows"}
INVARIANTS
  MemorySafe
  EachRowOnce
PROPERTY WalkEnds
CHECK_DEADLOCK FALSE
