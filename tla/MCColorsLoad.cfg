SPECIFICATION Spec
CONSTANTS
  n1 = n1
  n2 = n2
  n3 = n3
  n4 = n4
  Names = {n1, n2, n3, n4}
  Hexes = {h1, h2}
  NoName = NoName
  NoText = NoText
  NoHex = NoHex
  TypeOf <- MCTypeOf
  MAX_COLORS = 2
  MinColors = 1
  MaxRows = 2
  MaxAdded = 1
  MaxDeleted = 1
INVARIANTS
  HashesAgree
  ListsAreParallel
  StoredIsLoaded
  AssertsHold
  CrashHasCause
PROPERTIES
  LoadEnds
CHECK_DEADLOCK FALSE
