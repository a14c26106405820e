SPECIFICATION Spec
CONSTANTS
  p1 = p1
  p2 = p2
  Procs = {p1, p2}
  Modes <- MCModes
  MaxFaults = 1
INVARIANTS
  TypeOK
  HandleIsComplete
  LeakedHoldNoLock
  NeverClosedTwice
  StatusIsHonest
PROPERTIES
  EveryProcessEnds
CHECK_DEADLOCK FALSE
