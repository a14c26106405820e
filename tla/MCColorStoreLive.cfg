SPECIFICATION FairSpec
CONSTANTS
  red = red
  crimson = crimson
  blue = blue
  pale = pale
  w1 = w1
  w2 = w2
  Malformed = Malformed
  Nameless = Nameless
  NoColor = NoColor
  Workers = {w1, w2}
  Colors <- MCColors
  Hexless = {pale}
  TypeOf <- ZeroTypeOf
  Lines <- LiveLines
  ParseQty = 2
  MaxRowid = 6
  MaxRuns = 2
  MaxFaults = 0
PROPERTY SyncCompletes
CHECK_DEADLOCK FALSE
