SPECIFICATION ApiSpec
CONSTANTS
  red = red
  crimson = crimson
  blue = blue
  pale = pale
  w1 = w1
  w2 = w2
  Malformed = Malformed
  Nameless = Nameless
  NoColor = NoColor
  Workers = {w1, w2}
  Colors <- MCColors
  Hexless = {pale}
  TypeOf <- MCTypeOf
  Lines <- ShortLines
  ParseQty = 3
  MaxRowid = 4
  MaxRuns = 1
  MaxFaults = 0
INVARIANT ReferencesBlobs
CHECK_DEADLOCK FALSE
