SPECIFICATION Spec
CONSTANTS
  red = red
  crimson = crimson
  blue = blue
  pale = pale
  w1 = w1
  w2 = w2
  Malformed = Malformed
  Nameless = Nameless
  NoColor = NoColor
  Workers = {w1, w2}
  Colors <- MCColors
  Hexless = {pale}
  TypeOf <- MCTypeOf
  Lines <- MCLines
  ParseQty = 3
  MaxRowid = 6
  MaxRuns = 2
  MaxFaults = 2
INVARIANTS
  TypeOK
  OneBlobPerAdder
  ReferencesBlobs
  OneRowPerBlob
  CompleteOrTorn
  NeverRepaired
  PassedLinesStored
PROPERTY CatalogSpec
CHECK_DEADLOCK FALSE
