SPECIFICATION Spec
CONSTANTS
  w1 = w1
  w2 = w2
  c1 = c1
  c2 = c2
  ab = ab
  red = red
  Red = Red
  eclair = eclair
  gap = gap
  header = header
  r = r
  b = b
  Parsers = {w1, w2}
  Creators = {c1, c2}
  Users = {w1, w2, c1, c2}
  Hexes = {r, b}
  Absent = Absent
  Empty = Empty
  Cut = Cut
  BadHex = BadHex
  Wild = Wild
  NoSlug = NoSlug
  Names = {ab, red, Red, eclair, gap, header}
  ShortNames = {ab}
  AsciiNames = {ab, red, Red, gap, header}
  SlugOf <- MCSlugOf
  Lines <- MCLines
  Wanted <- MCWanted
  ParseQty = 2
  MaxFaults = 1
INVARIANTS
  RowsAreAcceptedLines
  SlugIsNearestAsciiAbove
  PicturesAreOwn
  TempFileIsRemoved
  CrashHasCause
CHECK_DEADLOCK FALSE
