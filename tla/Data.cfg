CONSTANTS
  FixBits = 5
  IntBits = 4
  BitMax = 9
  Loaded <- MCLoaded
  Radices = {2, 8, 10, 16}
  Limit = 20
  DenLimit = 3
  Str = {s0, s1, s2, s3, s4}
  NullString = s0
  NoStr = NoStr
  Chr = {1, 228}
  Octet = {1, 195}
  Position = {0, 1, 2}
  Limits = {1, 2}
  UTF32_TTL = 2
  Openings <- MCOpenings
  MaxUses = 2
  Verdicts = {228}
  MaxInner = 1
SPECIFICATION Spec
INVARIANTS  OrderAgrees ReadBack
 
CHECK_DEADLOCK FALSE
