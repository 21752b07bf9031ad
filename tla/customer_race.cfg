SPECIFICATION Spec
CONSTANTS
  upperA = upperA  lowerA = lowerA  b = b  x = x
  Client = {c1, c2}
  MaxId = 1
  Raw = {lowerA, b}
  Lower <- MCLower
  Malformed = {}
  NoRow = NoRow
  MaxWrites = 1
  MaxRedisFaults = 0
  MaxLostReplies = 0
INVARIANT CoherentAtRest
