SPECIFICATION FairSpec
CONSTANTS
  upperA = upperA  lowerA = lowerA  b = b  x = x
  Client = {c1, c2}
  MaxId = 2
  Raw = {upperA, lowerA, x}
  Lower <- MCLower
  Malformed = {x}
  NoRow = NoRow
  MaxWrites = 2
  MaxRedisFaults = 1
  MaxLostReplies = 1
INVARIANTS
  TypeOK
  EmailsUnique
  StaleNeedsRaceOrFault
  RedisNeverFailsACall
PROPERTY EventuallyCoherent
