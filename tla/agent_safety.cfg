SPECIFICATION Spec
CONSTANTS
  NoPath = NoPath
  Path = {p1, p2}
  Stream = {"stdout"}
  Kind = {"P", "F", "malformed"}
  BatchSize = 2
  MaxLines = 2
  MaxInodes = 2
  MaxLives = 3
  Mishap = {"restart", "fault", "drop", "unlisted"}
  MaxMishaps = 1
  MayCancel = FALSE
SYMMETRY Symmetry
CHECK_DEADLOCK FALSE
INVARIANTS
  TypeOK
  MessagesAreWhole
  DuplicatesNeedFaults
PROPERTY
  PositionsNeverGoBack
