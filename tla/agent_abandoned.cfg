SPECIFICATION Spec
CONSTANTS
  NoPath = NoPath
  Path = {p1}
  Stream = {"stdout"}
  Kind = {"F"}
  BatchSize = 1
  MaxLines = 2
  MaxInodes = 1
  MaxLives = 1
  Mishap = {}
  MaxMishaps = 0
  MayCancel = TRUE
CHECK_DEADLOCK FALSE
INVARIANT
  AbandonedIsReadAgain
