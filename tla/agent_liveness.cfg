SPECIFICATION FairSpec
CONSTANTS
  NoPath = NoPath
  Path = {p1}
  Stream = {"stdout"}
  Kind = {"F", "unsendable", "excluded"}
  BatchSize = 1
  MaxLines = 2
  MaxInodes = 2
  MaxLives = 2
  Mishap = {"restart", "fault", "drop", "unlisted"}
  MaxMishaps = 1
  MayCancel = TRUE
CHECK_DEADLOCK FALSE
INVARIANT
  OnlyAbandonedSkipped
PROPERTIES
  LinesAreShipped
  ShutdownCompletes
