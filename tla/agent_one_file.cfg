SPECIFICATION OneFileSpec
CONSTANTS
  NoPath = NoPath
  Path = {p1}
  Stream = {"stdout"}
  Kind = {"F"}
  BatchSize = 2
  MaxLines = 3
  MaxInodes = 2
  MaxLives = 2
  Mishap = {"restart", "fault", "drop"}
  MaxMishaps = 2
  MayCancel = FALSE
CHECK_DEADLOCK FALSE
PROPERTY
  ImplementsShipper
