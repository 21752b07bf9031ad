SPECIFICATION ServerSpec
CONSTANTS
  e1 = e1  e2 = e2  e3 = e3  s1 = s1  s2 = s2
  Entry = {e1, e2}
  Worker = {w1}
  NoReceipt = NoReceipt
  Stream = {s1}
  Origin <- OneStream
  BatchSize = 2
  BufferSize = 2
  Unstorable = {}
  MaxOutages = 0
  MaxLostAcks = 0
CHECK_DEADLOCK FALSE
INVARIANT DrainLosesNothing
