SPECIFICATION FairServerSpec
CONSTANTS
  e1 = e1  e2 = e2  e3 = e3  s1 = s1  s2 = s2
  Entry = {e1, e2, e3}
  Worker = {w1}
  NoReceipt = NoReceipt
  Stream = {s1, s2}
  Origin <- TwoStreams
  BatchSize = 2
  BufferSize = 1
  Unstorable = {}
  MaxOutages = 1
  MaxLostAcks = 0
CHECK_DEADLOCK FALSE
INVARIANTS
  ServerTypeOK
  NoSubmitAfterClose
  ReceiptIsHonest
  BatchesWrittenAtExit
  LossFitsTheChannel
PROPERTY
  ShutdownCompletes
