SPECIFICATION FairPipelineSpec
CONSTANTS
  Entry <- Entries
  Stream <- CallNumbers
  Origin <- LastOf
  Worker = {w1}
  NoReceipt = NoReceipt
  BatchSize = 2
  BufferSize = 1
  Unstorable = {}
  MaxOutages = 1
  MaxLostAcks = 1
  MaxLines = 2
  AgentBatch = 2
  MaxMishaps = 2
CHECK_DEADLOCK FALSE
INVARIANTS
  PipelineTypeOK
  SavedLinesAccountedFor
  RowsNeedMishaps
PROPERTIES
  ImplementsDelivery
  ImplementsShipper
  LinesGetStored
