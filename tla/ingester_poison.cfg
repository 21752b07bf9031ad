SPECIFICATION FairSpec
CONSTANTS
  Entry = {e1, e2}
  Worker = {w1}
  BatchSize = 2
  BufferSize = 2
  Unstorable = {e1}
  MaxOutages = 0
  MaxLostAcks = 0
CHECK_DEADLOCK FALSE
PROPERTY BacklogDrains
