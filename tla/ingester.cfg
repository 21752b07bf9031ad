SPECIFICATION FairSpec
CONSTANTS
  Entry = {e1, e2, e3}
  Worker = {w1, w2}
  BatchSize = 2
  BufferSize = 2
  Unstorable = {}
  MaxOutages = 1
  MaxLostAcks = 1
CHECK_DEADLOCK FALSE
INVARIANTS
  TypeOK
  NoSharing
  Bounded
  NoLossWhileLive
  Conservation
  DuplicatesNeedLostAcks
PROPERTIES
  ImplementsDurableLog
  BacklogDrains
  StopReturnsOnceCancelled
  StopReturnsOnceRecovered
