SPECIFICATION FairSpec
CONSTANTS
  Environment <- Environments
  Default <- Defaults
  PgxDefault = 1
  Half = 4
  MaxFlaps = 1
CHECK_DEADLOCK FALSE
INVARIANTS
  TypeOK
  NothingLeaks
  PoolOutlivesWorkers
  PoolWithinBudget
PROPERTY
  StartupEnds
