SPECIFICATION FairSpec
CONSTANTS
  Chains = {1, 2, 3}
  Capacity = 2
  MaxBatches = 7
  RowCap = 5
INVARIANTS PooledIsClean UncutIsWhole
PROPERTIES Answered Released
CHECK_DEADLOCK FALSE
