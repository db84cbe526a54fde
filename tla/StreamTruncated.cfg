SPECIFICATION Spec
CONSTANTS
  Chains = {2}
  Capacity = 4
  MaxBatches = 10
  RowCap = 5
INVARIANTS CleanEndIsWhole
CHECK_DEADLOCK FALSE
