SPECIFICATION PoolFairSpec
CONSTANTS
  Readers = {r1, r2, r3, r4, r5, f1}
  Max = 4
  Failing = {f1}
INVARIANTS PlacesAccounted OnlyFailedClonesLoseWakeups
PROPERTIES ServedUnlessClonesFail
CHECK_DEADLOCK FALSE
