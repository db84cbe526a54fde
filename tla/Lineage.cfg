SPECIFICATION Spec
CONSTANTS
  Queries = {q1, q2}
  ErrorOf <- MCErrorOf
  Verified = {q1}
  Writing = {q1}
  BatchSize = 2
  Capacity = 3
  QueueCapacity = 2
  Backends = {TRUE, FALSE}
  Limit = 3
  MaxNames = 2
  MaxTime = 2
  MaxFails = 1
  MaxCrashes = 1
  None = None
  q1 = q1
  q2 = q2
  q3 = q3
INVARIANTS Conserved SinkAccounts OrderedWalkIsExact
PROPERTIES SeesOwnQuery QueueMoves
CHECK_DEADLOCK FALSE
CONSTRAINTS Scenes OneMishap
