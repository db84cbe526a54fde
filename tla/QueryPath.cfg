SPECIFICATION Spec
CONSTANTS
  None = None
  Nodes = {n1, n2}
  Requests = {r1, r2}
  Rows <- MCRows
  Auths <- MCAuths
  Timeouts = {0, 4}
  Failures <- MCFailures
  Tables = 1
  MaxFaults = 2
  n1 = n1
  n2 = n2
  r1 = r1
  r2 = r2
INVARIANTS OneRecordPerAnswer CauseSurvives OnceAndByTheOwner CutIsNamed BalancedUnlessFaulty
PROPERTIES EveryCallSettles
CHECK_DEADLOCK FALSE
CONSTRAINT SecondIsPlain
