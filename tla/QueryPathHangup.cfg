SPECIFICATION Spec
CONSTANTS
  None = None
  Nodes = {n1, n2}
  Requests = {r1}
  Rows <- MCRows
  Auths <- MCAuths
  Timeouts = {0, 4}
  Failures <- MCFailures
  Tables = 1
  MaxFaults = 1
  n1 = n1
  n2 = n2
  r1 = r1
  r2 = r2
INVARIANT RecordOutlivesCaller
CHECK_DEADLOCK FALSE
