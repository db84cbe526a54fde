SPECIFICATION Spec
CONSTANTS
  None = None
  Flags <- MCFlags
  Callers = {c1, c2}
  Tokens <- MCTokens
  FirstKeys <- MCFirstKeys
  NextKeys <- MCNextKeys
  Interval = 2
  Base = 1
  FetchMax = 1
  MaxTime = 4
  MaxCalls = 2
  MaxEvents = 2
  c1 = c1
  c2 = c2
  c3 = c3
INVARIANTS UnknownIsBacked AcceptedIsVouched
CHECK_DEADLOCK FALSE
CONSTRAINT OthersAreEarly
SYMMETRY Symmetry
