SPECIFICATION Spec
CONSTANTS
  Ponds = {p1}
  Nodes = {n1, n2}
  Queries = {q1}
  Drops = {d1}
  Hangups = {p1, q1, d1}
  NoNode = NoNode
  MaxCrashes = 1
INVARIANTS NoStrayPond EagerAllocation OnlyRegisterWindowEscapes
PROPERTIES DeletesOnlyUnregistered KeepsPromise
CHECK_DEADLOCK FALSE
