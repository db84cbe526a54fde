SPECIFICATION Spec
CONSTANTS
  Requests = {r1, r2}
  Calls <- MCCalls
  Nodes = {m1}
  Undialled = {}
  Ids = {i1, i2}
  Names = {n1, i1}
  Datasets = {d1}
  Catalogs = {k1}
  Contents = {c1, c2, c3}
  Seed = c1
  Clash = c3
  None = None
  Verifier = TRUE
  MaxCalls = 4
  MaxFaults = 1
  MaxCrashes = 1
  i1 = i1
  i2 = i2
  n1 = n1
  m1 = m1
  d1 = d1
  k1 = k1
  c1 = c1
  c2 = c2
  c3 = c3
SYMMETRY RequestSymmetry
INVARIANTS ServesWholeSchema AcknowledgedSurvives AnswersAreWhole
PROPERTIES ListingIsComplete
CHECK_DEADLOCK FALSE
CONSTRAINTS Halves OneMishap PlainLast
