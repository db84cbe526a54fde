SPECIFICATION FairSpec
CONSTANTS
  Writes = {w1}
  Pulls = {u1}
  Mutating = {w1, u1}
  Driving = {w1}
  MaxOwn = 1
  Tiers = {t1, t2}
  Free = Free
INVARIANTS ErrorMeansUnpublished ReportsItsSnapshot WriterClean NothingAttached
PROPERTIES CancelledEnds
CHECK_DEADLOCK FALSE
