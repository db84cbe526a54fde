SPECIFICATION FairSpec
CONSTANTS
  Ponds = {p1}
  Nodes = {n1}
  Queries = {}
  Drops = {d1, d2}
  Hangups = {p1, d1}
  NoNode = NoNode
  MaxCrashes = 1
PROPERTIES CreateSettles TombstoneCleared
CHECK_DEADLOCK FALSE
