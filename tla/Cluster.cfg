SPECIFICATION Spec
CONSTANTS
  None = None
  Standard <- MCStandard
  Warmable <- MCWarmable
  Needs <- MCNeeds
  Settings <- MCSettings
  MaxBoots = 4
  MaxFaults = 4
INVARIANTS ReadyMeansServing RowTellsTheTruth OfflineReady
