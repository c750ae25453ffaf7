SPECIFICATION Spec
CONSTANTS
  Sectors = 3
  Images <- All
  First <- Old
  Uploads <- Sent
  LogSize = 12
  EndSize = 3
  MaxLosses = 1
  Spared = {"swap", "upload"}
  None = None
INVARIANTS TypeOK RunsWhole OldKept
PROPERTIES TrialOnce SwapEnds
