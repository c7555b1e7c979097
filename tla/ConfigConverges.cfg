SPECIFICATION FairSpec
CONSTANTS
  NoConfig = NoConfig
  NumItems = 1
  Concurrency = 2
  LeaseTicks = 1
  MaxLag = 1
  Skews <- InStep
  MaxRevision = 3
  MaxNodeSaves = 0
  MaxLate = 0
  MaxClock = 2
  MaxRestarts = 0
PROPERTIES
  Converges
