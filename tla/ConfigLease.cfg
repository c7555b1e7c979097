SPECIFICATION Spec
CONSTANTS
  NoConfig = NoConfig
  NumItems = 1
  Concurrency = 1
  LeaseTicks = 1
  MaxLag = 2
  Skews <- InStepOrAhead
  MaxRevision = 2
  MaxNodeSaves = 0
  MaxLate = 1
  MaxClock = 3
  MaxRestarts = 1
INVARIANTS
  LeaseBound
  RuntimeIsApplied
PROPERTIES
  HoldsLeasedCopy
