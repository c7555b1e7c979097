SPECIFICATION Spec
CONSTANTS
  NoConfig = NoConfig
  NumItems = 2
  Concurrency = 2
  LeaseTicks = 2
  MaxLag = 0
  Skews <- InStep
  MaxRevision = 3
  MaxNodeSaves = 1
  MaxLate = 1
  MaxClock = 0
  MaxRestarts = 0
INVARIANTS
  AnnouncedUpdate
  ReportedIsReal
