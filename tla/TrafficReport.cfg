SPECIFICATION FairSpec
CONSTANTS
  r1 = r1
  r2 = r2
  Rules <- TwoRules
  MaxSamples = 1
  MaxBytes = 2
  MaxFailures = 2
  MaxChunks = 3
  MaxFlights = 2
  MaxRestarts = 1
INVARIANTS
  Conserved
PROPERTIES
  BufferEmpties
CHECK_DEADLOCK FALSE
