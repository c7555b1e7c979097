SPECIFICATION Spec
CONSTANTS
  r1 = r1
  r2 = r2
  Rules <- OneRule
  MaxSamples = 1
  MaxBytes = 2
  MaxFailures = 2
  MaxChunks = 5
  MaxFlights = 5
  MaxRestarts = 0
INVARIANTS
  BufferBounded
  AccountedOnce
CHECK_DEADLOCK FALSE
