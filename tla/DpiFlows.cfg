SPECIFICATION Spec
CONSTANTS
  None = None
  Setups <- SetupsOf
  InspectPackets = 2
  TTL = 2
  QueueSize = 1
  MaxConns = 2
  MaxFaults = 1
INVARIANTS TypeOK OwnVerdict VerdictsAreDue TableSound
PROPERTIES FlowsForgotten
CHECK_DEADLOCK FALSE
