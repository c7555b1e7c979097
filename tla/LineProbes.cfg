SPECIFICATION Spec
CONSTANTS
  None = None
  n1 = n1
  n2 = n2
  Nodes = {n1, n2}
  Agents = {n1}
  MaxRevision = 2
  Handlers = {1}
  Reports = {1, 2}
  MaxFaults = 1
INVARIANTS
  TypeOK
  ResultsAreCurrent
  EventsTellStatus
PROPERTIES
  LateResultsDropped
  ProbeSettles
CHECK_DEADLOCK FALSE
