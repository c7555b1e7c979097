SPECIFICATION Spec
CONSTANTS
  None = None
  m1 = m1
  m2 = m2
  t1 = t1
  s1 = s1
  s2 = s2
  Machines = {m1}
  Tokens = {t1}
  MaxNodes = 2
  MaxEdits = 2
  Slots = {s1, s2}
  Statuses = {"online"}
INVARIANTS
  TypeOK
  OneNodePerToken
  CancelHolds
  DoneMeansClean
  RemovedStaysRemoved
PROPERTIES
  UninstallEnds
CHECK_DEADLOCK FALSE
