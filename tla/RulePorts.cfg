SPECIFICATION Spec
CONSTANTS
  r1 = r1
  r2 = r2
  t1 = t1
  t2 = t2
  g1 = g1
  g2 = g2
  h1 = h1
  h2 = h2
  None = None
  Rules = {r1, r2}
  Tunnels = {t1, t2}
  Groups = {g1, g2}
  FirstGroup <- OwnGroup
  Ports = {1}
  Protocols <- TcpOrBoth
  GrantLimits = {1}
  UserLimit = 0
  Handlers = {h1, h2}
  MaxMoved = 1
SYMMETRY Interchangeable
INVARIANTS
  PortsExclusive
  LeasesFitRules
  GrantsRespected
PROPERTIES
  DeletedStaysDeleted
