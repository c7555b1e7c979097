SPECIFICATION FairSpec
CONSTANTS
  tcp = tcp
  udp = udp
  f1 = f1
  f2 = f2
  f3 = f3
  c1 = c1
  c2 = c2
  None = None
  Listeners <- BothNetworks
  Udp <- OnlyUdp
  Flows <- TwoFlows
  Clients <- OneClient
  IPs <- OneClient
  IPof <- ClientIP
  Limits <- NoLimit
  TenantLimit <- TwoConnections
  SessionCap = 1
  MaxApplies = 2
PROPERTIES
  DrainEnds
  ShutdownEnds
CHECK_DEADLOCK FALSE
