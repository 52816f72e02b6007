SPECIFICATION FairSpec
CONSTANTS
  Peers = {p1, p2}
  Stoppers = {s1}
  ConnLimits = {1, 2}
  HeaderTimeout = 1
  IdleTimeout = 1
  WriteTimeout = 1
  DrainTimeout = 1
INVARIANTS
  TypeOK
  NoLostWakeup
  ConnectionCap
  PolledIsTable
PROPERTIES
  NoNewConnections
  StopCompletes
  RequestsEnd
  DeadPeersCut
CHECK_DEADLOCK FALSE
