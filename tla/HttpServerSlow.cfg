SPECIFICATION FairSpec
CONSTANTS
  Peers = {p1}
  Stoppers = {s1}
  ConnLimits = {1}
  HeaderTimeout = 1
  IdleTimeout = 1
  WriteTimeout = 1
  DrainTimeout = 1
PROPERTY
  NonReadersCut
CHECK_DEADLOCK FALSE
