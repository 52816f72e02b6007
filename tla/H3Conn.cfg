SPECIFICATION Spec
CONSTANTS
  MaxConnections = 2
  MaxStreams = 2
  MaxRequests = 2
  MaxBody = 1
  UniSlack = 1
  MaxOpened = 3
  MaxDials = 2
  MaxPieces = 5
INVARIANTS H3RequestsWhole StreamsServed
PROPERTY H3PassEnds
CHECK_DEADLOCK FALSE
