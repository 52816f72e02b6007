SPECIFICATION Spec
CONSTANTS
  MaxConnections = 1
  MaxStreams = 1
  MaxRequests = 1
  MaxBody = 1
  UniSlack = 1
  MaxOpened = 1
  MaxDials = 1
  MaxPieces = 3
INVARIANT FinAtFrameBoundary
CHECK_DEADLOCK FALSE
