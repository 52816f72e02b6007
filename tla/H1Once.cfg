SPECIFICATION Spec
CONSTANTS
  Shapes <- Short
  NumRequests = 3
  MaxRequests = 3
  MaxRead = 4
INVARIANT
  HandlerOnce
CHECK_DEADLOCK FALSE
