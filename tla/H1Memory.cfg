SPECIFICATION Spec
CONSTANTS
  Shapes <- Short
  NumRequests = 3
  MaxRequests = 3
  MaxRead = 4
INVARIANT
  AnswerGuaranteed
CHECK_DEADLOCK FALSE
