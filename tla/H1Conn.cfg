SPECIFICATION Spec
CONSTANTS
  Shapes <- Pipelined
  NumRequests = 3
  MaxRequests = 2
  MaxRead = 4
INVARIANTS
  RequestsAsSent
  OneAnswerEach
  CloseIsFinal
  NothingLeftBehind
  OrderlyEnd
CHECK_DEADLOCK FALSE
