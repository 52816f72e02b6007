SPECIFICATION Spec
CONSTANTS
  Streams = {1, 3, 5}
  StreamLimits = {1, 2}
  MaxRequests = 2
  Window = 3
  MaxFrame = 2
  MaxWindow = 4
  MaxOut = 3
  ContMax = 1
  Bodies = {0, 3}
  InitWindows = {0, 3}
  FrameBudget = 3
INVARIANT
  StreamsFinish
CHECK_DEADLOCK FALSE
