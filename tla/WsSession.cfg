SPECIFICATION Spec
CONSTANTS
  MaxRedirects = 3
  Caps = {1, 2}
  MaxFrames = 3
  MaxRead = 3
INVARIANTS MessagesAsSent CloseDiscipline
PROPERTY CallsReturn
CHECK_DEADLOCK FALSE
