SPECIFICATION Spec
CONSTANTS
  SessionTls = TRUE
  MaxRedirects = 1
  MaxResponse = 3
  MaxAddrs = 1
  MaxCalls = 1
PROPERTY LiveNotRetried
CHECK_DEADLOCK FALSE
