SPECIFICATION Spec
CONSTANTS
  SessionTls = TRUE
  MaxRedirects = 5
  MaxResponse = 3
  MaxAddrs = 2
  MaxCalls = 2
INVARIANTS AnswersOwnCall RunsBounded RedirectsSafe
PROPERTY ClientReturns
CHECK_DEADLOCK FALSE
