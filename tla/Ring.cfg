SPECIFICATION ScheduledSpec
CONSTANTS
  Capacity = 4
  MaxCall = 4
  MaxBytes = 5
  FullSpins = 1
  EmptySpins = 1
  MaxAttach = 1
INVARIANTS TypeOK InOrder CursorsCountBytes NoDataRace
PROPERTIES ImplementsChannel EveryByteArrives NonBlockingReturns
CHECK_DEADLOCK FALSE
