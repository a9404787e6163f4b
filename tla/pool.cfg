SPECIFICATION Spec
CONSTANTS
  c1 = c1
  c2 = c2
  Callers <- MCCallers
  NWorkers = 2
  MaxJobs = 2
  MayPanic = TRUE
INVARIANTS
  TypeOK
  EveryoneRanOnce
  BorrowIsLive
PROPERTIES
  PanicReachesCaller
  RunReturns
