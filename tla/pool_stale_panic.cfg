SPECIFICATION Safety
CONSTANTS
  c1 = c1
  c2 = c2
  Callers <- MCCallers
  NWorkers = 2
  MaxJobs = 2
  MayPanic = TRUE
PROPERTIES
  PanicIsOfThisJob
