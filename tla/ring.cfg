SPECIFICATION Spec
CONSTANTS
  First = 1
  NLayer = 4
  NSlots = 2
  MaxPasses = 3
  ReadsMayFail = TRUE
INVARIANTS
  TypeOK
  ComputeSeesItsLayer
  ReadAhead
  ReleaseAsserts
PROPERTIES
  CountersFinal
  ImplementsFifo
  AcquireReturnsUnlessDead
  ShutdownCompletes
