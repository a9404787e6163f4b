SPECIFICATION Spec
CONSTANTS
  First = 0
  NLayer = 2
  NSlots = 2
  MaxPasses = 1
  ReadsMayFail = TRUE
PROPERTIES
  AcquireReturns
