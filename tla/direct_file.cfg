SPECIFICATION ReadSpec
CONSTANTS
  QdAsked = 3
  ChunkAsked = 6
  Sector = 4
  Page = 2
  LargePage = 8
  Lens = {0, 8, 12, 28}
  FileEnds = {0, 1, 12, 14, 18, 30}
  MayFail = TRUE
INVARIANTS
  NothingPendingAfterReturn
  TotalIsPrefix
  OneRequestPerSlot
PROPERTIES
  ReadReturns
