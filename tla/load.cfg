SPECIFICATION Spec
CONSTANTS
  Files <- MCFiles
  ShortReads <- MCShortReads
  HeaderChunk = 64
  ValueFields <- ValueLayout
  Sector = 4096
  SlotCounts = {1, 2}
  Budgets <- MCBudgets
  MaxPositions = {40}
  Drafts = {0, 2}
  Baseline = 1000
  DriveFails = TRUE
INVARIANTS
  OpenIsExact
  LongestPrefix
  AcceptedFits
  ViewsHoldTheirTensor
  PlanCoversMemory
