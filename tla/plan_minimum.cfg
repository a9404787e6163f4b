SPECIFICATION MCSpec
CONSTANTS
  Sector = 4
  SlotCounts = {1, 2}
  Budgets <- MCPinBudgets
INVARIANTS
  RefusedInfeasible
