---------------------------- MODULE MCMemoryPlan ----------------------------
(* MemoryPlan by itself, for TLC: sectors of 4 bytes, three layers below   *)
(* or above the size of a sector, and every budget in a range.             *)
EXTENDS MemoryPlan

MCSizes      == {1, 20}
MCPinBudgets == 40 .. 60

MCInit ==
  /\ \E size \in [0 .. 2 -> MCSizes] :
       span = [l \in 0 .. 2 |-> <<SumFunctionOnSet(size, 0 .. l - 1), SumFunctionOnSet(size, 0 .. l)>>]
  /\ slots \in SlotCounts /\ resident = 5 /\ budget \in Budgets
  /\ PlanInput /\ PlanInit

Done == phase \in {"accepted", "refused"} /\ UNCHANGED planVars

MCSpec == MCInit /\ [][PlanNext \/ Done]_planVars
=============================================================================
