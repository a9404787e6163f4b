----------------------------- MODULE MemoryPlan -----------------------------
(***************************************************************************)
(* The memory plan of crates/core/src/tier.rs: MemoryPlan::compute decides *)
(* how many layers are pinned and how large the ring's slots are, and      *)
(* `check` accepts or refuses the plan. What it is given, the spans of the *)
(* layers in the file, the sum of the always-resident lines and the budget,*)
(* are variables: Load fills them from a file.                             *)
(***************************************************************************)
EXTENDS Integers, FiniteSets, Functions, FiniteSetsExt

CONSTANTS Sector,      \* the drive's sector size
          SlotCounts,  \* --slots
          Budgets      \* budgets tried, NoBudget for none

NoBudget == -1

ASSUME PlanAssumption ==
  /\ Sector \in Nat \ {0} /\ SlotCounts \subseteq Nat \ {0}
  /\ Budgets \subseteq Nat \cup {NoBudget}

VARIABLES span, slots, resident, budget,            \* PlanInput and PlanParams
          phase, k,                               \* the search: next number of pinned layers to try
          pinned, nSlots, slotBytes               \* the plan

input == <<span, slots, resident, budget>>
plan  == <<pinned, nSlots, slotBytes>>
planVars == <<input, phase, k, plan>>

\* span[l] is the file range of layer l, <<first byte, byte after the last>>.
Layers     == DOMAIN span
NLayer     == Cardinality(Layers)
SpanLen(l) == span[l][2] - span[l][1]

-----------------------------------------------------------------------------
(* os.rs and the figures `compute` derives from its input.                 *)

AlignDown(x) == x - (x % Sector)
AlignUp(x)   == AlignDown(x + Sector - 1)

\* Room for the sector-aligned superset of a span, wherever in a sector it starts.
ArenaBytes(bytes) == AlignUp(bytes) + Sector

\* prefix[k]: the arenas of layers 0..k-1
Prefix(n) == SumFunctionOnSet([l \in Layers |-> ArenaBytes(SpanLen(l))], 0 .. n - 1)

LargestFrom(n) == Max({SpanLen(l) : l \in n .. NLayer - 1})

SlotFor(n) == IF n = NLayer THEN 0 ELSE ArenaBytes(LargestFrom(n))
RingFor(n) == SlotFor(n) * slots

TotalOf(n) == resident + RingFor(n) + Prefix(n)

-----------------------------------------------------------------------------
\* What `compute` may be given: the spans of at least one layer, none of them backwards.
PlanInput ==
  /\ NLayer \in Nat \ {0} /\ span \in [0 .. NLayer - 1 -> Nat \X Nat]
  /\ \A l \in Layers : span[l][1] <= span[l][2]
  /\ slots \in SlotCounts /\ resident \in Nat /\ budget \in Budgets

\* A plan about to be computed.
PlanInit ==
  /\ phase = "resident" /\ k = NLayer
  /\ pinned = 0 /\ nSlots = 0 /\ slotBytes = 0

\* Without a budget, or under one that holds every arena, nothing is streamed.
EverythingResident ==
  /\ phase = "resident" /\ (budget = NoBudget \/ budget >= resident + Prefix(NLayer))
  /\ pinned' = NLayer /\ nSlots' = 0 /\ slotBytes' = 0
  /\ phase' = "planned" /\ UNCHANGED <<input, k>>

StartSearch ==
  /\ phase = "resident" /\ ~(budget = NoBudget \/ budget >= resident + Prefix(NLayer))
  /\ phase' = "search" /\ k' = NLayer - 1
  /\ UNCHANGED <<input, plan>>

\* The k from NLayer - 1 down; the first that fits is taken.
TakeK ==
  /\ phase = "search" /\ k >= 0 /\ TotalOf(k) <= budget
  /\ pinned' = k /\ nSlots' = slots /\ slotBytes' = SlotFor(k)
  /\ phase' = "planned" /\ UNCHANGED <<input, k>>

\* Mutant of SkipK: the search gives up, as if fewer pinned layers could not fit either.
GiveUpAtK ==
  /\ phase = "search" /\ k >= 0 /\ ~(TotalOf(k) <= budget)
  /\ k' = -1 /\ UNCHANGED <<input, phase, plan>>

SkipK ==
  /\ phase = "search" /\ k >= 0 /\ ~(TotalOf(k) <= budget)
  /\ k' = k - 1 /\ UNCHANGED <<input, phase, plan>>

\* Nothing fits: the plan that pins nothing, which `check` refuses.
NothingFits ==
  /\ phase = "search" /\ k < 0
  /\ pinned' = 0 /\ nSlots' = slots /\ slotBytes' = SlotFor(0)
  /\ phase' = "planned" /\ UNCHANGED <<input, k>>

Total   == resident + slotBytes * nSlots + Prefix(pinned)
Minimum == resident + RingFor(0)

Fits == budget = NoBudget \/ (Total <= budget /\ (pinned = NLayer \/ nSlots > 0))

\* Mutant of Check: every plan is accepted.
CheckNothing == phase = "planned" /\ phase' = "accepted" /\ UNCHANGED <<input, k, plan>>

Check ==
  /\ phase = "planned"
  /\ phase' = IF budget # NoBudget /\ (~Fits \/ Minimum > budget) THEN "refused" ELSE "accepted"
  /\ UNCHANGED <<input, k, plan>>

Compute == EverythingResident \/ StartSearch \/ TakeK \/ SkipK \/ NothingFits

\* The planner by itself.
PlanNext == Compute \/ Check
PlanSpec == PlanInput /\ PlanInit /\ [][PlanNext]_planVars

-----------------------------------------------------------------------------
(* LayerRead::new: the sector-aligned read of a span.                      *)

ReadStart(range) == AlignDown(range[1])
ReadBytes(range) == AlignUp(range[2]) - AlignDown(range[1])
HeadBytes(range) == range[1] - ReadStart(range)

-----------------------------------------------------------------------------
(* Properties.                                                             *)

Feasible == {n \in 0 .. NLayer : TotalOf(n) <= budget}

\* The plan has been computed.
Planned == phase \notin {"file", "config", "resident", "search"}

\* "Tier 1 is the longest prefix of whole layers such that the always-resident set, a ring
\* sized for the largest layer of the suffix and the prefix's arenas fit the budget", tried
\* as the doc says from the top down: no larger prefix would have fitted.
LongestPrefix ==
  Planned /\ budget # NoBudget /\ Feasible # {} =>
    pinned = Max(Feasible)

\* "check() refuses a plan that does not fit": an accepted plan is within its budget, and
\* a plan that streams has slots to stream through, each large enough for the read of any
\* layer it streams, wherever in a sector the layer starts.
AcceptedFits ==
  phase = "accepted" =>
    /\ budget # NoBudget => Total <= budget
    /\ pinned < NLayer => nSlots > 0
    /\ \A l \in pinned .. NLayer - 1 : ReadBytes(span[l]) <= slotBytes

\* "The smallest budget at which any plan is feasible": a budget is refused only when no
\* number of pinned layers would have fitted it.
RefusedInfeasible == phase = "refused" => Feasible = {}
=============================================================================
