----------------------------- MODULE LoadProofs -----------------------------
(***************************************************************************)
(* Proofs about MemoryPlan and Load, for every file, every budget, every   *)
(* number of slots and every size of a sector.                             *)
(*                                                                         *)
(* The search goes down from the whole model, so what makes its answer the *)
(* best one is what it has passed: SearchPassed. The slot is sized by the  *)
(* longest span of the suffix, and an arena is one sector longer than the  *)
(* span needs: with both, every layer fits wherever its span starts.       *)
(*                                                                         *)
(* HeaderInv is the inductive invariant of the reader of the file: what it *)
(* has read is a prefix of the header, and the index holds the tensors     *)
(* whose data the file has. LoadInv is the one of the load: which phases   *)
(* the plan stands in, that every arena is filled from its own range, and  *)
(* that every view lies inside the arena of its tensor.                    *)
(*                                                                         *)
(* MemInv is the one of what the load allocates: phase by phase it is the  *)
(* sum of the plan's own lines up to there, and of copies that are counted *)
(* by the file's small tensors, or that the plan has no line for.          *)
(***************************************************************************)
EXTENDS Load, DataLemmas, TLAPS

PlanTypeOK ==
  /\ phase \in {"resident", "search", "planned", "accepted", "refused"}
  /\ k \in -1 .. NLayer /\ pinned \in 0 .. NLayer
  /\ phase = "search" => k < NLayer /\ budget # NoBudget

\* Every number of pinned layers above k was found not to fit.
SearchPassed ==
  phase = "search" => \A n \in 0 .. NLayer : n > k => ~(TotalOf(n) <= budget)

\* The plan is the best there is, or pins nothing because nothing fits.
PlanIsBest ==
  Planned /\ budget # NoBudget =>
    /\ \A n \in 0 .. NLayer : n > pinned => ~(TotalOf(n) <= budget)
    /\ TotalOf(pinned) <= budget \/ Feasible = {}

\* A plan that streams was found by the search, and has its slots.
StreamedPlan ==
  Planned /\ pinned < NLayer => nSlots = slots /\ slotBytes = SlotFor(pinned)

AcceptedIsChecked == phase = "accepted" /\ budget # NoBudget => Fits

\* The inductive invariant of the planner.
PlanInv ==
  PlanInput /\ PlanTypeOK /\ SearchPassed /\ PlanIsBest /\ StreamedPlan /\ AcceptedIsChecked

-----------------------------------------------------------------------------
LEMMA PlanInvInit == PlanInput /\ PlanInit => PlanInv
  BY DEF PlanInput, PlanInit, PlanInv, PlanTypeOK, SearchPassed, PlanIsBest, StreamedPlan,
         AcceptedIsChecked, Planned

\* The input stays what it is, and with it every figure derived from it.
LEMMA InputStep == PlanInput /\ UNCHANGED input => PlanInput'
  BY DEF PlanInput, input, NLayer, Layers

LEMMA NLayerUnchanged == UNCHANGED input => NLayer' = NLayer
  BY DEF input, NLayer, Layers

LEMMA SlotForUnchanged == ASSUME UNCHANGED input PROVE \A n : SlotFor(n)' = SlotFor(n)
  BY DEF input, SlotFor, LargestFrom, SpanLen, ArenaBytes, AlignUp, AlignDown, NLayer, Layers

LEMMA PrefixUnchanged == ASSUME UNCHANGED input PROVE \A n : Prefix(n)' = Prefix(n)
  BY DEF input, Prefix, SpanLen, ArenaBytes, AlignUp, AlignDown, Layers

LEMMA TotalOfUnchanged == ASSUME UNCHANGED input PROVE \A n : TotalOf(n)' = TotalOf(n)
  BY SlotForUnchanged, PrefixUnchanged DEF TotalOf, RingFor, input

\* With every layer pinned there is no ring.
LEMMA WholeModel == PlanInput => TotalOf(NLayer) = resident + Prefix(NLayer)
<1> SUFFICES ASSUME PlanInput PROVE TotalOf(NLayer) = resident + Prefix(NLayer)
  OBVIOUS
<1>1. slots \in Nat /\ resident \in Nat
  BY PlanAssumption DEF PlanInput
<1>2. RingFor(NLayer) = 0
  BY <1>1 DEF RingFor, SlotFor
<1>3. resident + RingFor(NLayer) = resident
  BY <1>1, <1>2
<1>4. QED
  BY <1>3 DEF TotalOf

LEMMA FeasibleUnchanged == ASSUME UNCHANGED input PROVE Feasible' = Feasible
  BY TotalOfUnchanged, NLayerUnchanged DEF Feasible, input

-----------------------------------------------------------------------------
LEMMA EverythingResidentStep == PlanInv /\ EverythingResident => PlanInv'
<1> SUFFICES ASSUME PlanInv, EverythingResident PROVE PlanInv'
  OBVIOUS
<1> USE DEF EverythingResident
<1>1. PlanInput' /\ NLayer' = NLayer /\ NLayer \in Nat \ {0}
  BY InputStep, NLayerUnchanged DEF PlanInv, PlanInput
<1>2. PlanTypeOK'
  BY <1>1 DEF PlanInv, PlanTypeOK
<1>3. PlanIsBest'
  <2> SUFFICES ASSUME budget # NoBudget
               PROVE  /\ \A n \in 0 .. NLayer : ~(n > NLayer)
                      /\ TotalOf(NLayer)' <= budget
    BY <1>1 DEF PlanIsBest, Planned, input
  <2>1. \A n \in 0 .. NLayer : ~(n > NLayer)
    BY <1>1
  <2>2. TotalOf(NLayer) <= budget
    BY WholeModel DEF PlanInv
  <2>3. TotalOf(NLayer)' = TotalOf(NLayer)
    BY TotalOfUnchanged, <1>1
  <2>4. QED
    BY <2>1, <2>2, <2>3
<1>4. StreamedPlan' /\ SearchPassed' /\ AcceptedIsChecked'
  BY <1>1 DEF StreamedPlan, SearchPassed, AcceptedIsChecked
<1>5. QED
  BY <1>1, <1>2, <1>3, <1>4 DEF PlanInv
LEMMA StartSearchStep == PlanInv /\ StartSearch => PlanInv'
<1> SUFFICES ASSUME PlanInv, StartSearch PROVE PlanInv'
  OBVIOUS
<1> USE DEF StartSearch
<1>1. PlanInput' /\ NLayer' = NLayer /\ NLayer \in Nat \ {0} /\ budget' = budget
  BY InputStep, NLayerUnchanged DEF PlanInv, PlanInput, input
<1>2. PlanTypeOK'
  <2>1. pinned' = pinned
    BY DEF plan
  <2>2. QED
    BY <1>1, <2>1 DEF PlanInv, PlanTypeOK
<1>3. SearchPassed'
  <2> SUFFICES ASSUME NEW n \in 0 .. NLayer, n > k' PROVE ~(TotalOf(n)' <= budget)
    BY <1>1 DEF SearchPassed
  <2>1. n = NLayer
    BY <1>1
  <2>2. ~(TotalOf(NLayer) <= budget)
    BY WholeModel DEF PlanInv
  <2>3. TotalOf(n)' = TotalOf(n)
    BY TotalOfUnchanged
  <2>4. QED
    BY <2>1, <2>2, <2>3
<1>4. PlanIsBest' /\ StreamedPlan' /\ AcceptedIsChecked'
  BY DEF PlanIsBest, StreamedPlan, AcceptedIsChecked, Planned
<1>5. QED
  BY <1>1, <1>2, <1>3, <1>4 DEF PlanInv

LEMMA TakeKStep == PlanInv /\ TakeK => PlanInv'
<1> SUFFICES ASSUME PlanInv, TakeK PROVE PlanInv'
  OBVIOUS
<1> USE DEF TakeK
<1>1. /\ PlanInput' /\ NLayer' = NLayer /\ NLayer \in Nat \ {0}
      /\ budget' = budget /\ slots' = slots
  BY InputStep, NLayerUnchanged DEF PlanInv, PlanInput, input
<1>2. PlanTypeOK'
  BY <1>1 DEF PlanInv, PlanTypeOK
<1>3. PlanIsBest'
  <2>1. \A n \in 0 .. NLayer : n > k => ~(TotalOf(n) <= budget)
    BY DEF PlanInv, SearchPassed
  <2>2. \A n : TotalOf(n)' = TotalOf(n)
    BY TotalOfUnchanged
  <2>3. TotalOf(k) <= budget
    OBVIOUS
  <2>4. TotalOf(pinned)' = TotalOf(k)
    BY SlotForUnchanged, PrefixUnchanged, <1>1 DEF TotalOf, RingFor, input
  <2>5. pinned' = k
    OBVIOUS
  <2>6. \A n \in 0 .. NLayer' : n > pinned' => ~(TotalOf(n)' <= budget')
    BY <1>1, <2>1, <2>2, <2>5
  <2>7. TotalOf(pinned)' <= budget'
    BY <1>1, <2>3, <2>4
  <2>8. QED
    BY <2>6, <2>7 DEF PlanIsBest
<1>4. StreamedPlan'
  BY <1>1, SlotForUnchanged DEF StreamedPlan, SlotFor, LargestFrom, SpanLen, ArenaBytes, AlignUp,
     AlignDown, NLayer, Layers, input
<1>5. SearchPassed' /\ AcceptedIsChecked'
  BY DEF SearchPassed, AcceptedIsChecked
<1>6. QED
  BY <1>1, <1>2, <1>3, <1>4, <1>5 DEF PlanInv

LEMMA SkipKStep == PlanInv /\ SkipK => PlanInv'
<1> SUFFICES ASSUME PlanInv, SkipK PROVE PlanInv'
  OBVIOUS
<1> USE DEF SkipK
<1>1. PlanInput' /\ NLayer' = NLayer /\ NLayer \in Nat \ {0} /\ budget' = budget
  BY InputStep, NLayerUnchanged DEF PlanInv, PlanInput, input
<1>2. PlanTypeOK'
  <2>1. pinned' = pinned
    BY DEF plan
  <2>2. QED
    BY <1>1, <2>1 DEF PlanInv, PlanTypeOK
<1>3. SearchPassed'
  <2> SUFFICES ASSUME NEW n \in 0 .. NLayer, n > k' PROVE ~(TotalOf(n)' <= budget)
    BY <1>1 DEF SearchPassed
  <2>1. k \in Int /\ n \in Int /\ k' = k - 1
    BY <1>1 DEF PlanInv, PlanTypeOK
  <2>2. n > k \/ n = k
    BY <2>1
  <2>3. ~(TotalOf(n) <= budget)
    BY <2>2 DEF PlanInv, SearchPassed
  <2>4. TotalOf(n)' = TotalOf(n)
    BY TotalOfUnchanged
  <2>5. QED
    BY <2>3, <2>4
<1>4. PlanIsBest' /\ StreamedPlan' /\ AcceptedIsChecked'
  BY DEF PlanIsBest, StreamedPlan, AcceptedIsChecked, Planned
<1>5. QED
  BY <1>1, <1>2, <1>3, <1>4 DEF PlanInv

LEMMA NothingFitsStep == PlanInv /\ NothingFits => PlanInv'
<1> SUFFICES ASSUME PlanInv, NothingFits PROVE PlanInv'
  OBVIOUS
<1> USE DEF NothingFits
<1>1. /\ PlanInput' /\ NLayer' = NLayer /\ NLayer \in Nat \ {0}
      /\ budget' = budget /\ slots' = slots /\ k \in Int
  BY InputStep, NLayerUnchanged DEF PlanInv, PlanInput, PlanTypeOK, input
<1>2. PlanTypeOK'
  BY <1>1 DEF PlanInv, PlanTypeOK
<1>3. PlanIsBest'
  <2>1. \A n \in 0 .. NLayer : ~(TotalOf(n) <= budget)
    BY <1>1 DEF PlanInv, SearchPassed
  <2>2. \A n : TotalOf(n)' = TotalOf(n)
    BY TotalOfUnchanged
  <2>3. \A n \in 0 .. NLayer' : ~(TotalOf(n)' <= budget')
    BY <1>1, <2>1, <2>2
  <2>4. Feasible' = {}
    BY <2>3 DEF Feasible
  <2>5. QED
    BY <2>3, <2>4 DEF PlanIsBest
<1>4. StreamedPlan'
  BY <1>1, SlotForUnchanged DEF StreamedPlan, SlotFor, LargestFrom, SpanLen, ArenaBytes, AlignUp,
     AlignDown, NLayer, Layers, input
<1>5. SearchPassed' /\ AcceptedIsChecked'
  BY DEF SearchPassed, AcceptedIsChecked
<1>6. QED
  BY <1>1, <1>2, <1>3, <1>4, <1>5 DEF PlanInv

LEMMA CheckStep == PlanInv /\ Check => PlanInv'
<1> SUFFICES ASSUME PlanInv, Check PROVE PlanInv'
  OBVIOUS
<1> USE DEF Check
<1>1. PlanInput' /\ NLayer' = NLayer
  BY InputStep, NLayerUnchanged DEF PlanInv
<1>2. /\ budget' = budget /\ slots' = slots /\ resident' = resident
      /\ pinned' = pinned /\ nSlots' = nSlots /\ slotBytes' = slotBytes
  BY DEF input, plan
<1>3. PlanTypeOK'
  BY <1>1, <1>2 DEF PlanInv, PlanTypeOK
<1>4. PlanIsBest'
  <2> SUFFICES ASSUME budget # NoBudget
               PROVE  /\ \A n \in 0 .. NLayer : n > pinned => ~(TotalOf(n)' <= budget)
                      /\ TotalOf(pinned)' <= budget \/ Feasible' = {}
    BY <1>1, <1>2 DEF PlanIsBest, Planned
  <2>1. /\ \A n \in 0 .. NLayer : n > pinned => ~(TotalOf(n) <= budget)
        /\ TotalOf(pinned) <= budget \/ Feasible = {}
    BY DEF PlanInv, PlanIsBest, Planned
  <2>2. \A n : TotalOf(n)' = TotalOf(n)
    BY TotalOfUnchanged
  <2>3. Feasible' = Feasible
    BY FeasibleUnchanged
  <2>4. TotalOf(pinned)' = TotalOf(pinned)
    BY SlotForUnchanged, PrefixUnchanged, <1>1, <1>2 DEF TotalOf, RingFor
  <2>5. QED
    BY <2>1, <2>2, <2>3, <2>4
<1>5. StreamedPlan'
  <2>1. SlotFor(pinned)' = SlotFor(pinned)
    BY <1>2 DEF SlotFor, LargestFrom, SpanLen, ArenaBytes, AlignUp, AlignDown, NLayer, Layers, input
  <2>2. pinned < NLayer => nSlots = slots /\ slotBytes = SlotFor(pinned)
    BY DEF PlanInv, StreamedPlan, Planned
  <2>3. QED
    BY <1>1, <1>2, <2>1, <2>2 DEF StreamedPlan
<1>6. AcceptedIsChecked'
  <2> SUFFICES ASSUME phase' = "accepted", budget # NoBudget PROVE Fits'
    BY <1>2 DEF AcceptedIsChecked
  <2>1. Fits
    OBVIOUS
  <2>2. Prefix(pinned)' = Prefix(pinned)
    BY <1>2 DEF Prefix, SpanLen, ArenaBytes, AlignUp, AlignDown, Layers, input
  <2>3. Total' = Total
    BY <1>2, <2>2 DEF Total
  <2>4. QED
    BY <1>1, <1>2, <2>1, <2>3 DEF Fits
<1>7. SearchPassed'
  BY DEF SearchPassed
<1>8. QED
  BY <1>1, <1>3, <1>4, <1>5, <1>6, <1>7 DEF PlanInv

-----------------------------------------------------------------------------
LEMMA PlanInvStep == PlanInv /\ [PlanNext]_planVars => PlanInv'
<1> USE DEF planVars, plan, input
<1>1. PlanInput /\ UNCHANGED planVars => PlanInput'
  BY DEF PlanInput, NLayer, Layers
<1>2. PlanTypeOK /\ UNCHANGED planVars => PlanTypeOK'
  BY DEF PlanTypeOK, NLayer, Layers
<1> USE DEF TotalOf, RingFor, SlotFor, LargestFrom, Prefix, SpanLen, ArenaBytes, AlignUp, AlignDown,
            NLayer, Layers
<1>3. SearchPassed /\ UNCHANGED planVars => SearchPassed'
  BY DEF SearchPassed
<1>4. PlanIsBest /\ UNCHANGED planVars => PlanIsBest'
  BY DEF PlanIsBest, Planned, Feasible
<1>5. StreamedPlan /\ UNCHANGED planVars => StreamedPlan'
  BY DEF StreamedPlan, Planned
<1>6. AcceptedIsChecked /\ UNCHANGED planVars => AcceptedIsChecked'
  BY DEF AcceptedIsChecked, Fits, Total
<1>7. PlanInv /\ UNCHANGED planVars => PlanInv'
  BY <1>1, <1>2, <1>3, <1>4, <1>5, <1>6 DEF PlanInv
<1>8. QED
  BY <1>7, EverythingResidentStep, StartSearchStep, TakeKStep, SkipKStep, NothingFitsStep, CheckStep
  DEF PlanNext, Compute

LEMMA PlanInvariance == PlanSpec => []PlanInv
<1>1. QED
  BY PlanInvInit, PlanInvStep, PTL DEF PlanSpec

\* A plan that is the best there is pins the longest prefix.
LEMMA BestIsLongest == PlanInv => LongestPrefix
<1> SUFFICES ASSUME PlanInv, Planned, budget # NoBudget, Feasible # {}
             PROVE  pinned = Max(Feasible)
  BY DEF LongestPrefix
<1>1. /\ \A n \in 0 .. NLayer : n > pinned => ~(TotalOf(n) <= budget)
      /\ TotalOf(pinned) <= budget
  BY DEF PlanInv, PlanIsBest
<1>2. NLayer \in Nat /\ pinned \in 0 .. NLayer
  BY DEF PlanInv, PlanInput, PlanTypeOK
<1>3. pinned \in Feasible
  BY <1>1, <1>2 DEF Feasible
<1>4. \A n \in Feasible : pinned >= n
  BY <1>1, <1>2 DEF Feasible
<1>5. \A m \in Feasible : (\A n \in Feasible : m >= n) => m = pinned
  <2> SUFFICES ASSUME NEW m \in Feasible, \A n \in Feasible : m >= n PROVE m = pinned
    OBVIOUS
  <2>1. m \in Int /\ pinned \in Int
    BY <1>2 DEF Feasible
  <2>2. m >= pinned /\ pinned >= m
    BY <1>3, <1>4
  <2>3. QED
    BY <2>1, <2>2
<1>6. QED
  BY <1>3, <1>4, <1>5 DEF Max

\* "Tier 1 is the longest prefix of whole layers" that fits: no plan pins a layer less than
\* its budget allows, for every file, budget and number of slots.
THEOREM PlanLongestPrefix == PlanSpec => []LongestPrefix
BY BestIsLongest, PlanInvariance, PTL

-----------------------------------------------------------------------------
\* AlignDown is the last multiple of the sector that is not above x.
LEMMA AlignFacts ==
  ASSUME NEW x \in Nat
  PROVE  \E q \in Nat : AlignDown(x) = q * Sector /\ q * Sector <= x /\ x < q * Sector + Sector
<1>1. Sector \in Nat \ {0}
  BY PlanAssumption
<1>2. PICK q \in Nat, r \in 0 .. Sector - 1 : x = q * Sector + r /\ (x % Sector) = r
  BY <1>1, DivMod
<1>3. q * Sector \in Nat
  BY <1>1
<1>4. AlignDown(x) = q * Sector
  BY <1>1, <1>2, <1>3 DEF AlignDown
<1>5. QED
  BY <1>1, <1>2, <1>3, <1>4

\* The sector-aligned read of a span of at most n bytes fits an arena for n bytes: both are
\* multiples of the sector, and less than a sector may be between them.
LEMMA ReadFitsArena ==
  ASSUME NEW a \in Nat, NEW b \in Nat, a <= b, NEW n \in Nat, b - a <= n
  PROVE  ReadBytes(<<a, b>>) <= ArenaBytes(n)
<1>1. Sector \in Nat \ {0}
  BY PlanAssumption
<1>2. b + Sector - 1 \in Nat /\ n + Sector - 1 \in Nat
  BY <1>1
<1>3. PICK p \in Nat : AlignDown(a) = p * Sector /\ p * Sector <= a /\ a < p * Sector + Sector
  BY AlignFacts
<1>4. PICK q \in Nat : /\ AlignDown(b + Sector - 1) = q * Sector
                       /\ q * Sector <= b + Sector - 1
  BY <1>2, AlignFacts
<1>5. PICK r \in Nat : /\ AlignDown(n + Sector - 1) = r * Sector
                       /\ n + Sector - 1 < r * Sector + Sector
  BY <1>2, AlignFacts
<1>6. p * Sector \in Nat /\ q * Sector \in Nat /\ r * Sector \in Nat
  BY <1>1
<1>7. q * Sector - p * Sector - r * Sector - Sector < Sector
  BY <1>1, <1>3, <1>4, <1>5, <1>6
<1>8. (q - p - r - 1) * Sector = q * Sector - p * Sector - r * Sector - Sector
  BY <1>1
<1>9. q - p - r - 1 <= 0
  <2> SUFFICES ASSUME q - p - r - 1 >= 1 PROVE FALSE
    OBVIOUS
  <2>1. \A c \in Int : c >= 1 => c * Sector >= Sector
    BY <1>1
  <2>2. QED
    BY <1>1, <1>6, <1>7, <1>8, <2>1
<1>10. \A c \in Int : c <= 0 => c * Sector <= 0
  BY <1>1
<1>11. q * Sector - p * Sector <= r * Sector + Sector
  BY <1>1, <1>6, <1>8, <1>9, <1>10
<1>12. QED
  BY <1>3, <1>4, <1>5, <1>11 DEF ReadBytes, ArenaBytes, AlignUp

\* The spans of at least one layer, none of them backwards.
SpansOk ==
  /\ NLayer \in Nat \ {0} /\ span \in [0 .. NLayer - 1 -> Nat \X Nat]
  /\ \A l \in Layers : span[l][1] <= span[l][2]

\* The longest span of a suffix is that of one of its layers, and no other's is longer.
LEMMA LargestOfSuffix ==
  ASSUME SpansOk, NEW n \in 0 .. NLayer - 1
  PROVE  /\ LargestFrom(n) \in Nat
         /\ \A l \in n .. NLayer - 1 : SpanLen(l) <= LargestFrom(n)
<1>1. NLayer \in Nat \ {0} /\ n \in Nat /\ NLayer - 1 \in Nat /\ n <= NLayer - 1
  BY DEF SpansOk
<1>2. \A l \in 0 .. NLayer - 1 : SpanLen(l) \in Nat
  <2> SUFFICES ASSUME NEW l \in 0 .. NLayer - 1 PROVE SpanLen(l) \in Nat
    OBVIOUS
  <2>1. l \in Layers /\ span[l] \in Nat \X Nat
    BY DEF SpansOk, Layers
  <2>2. span[l][1] <= span[l][2]
    BY <2>1 DEF SpansOk
  <2>3. QED
    BY <2>1, <2>2 DEF SpanLen
<1> DEFINE f == [l \in n .. NLayer - 1 |-> SpanLen(l)]
           S == {SpanLen(l) : l \in n .. NLayer - 1}
<1>3. f \in [n .. NLayer - 1 -> Int]
  BY <1>1, <1>2
<1>4. PICK i \in n .. NLayer - 1 : \A j \in n .. NLayer - 1 : f[j] <= f[i]
  <2> HIDE DEF f
  <2>1. QED
    BY <1>1, <1>3, GreatestOfRange
<1>5. SpanLen(i) \in S /\ \A x \in S : SpanLen(i) >= x
  BY <1>4
<1>6. Max(S) \in S /\ \A x \in S : Max(S) >= x
  <2> HIDE DEF S
  <2>1. QED
    BY <1>5 DEF Max
<1>7. QED
  BY <1>1, <1>2, <1>6 DEF LargestFrom

\* A slot sized for a suffix holds the read of any of its layers.
LEMMA SlotHoldsSuffix ==
  ASSUME SpansOk, NEW n \in 0 .. NLayer - 1
  PROVE  SlotFor(n) = ArenaBytes(LargestFrom(n)) /\ \A l \in n .. NLayer - 1 : ReadBytes(span[l]) <= SlotFor(n)
<1>1. NLayer \in Nat \ {0} /\ n \in Nat /\ n # NLayer
  BY DEF SpansOk
<1>2. SlotFor(n) = ArenaBytes(LargestFrom(n))
  BY <1>1 DEF SlotFor
<1>3. ASSUME NEW l \in n .. NLayer - 1 PROVE ReadBytes(span[l]) <= SlotFor(n)
  <2>1. l \in 0 .. NLayer - 1
    BY <1>1
  <2>2. LargestFrom(n) \in Nat /\ SpanLen(l) <= LargestFrom(n)
    BY LargestOfSuffix
  <2>3. span[l] \in Nat \X Nat /\ span[l][1] <= span[l][2]
    BY <2>1 DEF SpansOk, Layers
  <2>4. span[l] = <<span[l][1], span[l][2]>> /\ span[l][1] \in Nat /\ span[l][2] \in Nat
    BY <2>3
  <2>5. ReadBytes(<<span[l][1], span[l][2]>>) <= ArenaBytes(LargestFrom(n))
    BY <2>2, <2>3, <2>4, ReadFitsArena DEF SpanLen
  <2>6. QED
    BY <1>2, <2>4, <2>5
<1>4. QED
  BY <1>2, <1>3

\* A plan that was accepted was checked.
LEMMA CheckedFits == PlanInv => AcceptedFits
<1> SUFFICES ASSUME PlanInv, phase = "accepted" PROVE AcceptedFits
  BY DEF AcceptedFits
<1>1. NLayer \in Nat \ {0} /\ pinned \in 0 .. NLayer /\ slots \in Nat \ {0} /\ Planned
  BY PlanAssumption DEF PlanInv, PlanInput, PlanTypeOK, Planned
<1>2. budget # NoBudget => Total <= budget
  BY DEF PlanInv, AcceptedIsChecked, Fits
<1>3. pinned < NLayer => nSlots > 0 /\ slotBytes = SlotFor(pinned)
  BY <1>1 DEF PlanInv, StreamedPlan
<1>4. ASSUME NEW l \in pinned .. NLayer - 1 PROVE ReadBytes(span[l]) <= slotBytes
  <2>1. pinned \in 0 .. NLayer - 1 /\ SpansOk
    BY <1>1 DEF PlanInv, PlanInput, SpansOk
  <2>2. QED
    BY <1>1, <1>3, <2>1, SlotHoldsSuffix
<1>5. QED
  BY <1>2, <1>3, <1>4 DEF AcceptedFits

\* An accepted plan fits its budget, has slots to stream through, and each of them holds
\* any layer it streams.
THEOREM PlanAcceptedFits == PlanSpec => []AcceptedFits
BY CheckedFits, PlanInvariance, PTL

\* The bytes of the fields.
Width(s) == SumFunctionOnSet([i \in 1 .. Len(s) |-> s[i].w], 1 .. Len(s))

\* What the halves of WidthOf are computed by.
Halves(s, h) ==
  h = [r \in (1 .. Len(s)) \X (1 .. Len(s)) |->
        IF r[1] >= r[2] THEN s[r[1]].w
        ELSE LET m == (r[1] + r[2]) \div 2 IN h[<<r[1], m>>] + h[<<m + 1, r[2]>>]]

\* One element.
LEMMA SumOne == ASSUME NEW x, NEW f, f[x] \in Int PROVE SumFunctionOnSet(f, {x}) = f[x]
<1> DEFINE one == {x}
<1>1. IsFiniteSet(one) /\ x \in one
  BY FS_Singleton
<1>2. \A y \in one : f[y] \in Int
  OBVIOUS
<1>3. {} \in SUBSET one /\ x \in one \ {} /\ {} \cup {x} = one
  OBVIOUS
<1> HIDE DEF one
<1>4. /\ SumFunctionOnSet(f, {}) = 0
      /\ \A T \in SUBSET one : \A y \in one \ T : SumFunctionOnSet(f, T \cup {y}) = f[y] + SumFunctionOnSet(f, T)
  BY <1>1, <1>2, SumFacts
<1>5. SumFunctionOnSet(f, {} \cup {x}) = f[x] + SumFunctionOnSet(f, {})
  BY <1>3, <1>4
<1>6. SumFunctionOnSet(f, one) = f[x] + 0
  BY <1>3, <1>4, <1>5
<1>7. QED
  BY <1>6 DEF one

LEMMA FieldWidth ==
  ASSUME NEW s \in Seq(HeaderField), NEW i \in 1 .. Len(s)
  PROVE  /\ s[i].w \in Nat /\ s[i].err \in HeaderFaults \cup {""}
         /\ [j \in 1 .. Len(s) |-> s[j].w][i] = s[i].w
<1>1. s[i] \in HeaderField
  BY ElementOfSeq
<1>2. QED
  BY <1>1 DEF HeaderField

LEMMA WidthIsLast ==
  ASSUME NEW s, s # <<>>
  PROVE  WidthOf(s) = (CHOOSE h : Halves(s, h))[<<1, Len(s)>>]
  BY DEF WidthOf, Halves

LEMMA Middle ==
  ASSUME NEW a \in Nat, NEW b \in Nat, a < b
  PROVE  /\ (a + b) \div 2 \in Nat /\ a <= (a + b) \div 2 /\ (a + b) \div 2 < b
         /\ a .. b = (a .. (a + b) \div 2) \cup (((a + b) \div 2) + 1 .. b)
         /\ (a .. (a + b) \div 2) \cap (((a + b) \div 2) + 1 .. b) = {}
<1> DEFINE m == (a + b) \div 2
<1>1. m \in Nat /\ a <= m /\ m < b
  BY SMT
<1> HIDE DEF m
<1>2. a .. b = (a .. m) \cup (m + 1 .. b) /\ (a .. m) \cap (m + 1 .. b) = {}
  BY <1>1
<1>3. QED
  BY <1>1, <1>2 DEF m

\* A function computed by halves holds the sum of every range.
LEMMA HalvesAreSums ==
  ASSUME NEW s \in Seq(HeaderField), NEW h, Halves(s, h),
         NEW a \in 1 .. Len(s), NEW b \in 1 .. Len(s), a <= b
  PROVE  h[<<a, b>>] = SumFunctionOnSet([i \in 1 .. Len(s) |-> s[i].w], a .. b)
<1> DEFINE n == Len(s)
           w == [i \in 1 .. n |-> s[i].w]
           S(c, d) == SumFunctionOnSet(w, c .. d)
           Bad == {g \in Nat : \E c \in 1 .. n, d \in 1 .. n : c <= d /\ d - c = g /\ h[<<c, d>>] # S(c, d)}
<1>1. n \in Nat /\ \A i \in 1 .. n : s[i] \in HeaderField
  BY ElementOfSeq
<1>2. \A i \in 1 .. n : w[i] \in Nat /\ w[i] = s[i].w
  BY <1>1 DEF HeaderField
<1>3. \A c \in 1 .. n, d \in 1 .. n :
        h[<<c, d>>] = IF c >= d THEN s[c].w
                      ELSE LET m == (c + d) \div 2 IN h[<<c, m>>] + h[<<m + 1, d>>]
  BY DEF Halves
<1> HIDE DEF w, n
<1>4. Bad = {}
  <2> SUFFICES ASSUME Bad # {} PROVE FALSE
    OBVIOUS
  <2>1. Bad \in SUBSET Nat
    OBVIOUS
  <2>2. PICK g \in Bad : \A j \in Bad : g <= j
    BY <2>1, LeastNatural
  <2>3. PICK c \in 1 .. n, d \in 1 .. n : c <= d /\ d - c = g /\ h[<<c, d>>] # S(c, d)
    OBVIOUS
  <2>4. \A x \in 1 .. n, y \in 1 .. n : x <= y /\ y - x < g => h[<<x, y>>] = S(x, y)
    <3> SUFFICES ASSUME NEW x \in 1 .. n, NEW y \in 1 .. n, x <= y, y - x < g, h[<<x, y>>] # S(x, y)
                 PROVE  FALSE
      OBVIOUS
    <3>1. y - x \in Nat /\ g \in Nat
      BY <1>1, <2>1
    <3>2. y - x \in Bad
      BY <3>1
    <3> HIDE DEF Bad
    <3>3. QED
      BY <2>2, <3>1, <3>2
  <2>5. CASE c = d
    <3>1. h[<<c, d>>] = w[c]
      <4>1. c >= d
        BY <1>1, <2>5
      <4>2. h[<<c, d>>] = s[c].w
        BY <1>3, <4>1
      <4>3. QED
        BY <1>2, <4>2
    <3>2. c .. d = {c}
      BY <1>1, <2>5
    <3>3. w[c] \in Int
      BY <1>2
    <3>4. SumFunctionOnSet(w, {c}) = w[c]
      BY <3>3, SumOne
    <3>8. S(c, d) = w[c]
      BY <3>2, <3>4
    <3>9. QED
      BY <2>3, <3>1, <3>8
  <2>6. CASE c < d
    <3> DEFINE m == (c + d) \div 2
    <3>1. c \in Nat /\ d \in Nat
      BY <1>1
    <3>2. /\ m \in Nat /\ c <= m /\ m < d /\ c .. d = (c .. m) \cup (m + 1 .. d)
          /\ (c .. m) \cap (m + 1 .. d) = {}
      BY <2>6, <3>1, Middle
    <3>3. h[<<c, d>>] = h[<<c, m>>] + h[<<m + 1, d>>]
      BY <1>3, <2>6, <3>1
    <3> HIDE DEF m
    <3>4. m \in 1 .. n /\ m + 1 \in 1 .. n /\ m - c < g /\ d - (m + 1) < g /\ m + 1 <= d
      BY <1>1, <2>3, <3>1, <3>2
    <3>5. h[<<c, m>>] = S(c, m)
      BY <2>4, <3>2, <3>4
    <3>6. h[<<m + 1, d>>] = S(m + 1, d)
      BY <2>4, <3>4
    <3>7. IsFiniteSet(c .. m) /\ IsFiniteSet(m + 1 .. d)
      <4>1. \A x, y \in Int : IsFiniteSet(x .. y)
        BY FS_Interval
      <4>2. m + 1 \in Int /\ m \in Int /\ c \in Int /\ d \in Int
        BY <3>1, <3>2
      <4>3. QED
        BY <4>1, <4>2
    <3>8. \A x \in (c .. m) \cup (m + 1 .. d) : w[x] \in Int
      BY <1>1, <1>2, <3>1, <3>2
    <3>9. SumFunctionOnSet(w, (c .. m) \cup (m + 1 .. d)) = S(c, m) + S(m + 1, d)
      BY <3>2, <3>7, <3>8, SumUnion
    <3>10. QED
      BY <2>3, <3>2, <3>3, <3>5, <3>6, <3>9
  <2>7. QED
    BY <1>1, <2>3, <2>5, <2>6
<1>5. b - a \in Nat
  BY <1>1 DEF n
<1>6. h[<<a, b>>] = S(a, b)
  BY <1>4, <1>5 DEF n
<1>7. QED
  BY <1>6 DEF w, n

\* There is such a function.
LEMMA HalvesExist == ASSUME NEW s \in Seq(HeaderField) PROVE \E h : Halves(s, h)
<1> DEFINE n == Len(s)
           D == (1 .. n) \X (1 .. n)
           w == [i \in 1 .. n |-> s[i].w]
           S(c, d) == SumFunctionOnSet(w, c .. d)
           h == [r \in D |-> IF r[1] >= r[2] THEN s[r[1]].w ELSE S(r[1], r[2])]
           Half(r) == IF r[1] >= r[2] THEN s[r[1]].w
                      ELSE LET m == (r[1] + r[2]) \div 2 IN h[<<r[1], m>>] + h[<<m + 1, r[2]>>]
<1>1. n \in Nat /\ \A i \in 1 .. n : s[i] \in HeaderField
  BY ElementOfSeq
<1>2. \A i \in 1 .. n : w[i] \in Nat /\ w[i] = s[i].w
  BY <1>1 DEF HeaderField
<1>3. \A c \in 1 .. n, d \in 1 .. n : h[<<c, d>>] = IF c >= d THEN s[c].w ELSE S(c, d)
  OBVIOUS
<1> HIDE DEF w, n
<1>4. ASSUME NEW c \in 1 .. n, NEW d \in 1 .. n, c <= d PROVE h[<<c, d>>] = S(c, d)
  <2>1. CASE c = d
    <3>1. c .. d = {c} /\ c >= d
      BY <1>1, <2>1
    <3>2. w[c] \in Int
      BY <1>2
    <3>3. SumFunctionOnSet(w, {c}) = w[c]
      BY <3>2, SumOne
    <3>4. h[<<c, d>>] = w[c]
      BY <1>2, <1>3, <3>1
    <3>5. QED
      BY <3>1, <3>3, <3>4
  <2>2. CASE c < d
    <3>1. ~(c >= d)
      BY <1>1, <2>2
    <3>2. QED
      BY <1>3, <3>1
  <2>3. QED
    BY <1>1, <1>4, <2>1, <2>2
<1>5. ASSUME NEW r \in D PROVE h[r] = Half(r)
  <2>1. PICK c \in 1 .. n, d \in 1 .. n : r = <<c, d>>
    OBVIOUS
  <2>2. CASE c >= d
    BY <1>3, <2>1, <2>2
  <2>3. CASE ~(c >= d)
    <3> DEFINE m == (c + d) \div 2
    <3>1. c \in Nat /\ d \in Nat /\ c < d
      BY <1>1, <2>3
    <3>2. /\ m \in Nat /\ c <= m /\ m < d /\ c .. d = (c .. m) \cup (m + 1 .. d)
          /\ (c .. m) \cap (m + 1 .. d) = {}
      BY <3>1, Middle
    <3>3. h[<<c, d>>] = S(c, d)
      BY <1>3, <2>3
    <3>4. Half(<<c, d>>) = h[<<c, m>>] + h[<<m + 1, d>>]
      BY <2>3
    <3> HIDE DEF m
    <3>5. m \in 1 .. n /\ m + 1 \in 1 .. n /\ m + 1 <= d
      BY <1>1, <3>1, <3>2
    <3>6. h[<<c, m>>] = S(c, m)
      BY <1>4, <3>2, <3>5
    <3>7. h[<<m + 1, d>>] = S(m + 1, d)
      BY <1>4, <3>5
    <3>8. IsFiniteSet(c .. m) /\ IsFiniteSet(m + 1 .. d)
      <4>1. \A x, y \in Int : IsFiniteSet(x .. y)
        BY FS_Interval
      <4>2. m + 1 \in Int /\ m \in Int /\ c \in Int /\ d \in Int
        BY <3>1, <3>2
      <4>3. QED
        BY <4>1, <4>2
    <3>9. \A x \in (c .. m) \cup (m + 1 .. d) : w[x] \in Int
      BY <1>1, <1>2, <3>1, <3>2
    <3>10. SumFunctionOnSet(w, (c .. m) \cup (m + 1 .. d)) = S(c, m) + S(m + 1, d)
      BY <3>2, <3>8, <3>9, SumUnion
    <3>11. h[<<c, d>>] = Half(<<c, d>>)
      BY <3>2, <3>3, <3>4, <3>6, <3>7, <3>10
    <3>12. QED
      BY <2>1, <3>11
  <2>4. QED
    BY <2>2, <2>3
<1>6. h = [r \in D |-> h[r]]
  OBVIOUS
<1>7. [r \in D |-> h[r]] = [r \in D |-> Half(r)]
  BY <1>5
<1>8. h = [r \in D |-> Half(r)]
  BY <1>6, <1>7
<1>9. Halves(s, h)
  BY <1>8 DEF Halves, n
<1>10. QED
  BY <1>9

\* What WidthOf computes.
LEMMA WidthIsSum == ASSUME NEW s \in Seq(HeaderField) PROVE WidthOf(s) = Width(s)
<1>1. CASE s = <<>>
  <2>1. 1 .. Len(s) = {} /\ WidthOf(s) = 0
    BY <1>1 DEF WidthOf
  <2>2. IsFiniteSet({}) /\ \A f : SumFunctionOnSet(f, {}) = 0
    BY FS_EmptySet, SumFacts
  <2>3. QED
    BY <2>1, <2>2 DEF Width
<1>2. CASE s # <<>>
  <2> DEFINE h == CHOOSE h : Halves(s, h)
  <2>1. Halves(s, h)
    BY HalvesExist
  <2>2. WidthOf(s) = h[<<1, Len(s)>>]
    BY <1>2, WidthIsLast
  <2> HIDE DEF h
  <2>3. Len(s) \in Nat /\ Len(s) # 0
    BY <1>2, EmptySeq
  <2>4. 1 \in 1 .. Len(s) /\ Len(s) \in 1 .. Len(s) /\ 1 <= Len(s)
    BY <2>3
  <2>5. h[<<1, Len(s)>>] = SumFunctionOnSet([i \in 1 .. Len(s) |-> s[i].w], 1 .. Len(s))
    BY <2>1, <2>4, HalvesAreSums
  <2>6. QED
    BY <2>2, <2>5 DEF Width
<1>3. QED
  BY <1>1, <1>2

\* A range of the fields has the bytes of the fields that are at its places.
LEMMA WidthOfPart ==
  ASSUME NEW s \in Seq(HeaderField), NEW t \in Seq(HeaderField), NEW o \in Nat, o + Len(t) <= Len(s),
         \A i \in 1 .. Len(t) : t[i] = s[o + i]
  PROVE  /\ Width(t) = SumFunctionOnSet([i \in 1 .. Len(s) |-> s[i].w], o + 1 .. o + Len(t))
         /\ Width(t) \in Nat
<1> DEFINE n == Len(s)
           k0 == Len(t)
           f == [i \in 1 .. n |-> s[i].w]
           e == [i \in 1 .. k0 |-> t[i].w]
           b == [i \in 1 .. k0 |-> o + i]
<1>1. n \in Nat /\ k0 \in Nat /\ \A i \in 1 .. n : s[i] \in HeaderField
  BY ElementOfSeq
<1>2. IsFiniteSet(1 .. k0)
  <2>1. \A x, y \in Int : IsFiniteSet(x .. y)
    BY FS_Interval
  <2>2. QED
    BY <1>1, <2>1
<1>3. \A i, j \in 1 .. k0 : b[i] = b[j] => i = j
  BY <1>1
<1>4. \A i \in 1 .. k0 : o + i \in 1 .. n
  BY <1>1
<1>5. \A i \in 1 .. k0 : f[b[i]] = s[o + i].w /\ e[i] = s[o + i].w
  BY <1>4
<1>6. \A i \in 1 .. k0 : f[b[i]] \in Nat /\ e[i] = f[b[i]]
  BY <1>1, <1>4, <1>5 DEF HeaderField
<1>7. {b[i] : i \in 1 .. k0} = o + 1 .. o + k0
  <2>1. ASSUME NEW x \in o + 1 .. o + k0 PROVE x \in {b[i] : i \in 1 .. k0}
    <3>1. x - o \in 1 .. k0 /\ x = o + (x - o)
      BY <1>1
    <3>2. QED
      BY <3>1
  <2>2. ASSUME NEW x \in {b[i] : i \in 1 .. k0} PROVE x \in o + 1 .. o + k0
    BY <1>1
  <2>3. QED
    BY <2>1, <2>2
<1> DEFINE D == 1 .. k0
<1>8. /\ IsFiniteSet(D) /\ \A i, j \in D : b[i] = b[j] => i = j
      /\ \A i \in D : f[b[i]] \in Int /\ e[i] = f[b[i]]
      /\ \A i \in D : e[i] \in Nat
  <2>1. \A i \in 1 .. k0 : f[b[i]] \in Int /\ e[i] = f[b[i]] /\ e[i] \in Nat
    <3> HIDE DEF e, f, b
    <3>1. QED
      BY <1>6
  <2>2. QED
    BY <1>2, <1>3, <2>1
<1> HIDE DEF D, b, e, f
<1>9. SumFunctionOnSet(e, D) = SumFunctionOnSet(f, {b[i] : i \in D})
  BY <1>8, SumReindex
<1>10. D \in SUBSET D
  OBVIOUS
<1>11. SumFunctionOnSet(e, D) \in Nat
  BY <1>8, <1>10, SumPart
<1>12. Width(t) = SumFunctionOnSet(e, D)
  BY DEF Width, e, D
<1>13. SumFunctionOnSet(e, D) = SumFunctionOnSet(f, o + 1 .. o + k0)
  BY <1>7, <1>9 DEF D
<1>14. Width(t) = SumFunctionOnSet(f, o + 1 .. o + k0)
  BY <1>12, <1>13
<1>15. QED
  BY <1>11, <1>12, <1>14 DEF f

LEMMA WidthNat == ASSUME NEW s \in Seq(HeaderField) PROVE Width(s) \in Nat
<1>1. Len(s) \in Nat
  OBVIOUS
<1>2. 0 \in Nat /\ 0 + Len(s) <= Len(s) /\ \A i \in 1 .. Len(s) : s[i] = s[0 + i]
  BY <1>1
<1>3. QED
  BY <1>2, WidthOfPart

\* The fields after the first one.
LEMMA WidthTail ==
  ASSUME NEW s \in Seq(HeaderField), s # <<>>
  PROVE  Width(s) = Head(s).w + Width(Tail(s)) /\ Head(s).w \in Nat /\ Width(Tail(s)) \in Nat
<1> DEFINE n == Len(s)
           f == [i \in 1 .. n |-> s[i].w]
           t == Tail(s)
<1>1. /\ n \in Nat \ {0} /\ t \in Seq(HeaderField) /\ Len(t) = n - 1 /\ Head(s) = s[1]
      /\ \A i \in 1 .. Len(t) : t[i] = s[i + 1]
  BY HeadTailProperties, EmptySeq
<1>2. \A i \in 1 .. n : s[i] \in HeaderField
  BY ElementOfSeq
<1>3. 1 \in Nat /\ 1 + Len(t) <= Len(s) /\ \A i \in 1 .. Len(t) : t[i] = s[1 + i]
  BY <1>1
<1>4. Width(t) = SumFunctionOnSet(f, 1 + 1 .. 1 + Len(t)) /\ Width(t) \in Nat
  BY <1>1, <1>3, WidthOfPart
<1>5. 1 .. n = (2 .. n) \cup {1} /\ 1 \notin 2 .. n /\ 1 + 1 .. 1 + Len(t) = 2 .. n
  BY <1>1
<1>6. \A i \in 1 .. n : f[i] \in Int
  <2> SUFFICES ASSUME NEW i \in 1 .. n PROVE f[i] \in Nat
    OBVIOUS
  <2>1. QED
    BY FieldWidth
<1>7. IsFiniteSet(2 .. n)
  <2>1. \A x, y \in Int : IsFiniteSet(x .. y)
    BY FS_Interval
  <2>2. QED
    BY <1>1, <2>1
<1>8. f[1] = s[1].w /\ s[1].w \in Nat
  <2>1. 1 \in 1 .. Len(s)
    BY <1>1
  <2>2. QED
    BY <2>1, FieldWidth
<1> DEFINE D == 2 .. n
<1>9. IsFiniteSet(D) /\ 1 \notin D /\ \A i \in D \cup {1} : f[i] \in Int
  BY <1>5, <1>6, <1>7
<1>10. Width(s) = SumFunctionOnSet(f, 1 .. n)
  BY DEF Width
<1> HIDE DEF D, f, t, n
<1>11. SumFunctionOnSet(f, D \cup {1}) = f[1] + SumFunctionOnSet(f, D)
  BY <1>9, SumAdd
<1>12. Width(t) = SumFunctionOnSet(f, D)
  BY <1>4, <1>5 DEF D
<1>13. Width(s) = SumFunctionOnSet(f, D \cup {1})
  BY <1>5, <1>10 DEF D
<1>14. QED
  BY <1>1, <1>4, <1>8, <1>11, <1>12, <1>13 DEF t

\* Its last fields have no more bytes than all of them.
LEMMA WidthOfLast ==
  ASSUME NEW s \in Seq(HeaderField), NEW t \in Seq(HeaderField), Len(t) <= Len(s),
         \A i \in 1 .. Len(t) : t[i] = s[Len(s) - Len(t) + i]
  PROVE  Width(t) <= Width(s)
<1> DEFINE f == [i \in 1 .. Len(s) |-> s[i].w]
           o == Len(s) - Len(t)
           P == o + 1 .. o + Len(t)
           W == 1 .. Len(s)
<1>1. o \in Nat /\ o + Len(t) <= Len(s) /\ P \in SUBSET W /\ Len(s) \in Nat
  OBVIOUS
<1>2. \A i \in W : f[i] \in Nat
  BY FieldWidth
<1>3. IsFiniteSet(W)
  <2>1. \A x, y \in Int : IsFiniteSet(x .. y)
    BY FS_Interval
  <2>2. QED
    BY <1>1, <2>1
<1>4. Width(t) = SumFunctionOnSet(f, P)
  BY <1>1, WidthOfPart
<1>5. Width(s) = SumFunctionOnSet(f, W)
  BY DEF Width
<1> HIDE DEF P, W, f
<1>6. SumFunctionOnSet(f, P) <= SumFunctionOnSet(f, W)
  BY <1>1, <1>2, <1>3, SumPart
<1>7. QED
  BY <1>4, <1>5, <1>6

LEMMA FieldType == ASSUME NEW n \in Nat PROVE Field(n) \in Seq(HeaderField)
<1>1. [w |-> n, err |-> ""] \in HeaderField
  BY DEF HeaderField
<1>2. \A x \in HeaderField : <<x>> \in Seq(HeaderField)
  OBVIOUS
<1>3. <<[w |-> n, err |-> ""]>> \in Seq(HeaderField)
  BY <1>1, <1>2
<1>4. QED
  BY <1>3 DEF Field

LEMMA FaultType == ASSUME NEW bad, NEW e \in HeaderFaults PROVE Fault(bad, e) \in Seq(HeaderField)
<1>1. [w |-> 0, err |-> e] \in HeaderField
  BY DEF HeaderField
<1>2. <<[w |-> 0, err |-> e]>> \in Seq(HeaderField) /\ <<>> \in Seq(HeaderField)
  BY <1>1
<1>3. QED
  BY <1>2 DEF Fault

LEMMA ConcatType ==
  ASSUME NEW S, NEW s \in Seq(S), NEW t \in Seq(S) PROVE s \o t \in Seq(S)
  BY ConcatProperties

LEMMA StringFieldsType == ASSUME NEW valid PROVE StringFields(valid) \in Seq(HeaderField)
<1>1. Field(8) \in Seq(HeaderField) /\ Field(NameBytes) \in Seq(HeaderField)
  BY FieldType DEF NameBytes
<1>2. "Utf8" \in HeaderFaults
  BY DEF HeaderFaults
<1>3. Fault(~valid, "Utf8") \in Seq(HeaderField)
  BY <1>2, FaultType
<1>4. Field(8) \o Field(NameBytes) \in Seq(HeaderField)
  BY <1>1, ConcatType
<1>5. QED
  BY <1>3, <1>4, ConcatType DEF StringFields

LEMMA PreambleType == ASSUME NEW f PROVE Preamble(f) \in Seq(HeaderField)
<1> DEFINE bad == f.magic # "GGUF"
           old == f.version # 3
<1>1. Field(4) \in Seq(HeaderField) /\ Field(8) \in Seq(HeaderField)
  BY FieldType
<1>2. "BadMagic" \in HeaderFaults /\ "BadVersion" \in HeaderFaults
  BY DEF HeaderFaults
<1>3. Fault(bad, "BadMagic") \in Seq(HeaderField) /\ Fault(old, "BadVersion") \in Seq(HeaderField)
  BY <1>2, FaultType
<1>4. Preamble(f) = Field(4) \o Fault(bad, "BadMagic") \o Field(4) \o Fault(old, "BadVersion") \o Field(8) \o Field(8)
  BY DEF Preamble
<1> DEFINE a == Field(4) \o Fault(bad, "BadMagic")
           b == a \o Field(4)
           c == b \o Fault(old, "BadVersion")
           d == c \o Field(8)
<1>5. a \in Seq(HeaderField)
  BY <1>1, <1>3, ConcatType
<1>6. b \in Seq(HeaderField)
  <2> HIDE DEF a
  <2>1. QED
    BY <1>1, <1>5, ConcatType
<1>7. c \in Seq(HeaderField)
  <2> HIDE DEF b
  <2>1. QED
    BY <1>3, <1>6, ConcatType
<1>8. d \in Seq(HeaderField)
  <2> HIDE DEF c
  <2>1. QED
    BY <1>1, <1>7, ConcatType
<1>9. Preamble(f) = d \o Field(8)
  BY <1>4
<1>10. QED
  <2> HIDE DEF d
  <2>1. QED
    BY <1>1, <1>8, <1>9, ConcatType

\* Flattening a list of lists of fields.
LEMMA FlattenFields ==
  ASSUME NEW n \in Nat, NEW m, DOMAIN m = 1 .. n, m = [i \in 1 .. n |-> m[i]],
         \A i \in 1 .. n : m[i] \in Seq(HeaderField)
  PROVE  FlattenSeq(m) \in Seq(HeaderField)
<1>1. m \in Seq(Seq(HeaderField))
  BY IsASeq
<1>2. QED
  BY <1>1, FlattenType

LEMMA KvFieldsType == ASSUME NEW f, IsFile(f) PROVE KvFields(f) \in Seq(HeaderField)
<1> DEFINE bad(i) == \E j \in 1 .. i - 1 : f.kv[j].key = f.kv[i].key
           one(i) == StringFields(TRUE) \o Field(4) \o ValueFields(f.kv[i]) \o Fault(bad(i), "DuplicateKey")
           m == [i \in 1 .. Len(f.kv) |-> one(i)]
<1>1. /\ Len(f.kv) \in Nat /\ DOMAIN f.kv = 1 .. Len(f.kv)
      /\ \A i \in 1 .. Len(f.kv) : ValueFields(f.kv[i]) \in Seq(HeaderField)
  BY DEF IsFile
<1>2. ASSUME NEW i \in 1 .. Len(f.kv) PROVE one(i) \in Seq(HeaderField)
  <2> DEFINE a == StringFields(TRUE) \o Field(4)
             v == ValueFields(f.kv[i])
             d == Fault(bad(i), "DuplicateKey")
  <2>1. a \in Seq(HeaderField)
    BY StringFieldsType, FieldType, ConcatType
  <2>2. "DuplicateKey" \in HeaderFaults
    BY DEF HeaderFaults
  <2>3. d \in Seq(HeaderField) /\ v \in Seq(HeaderField)
    <3> HIDE DEF bad
    <3>1. QED
      BY <1>1, <2>2, FaultType
  <2>4. one(i) = (a \o v) \o d
    OBVIOUS
  <2> HIDE DEF a, v, d, one
  <2>5. a \o v \in Seq(HeaderField)
    BY <2>1, <2>3, ConcatType
  <2>6. QED
    BY <2>3, <2>4, <2>5, ConcatType
<1>3. KvFields(f) = FlattenSeq(m)
  BY <1>1 DEF KvFields
<1> HIDE DEF one
<1>4. DOMAIN m = 1 .. Len(f.kv) /\ m = [i \in 1 .. Len(f.kv) |-> m[i]] /\ \A i \in 1 .. Len(f.kv) : m[i] \in Seq(HeaderField)
  BY <1>2
<1> HIDE DEF m
<1>5. QED
  BY <1>1, <1>3, <1>4, FlattenFields

LEMMA InfoFieldsType == ASSUME NEW f, IsFile(f) PROVE InfoFields(f) \in Seq(HeaderField)
<1> DEFINE valid(i) == f.infos[i].name # BadName
           dims(i) == FlattenSeq([d \in DOMAIN f.infos[i].shape |-> Field(8)])
           deep(i) == Len(f.infos[i].shape) > 4
           one(i) == StringFields(valid(i)) \o Field(4) \o Fault(deep(i), "TooManyDims") \o dims(i) \o Field(4) \o Field(8)
           m == [i \in 1 .. Len(f.infos) |-> one(i)]
<1>1. /\ Len(f.infos) \in Nat /\ DOMAIN f.infos = 1 .. Len(f.infos)
      /\ \A i \in 1 .. Len(f.infos) : f.infos[i] \in TensorInfos
  BY ElementOfSeq DEF IsFile
<1>2. Field(4) \in Seq(HeaderField) /\ Field(8) \in Seq(HeaderField)
  BY FieldType
<1>3. ASSUME NEW i \in 1 .. Len(f.infos) PROVE one(i) \in Seq(HeaderField)
  <2> DEFINE a == StringFields(valid(i))
             b == Fault(deep(i), "TooManyDims")
             e == dims(i)
             g == [d \in DOMAIN f.infos[i].shape |-> Field(8)]
  <2>1. f.infos[i].shape \in Seq(Nat)
    BY <1>1 DEF TensorInfos
  <2>2. Len(f.infos[i].shape) \in Nat /\ DOMAIN f.infos[i].shape = 1 .. Len(f.infos[i].shape)
    BY <2>1
  <2>3. /\ DOMAIN g = 1 .. Len(f.infos[i].shape) /\ g = [d \in 1 .. Len(f.infos[i].shape) |-> g[d]]
        /\ \A d \in 1 .. Len(f.infos[i].shape) : g[d] \in Seq(HeaderField)
    BY <1>2, <2>2
  <2>4. e = FlattenSeq(g)
    OBVIOUS
  <2>5. e \in Seq(HeaderField)
    <3> HIDE DEF e, g
    <3>1. QED
      BY <2>2, <2>3, <2>4, FlattenFields
  <2>6. a \in Seq(HeaderField)
    <3> HIDE DEF valid
    <3>1. QED
      BY StringFieldsType
  <2>7. "TooManyDims" \in HeaderFaults
    BY DEF HeaderFaults
  <2>8. b \in Seq(HeaderField)
    <3> HIDE DEF deep
    <3>1. QED
      BY <2>7, FaultType
  <2>9. one(i) = ((((a \o Field(4)) \o b) \o e) \o Field(4)) \o Field(8)
    OBVIOUS
  <2> HIDE DEF a, b, e, one
  <2>10. a \o Field(4) \in Seq(HeaderField)
    BY <1>2, <2>6, ConcatType
  <2>11. (a \o Field(4)) \o b \in Seq(HeaderField)
    BY <2>8, <2>10, ConcatType
  <2>12. ((a \o Field(4)) \o b) \o e \in Seq(HeaderField)
    BY <2>5, <2>11, ConcatType
  <2>13. (((a \o Field(4)) \o b) \o e) \o Field(4) \in Seq(HeaderField)
    BY <1>2, <2>12, ConcatType
  <2>14. QED
    BY <1>2, <2>9, <2>13, ConcatType
<1>4. InfoFields(f) = FlattenSeq(m)
  BY <1>1 DEF InfoFields
<1> HIDE DEF one
<1>5. DOMAIN m = 1 .. Len(f.infos) /\ m = [i \in 1 .. Len(f.infos) |-> m[i]] /\ \A i \in 1 .. Len(f.infos) : m[i] \in Seq(HeaderField)
  BY <1>3
<1> HIDE DEF m
<1>6. QED
  BY <1>1, <1>4, <1>5, FlattenFields

\* FirstError is the error of one of the checks, or all of them pass.
LEMMA FirstErrorFacts ==
  ASSUME NEW n \in Nat, NEW errs, DOMAIN errs = 1 .. n
  PROVE  /\ FirstError(errs) = "" => \A i \in 1 .. n : errs[i] = ""
         /\ FirstError(errs) = "" \/ \E i \in 1 .. n : FirstError(errs) = errs[i]
<1> DEFINE bad == {i \in DOMAIN errs : errs[i] # ""}
<1>1. FirstError(errs) = IF bad = {} THEN "" ELSE errs[Min(bad)]
  BY DEF FirstError
<1>2. bad = {} => \A i \in 1 .. n : errs[i] = ""
  OBVIOUS
<1>3. ASSUME bad # {} PROVE Min(bad) \in bad
  <2>1. \A i \in bad : i \in Nat
    <3>1. \A i \in bad : i \in DOMAIN errs
      OBVIOUS
    <3>2. \A i \in DOMAIN errs : i \in Nat
      <4>1. \A i \in 1 .. n : i \in Nat
        OBVIOUS
      <4>2. QED
        BY <4>1
    <3> HIDE DEF bad
    <3>3. QED
      BY <3>1, <3>2
  <2> HIDE DEF bad
  <2>2. PICK m \in bad : \A j \in bad : m <= j
    <3>1. bad \in SUBSET Nat
      BY <2>1
    <3>2. QED
      BY <1>3, <3>1, LeastNatural
  <2>3. QED
    BY <2>1, <2>2 DEF Min
<1>4. bad # {} => Min(bad) \in 1 .. n /\ errs[Min(bad)] # ""
  BY <1>3
<1>5. QED
  BY <1>1, <1>2, <1>4

-----------------------------------------------------------------------------
(* The header: how far it has been read.                                   *)

OpenFaults == {"UnknownGgmlType", "BadElementCount", "OutOfFile", "DuplicateTensor", "WrongType", "BadAlignment"}

Stages == {"header", "index", "opened", "Truncated"} \cup HeaderFaults \cup OpenFaults

ReaderType ==
  /\ IsFile(file) /\ stage \in Stages /\ ahead \in Seq(HeaderField) /\ header.end \in Nat
  /\ header.infoFields = Len(InfoFields(file)) /\ header.infoBytes = Width(InfoFields(file))
  /\ reader \in [buf : Seq(Nat), start : Nat, read : Nat, consumed : Nat, want : Nat, got : Nat]
  /\ stage \in {"index", "opened"} => ahead = <<>>

\* What has been parsed and what is ahead make up the header.
WidthLeft == reader.consumed + Width(ahead) = header.end

\* The tensor infos are the last fields ahead, until the first of them is parsed.
InfosLast ==
  Len(ahead) >= header.infoFields =>
    \A i \in 1 .. header.infoFields : InfoFields(file)[i] = ahead[Len(ahead) - header.infoFields + i]

\* The buffer holds what has been read and not parsed.
BytesInOrder ==
  /\ reader.start <= Len(reader.buf) /\ reader.read = reader.consumed + Available
  /\ \A i \in 1 .. Available : reader.buf[reader.start + i] = reader.consumed + i - 1

\* A refill is for a field that is not yet held, and asks what it may.
Asked ==
  /\ reader.want = 0 => reader.got = 0
  /\ reader.want > 0 =>
       /\ reader.start = 0 /\ ahead # <<>> /\ Len(reader.buf) < ThisField.w
       /\ reader.want = Ask(ThisField.w, ThisField.w - Len(reader.buf))
       /\ reader.got < ThisField.w - Len(reader.buf)

NothingBehind == header.infoBytes >= HeaderChunk => reader.read <= header.end

\* The index of an opened file is that of its infos, all of which passed the checks.
Indexed ==
  /\ stage # "opened" => index = {}
  /\ stage = "opened" =>
       /\ index = {TensorOf(i) : i \in DOMAIN file.infos}
       /\ AlignmentError(file) = "" /\ \A i \in DOMAIN file.infos : TensorError(i) = ""

HeaderInv == ReaderType /\ WidthLeft /\ InfosLast /\ BytesInOrder /\ Asked /\ NothingBehind /\ Indexed

-----------------------------------------------------------------------------
LEMMA HeaderInvInit == GgufInit => HeaderInv
<1> SUFFICES ASSUME NEW n \in DOMAIN Files, OpeningOf(Files[n], n \in ShortReads) PROVE HeaderInv
  BY DEF GgufInit
<1> DEFINE f == Files[n]
           p == Preamble(f) \o KvFields(f)
           q == InfoFields(f)
<1>1. IsFile(f)
  BY GgufAssumption
<1>2. /\ file.size = f.size /\ file.kv = f.kv /\ file.infos = f.infos
      /\ stage = "header" /\ ahead = p \o q /\ index = {}
      /\ header.end = WidthOf(p \o q) /\ header.infoFields = Len(q) /\ header.infoBytes = WidthOf(q)
      /\ reader = [buf |-> <<>>, start |-> 0, read |-> 0, consumed |-> 0, want |-> 0, got |-> 0]
  BY DEF OpeningOf, Opening
<1>3. IsFile(file)
  BY <1>1, <1>2 DEF IsFile
<1>4. InfoFields(file) = q
  BY <1>2 DEF InfoFields
<1>5. p \in Seq(HeaderField)
  <2>1. Preamble(f) \in Seq(HeaderField) /\ KvFields(f) \in Seq(HeaderField)
    BY <1>1, PreambleType, KvFieldsType
  <2>2. QED
    BY <2>1, ConcatType
<1>6. q \in Seq(HeaderField)
  BY <1>1, InfoFieldsType
<1> HIDE DEF f, p, q
<1>7. p \o q \in Seq(HeaderField)
  BY <1>5, <1>6, ConcatType
<1>8. header.end = Width(ahead) /\ header.infoBytes = Width(q) /\ Width(ahead) \in Nat
  BY <1>2, <1>6, <1>7, WidthIsSum, WidthNat
<1>9. <<>> \in Seq(Nat) /\ Len(<<>>) = 0 /\ Available = 0
  BY <1>2 DEF Available
<1>10. ReaderType
  BY <1>2, <1>3, <1>4, <1>7, <1>8, <1>9 DEF ReaderType, Stages
<1>11. WidthLeft
  BY <1>2, <1>8 DEF WidthLeft
<1>12. InfosLast
  <2>1. /\ Len(p \o q) = Len(p) + Len(q) /\ Len(p) \in Nat /\ Len(q) \in Nat
        /\ \A i \in 1 .. Len(q) : (p \o q)[Len(p) + i] = q[i]
    BY <1>5, <1>6, Concatenated
  <2>2. Len(ahead) - header.infoFields = Len(p)
    BY <1>2, <2>1
  <2>3. QED
    BY <1>2, <1>4, <2>1, <2>2 DEF InfosLast
<1>13. BytesInOrder
  BY <1>2, <1>9 DEF BytesInOrder
<1>14. Asked /\ Indexed
  BY <1>2 DEF Asked, Indexed
<1>15. NothingBehind
  BY <1>2, <1>8 DEF NothingBehind
<1>16. QED
  BY <1>10, <1>11, <1>12, <1>13, <1>14, <1>15 DEF HeaderInv

\* The field at the head of what is ahead.
LEMMA ThisFieldFacts ==
  ASSUME ReaderType, ahead # <<>>
  PROVE  /\ ThisField \in HeaderField /\ ThisField.w \in Nat /\ ThisField.err \in HeaderFaults \cup {""}
         /\ Width(ahead) = ThisField.w + Width(Tail(ahead)) /\ Width(Tail(ahead)) \in Nat
         /\ Tail(ahead) \in Seq(HeaderField) /\ Len(Tail(ahead)) = Len(ahead) - 1 /\ Len(ahead) \in Nat \ {0}
         /\ \A i \in 1 .. Len(Tail(ahead)) : Tail(ahead)[i] = ahead[i + 1]
<1>1. ahead \in Seq(HeaderField)
  BY DEF ReaderType
<1>2. /\ Tail(ahead) \in Seq(HeaderField) /\ Len(Tail(ahead)) = Len(ahead) - 1 /\ Len(ahead) \in Nat \ {0}
      /\ \A i \in 1 .. Len(Tail(ahead)) : Tail(ahead)[i] = ahead[i + 1]
      /\ Head(ahead) \in HeaderField
  BY <1>1, HeadTailProperties, EmptySeq
<1>3. Width(ahead) = Head(ahead).w + Width(Tail(ahead)) /\ Width(Tail(ahead)) \in Nat
  BY <1>1, WidthTail
<1>4. QED
  BY <1>2, <1>3 DEF ThisField, HeaderField

\* The infos are still behind a field of the metadata section.
LEMMA InfosBehind ==
  ASSUME ReaderType, InfosLast, ahead # <<>>, ~Exact
  PROVE  header.infoBytes <= Width(Tail(ahead))
<1> DEFINE t == Tail(ahead)
           q == InfoFields(file)
<1>1. /\ t \in Seq(HeaderField) /\ Len(t) = Len(ahead) - 1 /\ Len(ahead) \in Nat \ {0}
      /\ \A i \in 1 .. Len(t) : t[i] = ahead[i + 1]
  BY ThisFieldFacts
<1>2. q \in Seq(HeaderField) /\ header.infoFields = Len(q) /\ header.infoBytes = Width(q)
  BY InfoFieldsType DEF ReaderType
<1>3. Len(q) \in Nat
  BY <1>2
<1>4. Len(ahead) > Len(q)
  BY <1>1, <1>2, <1>3 DEF Exact
<1>5. \A i \in 1 .. Len(q) : q[i] = ahead[Len(ahead) - Len(q) + i]
  BY <1>1, <1>2, <1>3, <1>4 DEF InfosLast
<1> HIDE DEF q, t
<1>6. Len(q) <= Len(t)
  BY <1>1, <1>3, <1>4
<1>7. ASSUME NEW i \in 1 .. Len(q) PROVE q[i] = t[Len(t) - Len(q) + i]
  <2>1. Len(t) - Len(q) + i \in 1 .. Len(t) /\ (Len(t) - Len(q) + i) + 1 = Len(ahead) - Len(q) + i
    BY <1>1, <1>3, <1>6
  <2>2. t[Len(t) - Len(q) + i] = ahead[Len(ahead) - Len(q) + i]
    BY <1>1, <2>1
  <2>3. QED
    BY <1>5, <2>2
<1>8. Width(q) <= Width(t)
  BY <1>1, <1>2, <1>6, <1>7, WidthOfLast
<1>9. QED
  BY <1>2, <1>8 DEF t

LEMMA AskFacts ==
  ASSUME NEW w, NEW need \in Nat \ {0}
  PROVE  /\ Ask(w, need) \in Nat /\ Ask(w, need) >= need
         /\ Ask(w, need) = need \/ (~Exact /\ Ask(w, need) = HeaderChunk)
<1>1. HeaderChunk \in Int
  BY GgufAssumption
<1>2. Max({need, HeaderChunk}) = IF need >= HeaderChunk THEN need ELSE HeaderChunk
  BY <1>1, MaxOfTwo
<1>3. QED
  BY <1>2, GgufAssumption DEF Ask

\* What a step that reads the header leaves of the file.
LEMMA FileStays ==
  ASSUME file' = file, header' = header
  PROVE  /\ IsFile(file) => IsFile(file)' /\ InfoFields(file)' = InfoFields(file)
         /\ header'.end = header.end /\ header'.infoFields = header.infoFields /\ header'.infoBytes = header.infoBytes
<1>1. IsFile(file) => IsFile(file)'
  BY DEF IsFile
<1>2. InfoFields(file)' = InfoFields(file)
  BY DEF InfoFields
<1>3. QED
  BY <1>1, <1>2

LEMMA WidthStays == ASSUME ahead' = ahead PROVE Width(ahead)' = Width(ahead)
  BY DEF Width

LEMMA ReaderNumbers ==
  ASSUME ReaderType
  PROVE  /\ reader.start \in Nat /\ reader.read \in Nat /\ reader.consumed \in Nat
         /\ reader.want \in Nat /\ reader.got \in Nat
         /\ reader.buf \in Seq(Nat) /\ Len(reader.buf) \in Nat
         /\ reader = [buf |-> reader.buf, start |-> reader.start, read |-> reader.read,
                      consumed |-> reader.consumed, want |-> reader.want, got |-> reader.got]
  BY DEF ReaderType

LEMMA StartRefillStep == HeaderInv /\ StartRefill => HeaderInv'
<1> SUFFICES ASSUME HeaderInv, StartRefill PROVE HeaderInv'
  OBVIOUS
<1> USE DEF HeaderInv
<1> DEFINE b == reader.buf
           c == SubSeq(b, reader.start + 1, Len(b))
           need == ThisField.w - Len(c)
<1>1. /\ file' = file /\ header' = header /\ stage' = stage /\ ahead' = ahead /\ index' = index
      /\ ahead # <<>> /\ stage = "header" /\ reader.want = 0 /\ Available < ThisField.w
  BY DEF StartRefill, Parsing
<1>2. reader \in [buf : Seq(Nat), start : Nat, read : Nat, consumed : Nat, want : Nat, got : Nat]
  BY DEF ReaderType
<1>3. /\ reader'.buf = c /\ reader'.start = 0 /\ reader'.read = reader.read /\ reader'.consumed = reader.consumed
      /\ reader'.got = reader.got /\ reader'.want = Ask(ThisField.w, need)
      /\ DOMAIN reader' = DOMAIN reader
      /\ reader' = [buf |-> c, start |-> 0, read |-> reader.read, consumed |-> reader.consumed,
                    want |-> Ask(ThisField.w, need), got |-> reader.got]
  BY <1>2 DEF StartRefill, Compacted
<1>4. /\ b \in Seq(Nat) /\ reader.start \in Nat /\ Len(b) \in Nat /\ reader.start <= Len(b)
      /\ reader.got = 0 /\ Available = Len(b) - reader.start
  BY <1>1, <1>2 DEF BytesInOrder, Asked, Available
<1>5. /\ c \in Seq(Nat) /\ Len(c) = Len(b) - reader.start
      /\ \A i \in 1 .. Len(c) : c[i] = b[reader.start + i]
  <2> HIDE DEF b
  <2>1. \A i \in 1 .. Len(b) : b[i] \in Nat
    BY <1>4, ElementOfSeq
  <2>2. reader.start + 1 \in Int /\ Len(b) \in Int /\ \A i \in reader.start + 1 .. Len(b) : b[i] \in Nat
    BY <1>4, <2>1
  <2> DEFINE m == reader.start + 1
             n == Len(b)
  <2>3. m \in Int /\ n \in Int /\ \A i \in m .. n : b[i] \in Nat
    BY <2>2
  <2>4. /\ SubSeq(b, m, n) \in Seq(Nat)
        /\ Len(SubSeq(b, m, n)) = IF m <= n THEN n - m + 1 ELSE 0
        /\ \A i \in 1 .. n - m + 1 : SubSeq(b, m, n)[i] = b[m + i - 1]
    <3> HIDE DEF m, n
    <3>1. QED
      BY <2>3, SubSeqProperties
  <2>5. c = SubSeq(b, m, n) /\ n - m + 1 = Len(b) - reader.start
    BY <1>4
  <2>6. \A i \in 1 .. Len(b) - reader.start : m + i - 1 = reader.start + i
    BY <1>4
  <2> HIDE DEF c
  <2>7. Len(c) = Len(b) - reader.start
    BY <1>4, <2>4, <2>5
  <2>8. \A i \in 1 .. Len(c) : c[i] = b[reader.start + i]
    BY <2>4, <2>5, <2>6, <2>7
  <2>9. QED
    BY <2>4, <2>5, <2>7, <2>8
<1>6. ThisField.w \in Nat
  BY <1>1, ThisFieldFacts
<1>7. need \in Nat \ {0} /\ Len(c) < ThisField.w
  BY <1>1, <1>4, <1>5, <1>6
<1>8. Ask(ThisField.w, need) \in Nat /\ Ask(ThisField.w, need) > 0
  <2> HIDE DEF need
  <2>1. Ask(ThisField.w, need) \in Nat /\ Ask(ThisField.w, need) >= need
    BY <1>7, AskFacts
  <2>2. QED
    BY <1>7, <2>1
<1> HIDE DEF c, b
<1>9. ReaderType'
  <2>1. reader' \in [buf : Seq(Nat), start : Nat, read : Nat, consumed : Nat, want : Nat, got : Nat]
    BY <1>2, <1>3, <1>5, <1>8
  <2>2. QED
    BY <1>1, <2>1, FileStays DEF ReaderType, Stages, Width
<1>10. WidthLeft'
  BY <1>1, <1>3, WidthStays DEF WidthLeft
<1>11. InfosLast'
  BY <1>1, FileStays DEF InfosLast
<1>12. BytesInOrder'
  <2>1. Available' = Available
    BY <1>3, <1>4, <1>5 DEF Available
  <2>2. \A i \in 1 .. Available : reader'.buf[reader'.start + i] = reader'.consumed + i - 1
    <3> SUFFICES ASSUME NEW i \in 1 .. Available PROVE reader'.buf[0 + i] = reader.consumed + i - 1
      BY <1>3
    <3>1. i \in 1 .. Len(c) /\ 0 + i = i
      BY <1>4, <1>5
    <3>2. c[i] = reader.buf[reader.start + i]
      BY <1>5, <3>1 DEF b
    <3>3. QED
      BY <1>3, <3>1, <3>2 DEF BytesInOrder
  <2>3. reader'.start <= Len(reader'.buf) /\ reader'.read = reader'.consumed + Available
    BY <1>3, <1>5 DEF BytesInOrder
  <2>4. QED
    BY <2>1, <2>2, <2>3 DEF BytesInOrder
<1>13. Asked'
  <2>1. Len(reader'.buf) = Len(c)
    BY <1>3
  <2>2. reader'.want = IF Len(ahead) <= header.infoFields THEN Head(ahead).w - Len(reader'.buf)
                       ELSE Max({Head(ahead).w - Len(reader'.buf), HeaderChunk})
    BY <1>3, <2>1 DEF Ask, Exact, ThisField
  <2>3. Len(reader'.buf) < Head(ahead).w /\ 0 < Head(ahead).w - Len(reader'.buf)
    BY <1>5, <1>6, <1>7, <2>1 DEF ThisField
  <2>4. reader'.start = 0 /\ reader'.got = 0 /\ ahead' # <<>>
    BY <1>1, <1>3, <1>4
  <2>5. QED
    BY <1>1, <2>2, <2>3, <2>4 DEF Asked, Ask, Exact, ThisField
<1>14. NothingBehind' /\ Indexed'
  BY <1>1, <1>3 DEF NothingBehind, Indexed
<1>15. QED
  BY <1>9, <1>10, <1>11, <1>12, <1>13, <1>14

LEMMA OsReadStep == HeaderInv /\ OsRead => HeaderInv'
<1> SUFFICES ASSUME HeaderInv, OsRead PROVE HeaderInv'
  OBVIOUS
<1> USE DEF HeaderInv
<1> DEFINE b == reader.buf
           w == ThisField.w
           need == w - Len(b)
           left == Min({reader.want - reader.got, file.size - (reader.read + reader.got)})
<1>1. /\ file' = file /\ header' = header /\ stage' = stage /\ ahead' = ahead /\ index' = index
      /\ ahead # <<>> /\ stage = "header" /\ reader.want > 0
  BY DEF OsRead, Parsing
<1>2. reader \in [buf : Seq(Nat), start : Nat, read : Nat, consumed : Nat, want : Nat, got : Nat]
  BY DEF ReaderType
<1>22. /\ reader.start \in Nat /\ reader.read \in Nat /\ reader.consumed \in Nat
       /\ reader.want \in Nat /\ reader.got \in Nat
       /\ reader = [buf |-> b, start |-> reader.start, read |-> reader.read,
                    consumed |-> reader.consumed, want |-> reader.want, got |-> reader.got]
  BY ReaderNumbers
<1>3. PICK n \in Nat \ {0} :
        /\ n <= left /\ left <= reader.want - reader.got
        /\ reader' = IF reader.got + n < need
                     THEN [reader EXCEPT !.got = reader.got + n]
                     ELSE [reader EXCEPT !.got = 0, !.want = 0, !.read = @ + (reader.got + n),
                             !.buf = @ \o [i \in 1 .. (reader.got + n) |-> reader.read + i - 1]]
  <2>1. file.size \in Nat
    BY DEF ReaderType, IsFile
  <2>2. reader.want - reader.got \in Int /\ file.size - (reader.read + reader.got) \in Int
    BY <1>2, <2>1
  <2>3. left \in Int /\ left <= reader.want - reader.got
    <3> DEFINE x == reader.want - reader.got
               y == file.size - (reader.read + reader.got)
    <3>1. x \in Int /\ y \in Int /\ left = Min({x, y})
      BY <2>2
    <3> HIDE DEF x, y, left
    <3>2. left = IF x <= y THEN x ELSE y
      BY <3>1, MinOfTwo
    <3>3. left \in Int /\ left <= x
      BY <3>1, <3>2
    <3>4. QED
      BY <3>3 DEF x
  <2>4. /\ left > 0
        /\ \E n \in (IF file.short THEN 1 .. left ELSE {left}) :
              reader' = IF reader.got + n < need
                     THEN [reader EXCEPT !.got = reader.got + n]
                     ELSE [reader EXCEPT !.got = 0, !.want = 0, !.read = @ + (reader.got + n),
                             !.buf = @ \o [i \in 1 .. (reader.got + n) |-> reader.read + i - 1]]
    BY DEF OsRead
  <2> HIDE DEF left, need, w, b
  <2>5. \A n \in (IF file.short THEN 1 .. left ELSE {left}) : n \in Nat \ {0} /\ n <= left
    BY <2>3, <2>4
  <2>6. QED
    BY <2>3, <2>4, <2>5
<1> DEFINE g == reader.got + n
           d == [i \in 1 .. g |-> reader.read + i - 1]
<1>4. /\ w \in Nat /\ b \in Seq(Nat) /\ Len(b) \in Nat /\ reader.start = 0 /\ Len(b) < w
      /\ reader.want = Ask(w, need) /\ reader.got < need /\ reader.read = reader.consumed + Len(b)
      /\ Available = Len(b) /\ need \in Nat \ {0} /\ left \in Int
  <2>1. w \in Nat
    BY <1>1, ThisFieldFacts
  <2>2. reader.start = 0 /\ Len(b) < w /\ reader.want = Ask(w, need) /\ reader.got < need
    BY <1>1 DEF Asked
  <2>3. b \in Seq(Nat) /\ Len(b) \in Nat
    BY <1>2
  <2>4. Available = Len(b) /\ reader.read = reader.consumed + Len(b)
    BY <2>2, <2>3 DEF Available, BytesInOrder
  <2>5. left \in Int
    <3>1. reader.want - reader.got \in Int /\ file.size - (reader.read + reader.got) \in Int
      BY <1>2 DEF ReaderType, IsFile
    <3> DEFINE x == reader.want - reader.got
               y == file.size - (reader.read + reader.got)
    <3>2. x \in Int /\ y \in Int /\ left = Min({x, y})
      BY <3>1
    <3> HIDE DEF x, y, left
    <3>3. left = IF x <= y THEN x ELSE y
      BY <3>2, MinOfTwo
    <3>4. QED
      BY <3>2, <3>3
  <2>6. QED
    BY <2>1, <2>2, <2>3, <2>4, <2>5
<1> HIDE DEF left
<1>5. g \in Nat \ {0} /\ g <= reader.want
  BY <1>2, <1>3, <1>4
<1>6. ASSUME g < need PROVE HeaderInv'
  <2>1. reader' = [reader EXCEPT !.got = g]
    BY <1>3, <1>6
  <2>2. /\ reader'.buf = b /\ reader'.start = reader.start /\ reader'.read = reader.read
        /\ reader'.consumed = reader.consumed /\ reader'.want = reader.want /\ reader'.got = g
        /\ reader' \in [buf : Seq(Nat), start : Nat, read : Nat, consumed : Nat, want : Nat, got : Nat]
    BY <1>2, <1>5, <2>1
  <2>3. ReaderType'
    BY <1>1, <2>2, FileStays DEF ReaderType, Stages, Width
  <2>4. WidthLeft'
    BY <1>1, <2>2, WidthStays DEF WidthLeft
  <2>5. InfosLast'
    BY <1>1, FileStays DEF InfosLast
  <2>6. BytesInOrder'
    BY <2>2 DEF BytesInOrder, Available
  <2>7. Asked'
    <3>1. reader'.want > 0 /\ reader'.start = 0 /\ ahead' # <<>>
      BY <1>1, <1>4, <2>2
    <3>2. /\ reader'.want = Ask(ThisField.w, ThisField.w - Len(reader'.buf))
          /\ Len(reader'.buf) < ThisField.w /\ reader'.got < ThisField.w - Len(reader'.buf)
      BY <1>4, <1>6, <2>2
    <3>3. QED
      BY <1>1, <3>1, <3>2 DEF Asked, Ask, Exact, ThisField
  <2>8. NothingBehind' /\ Indexed'
    BY <1>1, <2>2 DEF NothingBehind, Indexed
  <2>9. QED
    BY <2>3, <2>4, <2>5, <2>6, <2>7, <2>8
<1>7. ASSUME ~(g < need) PROVE HeaderInv'
  <2>1. reader' = [reader EXCEPT !.got = 0, !.want = 0, !.read = @ + g, !.buf = @ \o d]
    BY <1>3, <1>7
  <2>2. d \in Seq(Nat) /\ Len(d) = g /\ \A i \in 1 .. g : d[i] = reader.read + i - 1
    <3> HIDE DEF g
    <3>1. \A i \in 1 .. g : reader.read + i - 1 \in Nat
      BY <1>22, <1>5
    <3>2. d \in [1 .. g -> Nat]
      BY <3>1
    <3>3. d \in Seq(Nat) /\ Len(d) = g
      BY <1>5, <3>2
    <3>4. QED
      BY <3>3
  <2>3. /\ b \o d \in Seq(Nat) /\ Len(b \o d) = Len(b) + g
        /\ \A i \in 1 .. Len(b) : (b \o d)[i] = b[i]
        /\ \A i \in 1 .. g : (b \o d)[Len(b) + i] = d[i]
    <3> HIDE DEF d, b, g
    <3>1. QED
      BY <1>4, <2>2, Concatenated
  <2>44. reader' = [buf |-> b \o d, start |-> 0, read |-> reader.read + g,
                    consumed |-> reader.consumed, want |-> 0, got |-> 0]
    <3> DEFINE r == reader
               v == b \o d
    <3>1. r = [buf |-> b, start |-> r.start, read |-> r.read, consumed |-> r.consumed, want |-> r.want, got |-> r.got]
      BY <1>22
    <3>2. r.start = 0 /\ r.buf = b
      BY <1>4
    <3>3. reader' = [r EXCEPT !.got = 0, !.want = 0, !.read = r.read + g, !.buf = v]
      BY <2>1
    <3> HIDE DEF r, v, g, b
    <3>4. reader' = [buf |-> v, start |-> 0, read |-> r.read + g, consumed |-> r.consumed, want |-> 0, got |-> 0]
      BY <3>1, <3>2, <3>3
    <3>5. QED
      BY <3>4 DEF r, v
  <2>4. /\ reader'.buf = b \o d /\ reader'.start = 0 /\ reader'.read = reader.read + g
        /\ reader'.consumed = reader.consumed /\ reader'.want = 0 /\ reader'.got = 0
        /\ reader' \in [buf : Seq(Nat), start : Nat, read : Nat, consumed : Nat, want : Nat, got : Nat]
    <3> HIDE DEF d, g, b
    <3>1. reader.read + g \in Nat
      BY <1>22, <1>5
    <3>2. QED
      BY <1>22, <2>44, <2>3, <3>1
  <2> HIDE DEF d, b
  <2>5. ReaderType'
    BY <1>1, <2>4, FileStays DEF ReaderType, Stages, Width
  <2>6. WidthLeft'
    BY <1>1, <2>4, WidthStays DEF WidthLeft
  <2>7. InfosLast'
    BY <1>1, FileStays DEF InfosLast
  <2>8. BytesInOrder'
    <3>1. Available' = Len(b) + g
      BY <1>4, <1>5, <2>3, <2>4 DEF Available
    <3>2. ASSUME NEW i \in 1 .. Len(b) + g PROVE reader'.buf[reader'.start + i] = reader.consumed + i - 1
      <4>1. reader'.start + i = i
        BY <1>4, <1>5, <2>4
      <4>2. CASE i \in 1 .. Len(b)
        <5>1. b[i] = reader.consumed + i - 1
          <6>1. reader.buf[reader.start + i] = reader.consumed + i - 1
            BY <1>4, <4>2 DEF BytesInOrder
          <6>2. reader.start + i = i
            BY <1>4
          <6>3. QED
            BY <6>1, <6>2 DEF b
        <5>2. QED
          BY <2>3, <2>4, <4>1, <4>2, <5>1
      <4>3. CASE i \notin 1 .. Len(b)
        <5> DEFINE j == i - Len(b)
        <5>1. j \in 1 .. g /\ i = Len(b) + j
          BY <1>4, <1>5, <4>3
        <5>2. (b \o d)[i] = d[j]
          BY <2>3, <5>1
        <5>3. d[j] = reader.read + j - 1
          BY <2>2, <5>1
        <5>4. reader.read + j - 1 = reader.consumed + i - 1
          BY <1>2, <1>4, <5>1
        <5>5. QED
          BY <2>4, <4>1, <5>2, <5>3, <5>4
      <4>4. QED
        BY <4>2, <4>3
    <3>3. reader'.start <= Len(reader'.buf) /\ reader'.read = reader'.consumed + (Len(b) + g)
      <4> HIDE DEF g
      <4>1. Len(reader'.buf) = Len(b) + g /\ reader'.start = 0
        BY <2>3, <2>4
      <4>2. reader'.read = reader.read + g /\ reader'.consumed = reader.consumed
        BY <2>4
      <4>3. reader'.start <= Len(reader'.buf)
        BY <1>4, <1>5, <4>1
      <4>4. reader'.read = (reader.consumed + Len(b)) + g
        BY <1>4, <4>2
      <4>5. (reader.consumed + Len(b)) + g = reader'.consumed + (Len(b) + g)
        BY <1>22, <1>4, <1>5, <4>2
      <4>6. QED
        BY <4>3, <4>4, <4>5
    <3>4. QED
      BY <2>4, <3>1, <3>2, <3>3 DEF BytesInOrder
  <2>9. Asked' /\ Indexed'
    BY <1>1, <2>4 DEF Asked, Indexed
  <2>10. NothingBehind'
    <3> SUFFICES ASSUME header.infoBytes >= HeaderChunk PROVE reader'.read <= header.end
      BY <1>1 DEF NothingBehind
    <3>1. /\ header.end = reader.consumed + (w + Width(Tail(ahead))) /\ Width(Tail(ahead)) \in Nat
      BY <1>1, ThisFieldFacts DEF WidthLeft
    <3>2. reader'.read = reader.consumed + Len(b) + g /\ reader.consumed \in Nat
      BY <1>2, <1>4, <1>5, <2>4
    <3>3. reader.want = need \/ (~Exact /\ reader.want = HeaderChunk)
      <4> HIDE DEF need
      <4>1. Ask(w, need) = need \/ (~Exact /\ Ask(w, need) = HeaderChunk)
        BY <1>4, AskFacts
      <4>2. QED
        BY <1>4, <4>1
    <3>4. CASE reader.want = need
      BY <1>4, <1>5, <3>1, <3>2, <3>4
    <3>5. CASE ~Exact /\ reader.want = HeaderChunk
      <4>1. header.infoBytes <= Width(Tail(ahead))
        BY <1>1, <3>5, InfosBehind
      <4>2. header.infoBytes \in Nat /\ HeaderChunk \in Nat
        <5>1. InfoFields(file) \in Seq(HeaderField)
          BY InfoFieldsType DEF ReaderType
        <5>2. QED
          BY <5>1, WidthNat, GgufAssumption DEF ReaderType
      <4>3. g <= Width(Tail(ahead))
        BY <1>5, <3>1, <3>5, <4>1, <4>2
      <4>4. QED
        BY <1>4, <1>5, <3>1, <3>2, <4>3
    <3>6. QED
      BY <3>3, <3>4, <3>5
  <2>11. QED
    BY <2>5, <2>6, <2>7, <2>8, <2>9, <2>10
<1>8. QED
  BY <1>6, <1>7

LEMMA OsReadNothingStep == HeaderInv /\ OsReadNothing => HeaderInv'
<1> SUFFICES ASSUME HeaderInv, OsReadNothing PROVE HeaderInv'
  OBVIOUS
<1> USE DEF HeaderInv
<1>1. /\ file' = file /\ header' = header /\ stage' = "Truncated" /\ ahead' = ahead /\ index' = index
      /\ stage = "header" /\ reader' = reader
  BY DEF OsReadNothing, Parsing
<1>2. ReaderType'
  BY <1>1, FileStays DEF ReaderType, Stages, Width
<1>3. WidthLeft'
  BY <1>1, WidthStays DEF WidthLeft
<1>4. InfosLast'
  BY <1>1, FileStays DEF InfosLast
<1>5. BytesInOrder'
  BY <1>1 DEF BytesInOrder, Available
<1>6. Asked'
  BY <1>1 DEF Asked, Ask, Exact, ThisField
<1>7. NothingBehind' /\ Indexed'
  BY <1>1 DEF NothingBehind, Indexed
<1>8. QED
  BY <1>2, <1>3, <1>4, <1>5, <1>6, <1>7

LEMMA TakeStep == HeaderInv /\ Take => HeaderInv'
<1> SUFFICES ASSUME HeaderInv, Take PROVE HeaderInv'
  OBVIOUS
<1> USE DEF HeaderInv
<1> DEFINE w == ThisField.w
<1>1. /\ file' = file /\ header' = header /\ index' = index
      /\ ahead # <<>> /\ stage = "header" /\ reader.want = 0 /\ Available >= w
  BY DEF Take, Parsing
<1>2. reader \in [buf : Seq(Nat), start : Nat, read : Nat, consumed : Nat, want : Nat, got : Nat]
  BY DEF ReaderType
<1>22. /\ reader.start \in Nat /\ reader.read \in Nat /\ reader.consumed \in Nat
       /\ reader.want \in Nat /\ reader.got \in Nat
       /\ reader = [buf |-> reader.buf, start |-> reader.start, read |-> reader.read,
                    consumed |-> reader.consumed, want |-> reader.want, got |-> reader.got]
       /\ reader.buf \in Seq(Nat) /\ Len(reader.buf) \in Nat
  BY ReaderNumbers
<1>3. /\ w \in Nat /\ ThisField.err \in HeaderFaults \cup {""}
      /\ Width(ahead) = w + Width(Tail(ahead)) /\ Width(Tail(ahead)) \in Nat
      /\ Tail(ahead) \in Seq(HeaderField) /\ Len(Tail(ahead)) = Len(ahead) - 1 /\ Len(ahead) \in Nat \ {0}
      /\ \A i \in 1 .. Len(Tail(ahead)) : Tail(ahead)[i] = ahead[i + 1]
  BY <1>1, ThisFieldFacts
<1>4. ASSUME ThisField.err # "" PROVE HeaderInv'
  <2>1. stage' = ThisField.err /\ ahead' = ahead /\ reader' = reader
    BY <1>4 DEF Take
  <2>2. stage' \in HeaderFaults
    BY <1>3, <1>4, <2>1
  <2>3. stage' \notin {"index", "opened"}
    BY <2>2 DEF HeaderFaults
  <2>4. ReaderType'
    BY <1>1, <2>1, <2>2, <2>3, FileStays DEF ReaderType, Stages, Width
  <2>5. WidthLeft'
    BY <1>1, <2>1, WidthStays DEF WidthLeft
  <2>6. InfosLast'
    BY <1>1, <2>1, FileStays DEF InfosLast
  <2>7. BytesInOrder'
    BY <2>1 DEF BytesInOrder, Available
  <2>8. Asked'
    BY <1>1, <2>1 DEF Asked
  <2>9. NothingBehind' /\ Indexed'
    BY <1>1, <2>1, <2>3 DEF NothingBehind, Indexed
  <2>10. QED
    BY <2>4, <2>5, <2>6, <2>7, <2>8, <2>9
<1>5. ASSUME ThisField.err = "" PROVE HeaderInv'
  <2>1. /\ ahead' = Tail(ahead) /\ stage' = stage
        /\ reader' = [reader EXCEPT !.start = @ + w, !.consumed = @ + w]
    BY <1>5 DEF Take
  <2>2. /\ reader'.buf = reader.buf /\ reader'.start = reader.start + w /\ reader'.read = reader.read
        /\ reader'.consumed = reader.consumed + w /\ reader'.want = reader.want /\ reader'.got = reader.got
        /\ reader' \in [buf : Seq(Nat), start : Nat, read : Nat, consumed : Nat, want : Nat, got : Nat]
    <3> HIDE DEF w
    <3>1. reader' = [buf |-> reader.buf, start |-> reader.start + w, read |-> reader.read,
                     consumed |-> reader.consumed + w, want |-> reader.want, got |-> reader.got]
      BY <1>22, <2>1
    <3>2. reader.start + w \in Nat /\ reader.consumed + w \in Nat /\ w \in Nat
      <4>1. w \in Nat
        BY <1>3
      <4>2. QED
        BY <1>22, <4>1
    <3>3. QED
      BY <1>22, <3>1, <3>2
  <2> HIDE DEF w
  <2> DEFINE rest == Width(Tail(ahead))
  <2>20. w \in Nat /\ Width(ahead) = w + rest /\ rest \in Nat
    BY <1>3
  <2>21. Len(Tail(ahead)) = Len(ahead) - 1 /\ Len(ahead) \in Nat \ {0}
    BY <1>3
  <2> HIDE DEF rest
  <2>3. ReaderType'
    BY <1>1, <1>3, <2>1, <2>2, FileStays DEF ReaderType, Stages, Width
  <2>4. WidthLeft'
    <3>1. Width(ahead)' = Width(Tail(ahead))
      BY <2>1 DEF Width
    <3>2. reader'.consumed + Width(Tail(ahead)) = header.end
      <4>1. reader.consumed + (w + rest) = header.end
        BY <2>20 DEF WidthLeft
      <4>2. reader'.consumed = reader.consumed + w
        BY <2>2
      <4>3. reader'.consumed + rest = header.end
        BY <1>22, <2>20, <4>1, <4>2
      <4>4. QED
        BY <4>3 DEF rest
    <3>3. QED
      BY <1>1, <3>1, <3>2 DEF WidthLeft
  <2>5. InfosLast'
    <3> DEFINE q == InfoFields(file)
               t == Tail(ahead)
    <3>1. header.infoFields = Len(q) /\ Len(q) \in Nat
      BY InfoFieldsType DEF ReaderType
    <3> HIDE DEF q
    <3>2. ASSUME Len(t) >= Len(q), NEW i \in 1 .. Len(q) PROVE q[i] = t[Len(t) - Len(q) + i]
      <4>1. Len(t) - Len(q) + i \in 1 .. Len(t) /\ (Len(t) - Len(q) + i) + 1 = Len(ahead) - Len(q) + i
        BY <2>21, <3>1, <3>2
      <4>2. t[Len(t) - Len(q) + i] = ahead[Len(ahead) - Len(q) + i]
        BY <1>3, <4>1
      <4>3. Len(ahead) >= Len(q)
        BY <2>21, <3>1, <3>2
      <4>4. q[i] = ahead[Len(ahead) - Len(q) + i]
        BY <3>1, <4>3 DEF InfosLast, q
      <4>5. QED
        BY <4>2, <4>4
    <3>3. InfoFields(file)' = q /\ header'.infoFields = Len(q)
      BY <1>1, <3>1, FileStays DEF q, ReaderType
    <3>4. QED
      BY <2>1, <3>2, <3>3 DEF InfosLast
  <2>6. BytesInOrder'
    <3>0. /\ reader'.buf = reader.buf /\ reader'.start = reader.start + w /\ reader'.read = reader.read
          /\ reader'.consumed = reader.consumed + w
      BY <2>2
    <3>1. Available' = Available - w /\ Available = Len(reader.buf) - reader.start /\ Len(reader.buf) \in Nat
      BY <1>22, <2>20, <3>0 DEF Available
    <3>11. reader.start <= Len(reader.buf) /\ reader.read = reader.consumed + Available /\ Available >= w
      BY <1>1 DEF BytesInOrder, w
    <3>2. reader'.start <= Len(reader'.buf)
      BY <1>22, <2>20, <3>0, <3>1, <3>11
    <3>3. reader'.read = reader'.consumed + Available'
      BY <1>22, <2>20, <3>0, <3>1, <3>11
    <3>4. ASSUME NEW i \in 1 .. Available - w PROVE reader.buf[reader'.start + i] = reader'.consumed + i - 1
      <4>0. Available \in Int /\ w \in Nat /\ i \in 1 .. Available - w /\ i \in Int /\ reader.start \in Nat
        BY <1>22, <2>20, <3>1
      <4>1. w + i \in 1 .. Available /\ reader.start + (w + i) = reader'.start + i
        BY <3>0, <4>0
      <4>2. reader.buf[reader.start + (w + i)] = reader.consumed + (w + i) - 1
        BY <4>1 DEF BytesInOrder
      <4>3. reader.consumed + (w + i) - 1 = reader'.consumed + i - 1
        BY <1>22, <2>20, <3>0, <3>1
      <4>4. QED
        BY <4>1, <4>2, <4>3
    <3>5. QED
      BY <2>2, <3>1, <3>2, <3>3, <3>4 DEF BytesInOrder
  <2>7. Asked'
    BY <1>1, <2>2 DEF Asked
  <2>8. NothingBehind' /\ Indexed'
    BY <1>1, <2>1, <2>2 DEF NothingBehind, Indexed
  <2>9. QED
    BY <2>3, <2>4, <2>5, <2>6, <2>7, <2>8
<1>6. QED
  BY <1>4, <1>5

LEMMA HeaderReadStep == HeaderInv /\ HeaderRead => HeaderInv'
<1> SUFFICES ASSUME HeaderInv, HeaderRead PROVE HeaderInv'
  OBVIOUS
<1> USE DEF HeaderInv
<1>1. /\ file' = file /\ header' = header /\ stage' = "index" /\ ahead' = ahead /\ index' = index
      /\ stage = "header" /\ reader' = reader /\ ahead = <<>>
  BY DEF HeaderRead
<1>2. ReaderType'
  BY <1>1, FileStays DEF ReaderType, Stages, Width
<1>3. WidthLeft'
  BY <1>1, WidthStays DEF WidthLeft
<1>4. InfosLast'
  BY <1>1, FileStays DEF InfosLast
<1>5. BytesInOrder'
  BY <1>1 DEF BytesInOrder, Available
<1>6. Asked'
  BY <1>1 DEF Asked, Ask, Exact, ThisField
<1>7. NothingBehind' /\ Indexed'
  BY <1>1 DEF NothingBehind, Indexed
<1>8. QED
  BY <1>2, <1>3, <1>4, <1>5, <1>6, <1>7

\* What is derived from the file and the end of its header.
LEMMA TensorsStay ==
  ASSUME file' = file, header' = header
  PROVE  /\ DataOffset' = DataOffset /\ AlignmentError(file)' = AlignmentError(file)
         /\ \A i : TensorOf(i)' = TensorOf(i) /\ TensorError(i)' = TensorError(i)
<1>1. DataOffset' = DataOffset
  BY DEF DataOffset, Alignment, Has, Kv, HasType, AlignmentKey
<1>2. AlignmentError(file)' = AlignmentError(file)
  BY DEF AlignmentError, Alignment, Has, Kv, HasType, AlignmentKey
<1>3. \A i : TensorOf(i)' = TensorOf(i)
  BY <1>1 DEF TensorOf
<1>4. \A i : PastFile(TensorOf(i))' = PastFile(TensorOf(i))
  BY <1>3 DEF PastFile, TensorEnd
<1>5. \A i : TensorError(i)' = TensorError(i)
  BY <1>4 DEF TensorError
<1>6. QED
  BY <1>1, <1>2, <1>3, <1>5

LEMMA TensorErrorType == ASSUME NEW i PROVE TensorError(i) \in OpenFaults \cup {""}
  BY DEF TensorError, OpenFaults

LEMMA AlignmentErrorType == AlignmentError(file) \in OpenFaults \cup {""}
  BY DEF AlignmentError, OpenFaults

LEMMA BuildIndexStep == HeaderInv /\ BuildIndex => HeaderInv'
<1> SUFFICES ASSUME HeaderInv, BuildIndex PROVE HeaderInv'
  OBVIOUS
<1> USE DEF HeaderInv
<1> DEFINE n == Len(file.infos)
           errs == [i \in DOMAIN file.infos |-> TensorError(i)]
           e == IF AlignmentError(file) # "" THEN AlignmentError(file) ELSE FirstError(errs)
<1>1. /\ file' = file /\ header' = header /\ ahead' = ahead /\ reader' = reader /\ stage = "index"
      /\ IF e = "" THEN stage' = "opened" /\ index' = {TensorOf(i) : i \in DOMAIN file.infos}
         ELSE stage' = e /\ index' = index
  BY DEF BuildIndex
<1>2. n \in Nat /\ DOMAIN file.infos = 1 .. n /\ DOMAIN errs = 1 .. n
  BY DEF ReaderType, IsFile
<1>3. /\ FirstError(errs) = "" => \A i \in 1 .. n : errs[i] = ""
      /\ FirstError(errs) = "" \/ \E i \in 1 .. n : FirstError(errs) = errs[i]
  <2> HIDE DEF errs, n
  <2>1. QED
    BY <1>2, FirstErrorFacts
<1>4. \A i \in 1 .. n : errs[i] = TensorError(i)
  BY <1>2
<1>5. e \in OpenFaults \cup {""}
  <2>1. FirstError(errs) \in OpenFaults \cup {""}
    <3> HIDE DEF errs
    <3>1. QED
      BY <1>3, <1>4, TensorErrorType
  <2>2. QED
    BY <2>1, AlignmentErrorType
<1>6. e = "" => AlignmentError(file) = "" /\ \A i \in 1 .. n : TensorError(i) = ""
  <2> HIDE DEF errs
  <2>1. QED
    BY <1>3, <1>4
<1> HIDE DEF e, errs
<1>7. stage' \in OpenFaults \/ (stage' = "opened" /\ e = "")
  BY <1>1, <1>5
<1>8. stage' \in Stages /\ (stage' \in OpenFaults => stage' \notin {"index", "opened"})
  BY <1>7 DEF Stages, OpenFaults
<1>9. ahead = <<>>
  BY <1>1 DEF ReaderType
<1>10. ReaderType'
  BY <1>1, <1>8, <1>9, FileStays DEF ReaderType, Width
<1>11. WidthLeft'
  BY <1>1, WidthStays DEF WidthLeft
<1>12. InfosLast'
  BY <1>1, FileStays DEF InfosLast
<1>13. BytesInOrder'
  BY <1>1 DEF BytesInOrder, Available
<1>14. Asked'
  BY <1>1 DEF Asked, Ask, Exact, ThisField
<1>15. NothingBehind'
  BY <1>1 DEF NothingBehind
<1>16. Indexed'
  <2>1. CASE e = ""
    <3>1. \A i \in DOMAIN file.infos : TensorError(i)' = ""
      BY <1>1, <1>2, <1>6, <2>1, TensorsStay
    <3>2. AlignmentError(file)' = ""
      BY <1>1, <1>6, <2>1, TensorsStay
    <3>3. index' = {TensorOf(i)' : i \in DOMAIN file.infos}
      <4>1. index' = {TensorOf(i) : i \in DOMAIN file.infos}
        BY <1>1, <2>1
      <4>2. \A i : TensorOf(i)' = TensorOf(i)
        BY <1>1, TensorsStay
      <4>3. QED
        BY <4>1, <4>2
    <3>4. QED
      BY <1>1, <2>1, <3>1, <3>2, <3>3 DEF Indexed
  <2>2. CASE e # ""
    BY <1>1, <1>7, <1>8, <2>2 DEF Indexed
  <2>3. QED
    BY <2>1, <2>2
<1>17. QED
  BY <1>10, <1>11, <1>12, <1>13, <1>14, <1>15, <1>16

LEMMA OpenStep == HeaderInv /\ Open => HeaderInv'
  BY StartRefillStep, OsReadStep, OsReadNothingStep, TakeStep, HeaderReadStep, BuildIndexStep DEF Open

LEMMA OpenStays == HeaderInv /\ UNCHANGED ggufVars => HeaderInv'
<1> SUFFICES ASSUME HeaderInv, UNCHANGED ggufVars PROVE HeaderInv'
  OBVIOUS
<1> USE DEF HeaderInv, ggufVars
<1>1. ReaderType'
  BY FileStays DEF ReaderType, Stages, Width
<1>2. WidthLeft'
  BY WidthStays DEF WidthLeft
<1>3. InfosLast'
  BY FileStays DEF InfosLast
<1>4. BytesInOrder'
  BY DEF BytesInOrder, Available
<1>5. Asked'
  BY DEF Asked, Ask, Exact, ThisField
<1>6. NothingBehind'
  BY DEF NothingBehind
<1>7. Indexed'
  <2>1. \A i : TensorOf(i)' = TensorOf(i) /\ TensorError(i)' = TensorError(i)
    BY TensorsStay
  <2>2. AlignmentError(file)' = AlignmentError(file)
    BY TensorsStay
  <2>3. QED
    BY <2>1, <2>2 DEF Indexed
<1>8. QED
  BY <1>1, <1>2, <1>3, <1>4, <1>5, <1>6, <1>7

\* After the file is opened nothing reads its header.
LEMMA LoadLeavesHeader == [Next]_vars => Open \/ UNCHANGED ggufVars
  BY DEF Next, vars, ReadHeader, OpenFails, ConfigFails, ConfigAccepted, MakePlanInput, MakePlan,
     LoadResident, LoadMtp, MtpLoaded, LoadPinned, StartRing, LoadStreamed, Loaded, DriveFailed, NewState,
     Ended, LoadFrame

LEMMA HeaderInvariance == Spec => []HeaderInv
<1>1. Init => HeaderInv
  BY HeaderInvInit DEF Init
<1>2. HeaderInv /\ [Next]_vars => HeaderInv'
  BY OpenStep, OpenStays, LoadLeavesHeader
<1>3. QED
  BY <1>1, <1>2, PTL DEF Spec

-----------------------------------------------------------------------------
(* The sizes of tensors.                                                   *)

Products(s, g) == g = [d \in 0 .. Len(s) |-> IF d = 0 THEN 1 ELSE g[d - 1] * s[d]]

LEMMA ElementsIsLast ==
  ASSUME NEW s PROVE Elements(s) = (CHOOSE g : Products(s, g))[Len(s)]
  BY DEF Elements, Products

LEMMA ProductsExist == ASSUME NEW s \in Seq(Nat) PROVE \E g \in [0 .. Len(s) -> Nat] : Products(s, g)
<1> DEFINE Follows(n, g) == \A d \in 0 .. n : g[d] = IF d = 0 THEN 1 ELSE g[d - 1] * s[d]
           Exists(n) == \E g \in [0 .. n -> Nat] : Follows(n, g)
           Bad == {n \in 0 .. Len(s) : ~Exists(n)}
<1>1. Len(s) \in Nat /\ \A d \in 1 .. Len(s) : s[d] \in Nat
  BY ElementOfSeq
<1>2. Exists(Len(s))
  <2> SUFFICES ASSUME Bad # {} PROVE FALSE
    BY <1>1
  <2>1. \A x \in Bad : x \in Nat /\ x <= Len(s) /\ ~Exists(x)
    <3> HIDE DEF Exists
    <3>1. QED
      BY <1>1
  <2>2. PICK n \in Bad : \A j \in Bad : n <= j
    <3> HIDE DEF Bad
    <3>1. Bad \in SUBSET Nat
      BY <2>1
    <3>2. QED
      BY <3>1, LeastNatural
  <2>3. n \in Nat /\ n <= Len(s) /\ ~Exists(n)
    BY <2>1
  <2>4. CASE n = 0
    <3> DEFINE g == [d \in 0 .. 0 |-> 1]
    <3>1. g \in [0 .. 0 -> Nat] /\ Follows(0, g)
      OBVIOUS
    <3>2. QED
      BY <2>3, <2>4, <3>1
  <2>5. CASE n # 0
    <3>1. n - 1 \in Nat /\ n - 1 <= Len(s) /\ n \in 1 .. Len(s)
      BY <1>1, <2>3, <2>5
    <3>2. n - 1 \notin Bad
      <4>1. ~(n <= n - 1)
        BY <2>3
      <4> HIDE DEF Bad
      <4>2. QED
        BY <2>2, <4>1
    <3>3. Exists(n - 1)
      <4> HIDE DEF Exists
      <4>1. n - 1 \in 0 .. Len(s)
        BY <1>1, <3>1
      <4>2. QED
        BY <3>2, <4>1
    <3>4. PICK g \in [0 .. n - 1 -> Nat] : Follows(n - 1, g)
      BY <3>3
    <3> DEFINE h == [d \in 0 .. n |-> IF d = n THEN g[n - 1] * s[n] ELSE g[d]]
    <3>5. g[n - 1] \in Nat /\ s[n] \in Nat
      BY <1>1, <3>1, <3>4
    <3>6. g[n - 1] * s[n] \in Nat
      BY <3>5
    <3>7. \A d \in 0 .. n : d # n => d \in 0 .. n - 1 /\ g[d] \in Nat
      BY <2>3, <3>1, <3>4
    <3>8. h \in [0 .. n -> Nat]
      BY <3>6, <3>7
    <3>9. ASSUME NEW d \in 0 .. n PROVE h[d] = IF d = 0 THEN 1 ELSE h[d - 1] * s[d]
      <4>1. CASE d = n
        <5>1. h[n] = g[n - 1] * s[n] /\ h[n - 1] = g[n - 1]
          BY <2>3, <3>1
        <5>2. QED
          BY <2>5, <4>1, <5>1
      <4>2. CASE d # n
        <5>1. h[d] = g[d] /\ d \in 0 .. n - 1
          BY <3>7, <4>2
        <5>2. g[d] = IF d = 0 THEN 1 ELSE g[d - 1] * s[d]
          BY <3>4, <5>1
        <5>3. d # 0 => h[d - 1] = g[d - 1]
          BY <2>3, <5>1
        <5>4. QED
          BY <5>1, <5>2, <5>3
      <4>3. QED
        BY <4>1, <4>2
    <3>10. Exists(n)
      <4> HIDE DEF h
      <4>1. QED
        BY <3>8, <3>9
    <3>11. QED
      BY <2>3, <3>10
  <2>6. QED
    BY <2>4, <2>5
<1>3. PICK g \in [0 .. Len(s) -> Nat] : Follows(Len(s), g)
  BY <1>2
<1>4. g = [d \in 0 .. Len(s) |-> IF d = 0 THEN 1 ELSE g[d - 1] * s[d]]
  <2>1. g = [d \in 0 .. Len(s) |-> g[d]]
    OBVIOUS
  <2>2. [d \in 0 .. Len(s) |-> g[d]] = [d \in 0 .. Len(s) |-> IF d = 0 THEN 1 ELSE g[d - 1] * s[d]]
    BY <1>3
  <2>3. QED
    BY <2>1, <2>2
<1>5. QED
  BY <1>4 DEF Products

LEMMA ProductsUnique ==
  ASSUME NEW s \in Seq(Nat), NEW g, NEW h, Products(s, g), Products(s, h)
  PROVE  g = h
<1> DEFINE n == Len(s)
           Bad == {d \in 0 .. n : g[d] # h[d]}
<1>1. n \in Nat
  OBVIOUS
<1>2. /\ g = [d \in 0 .. n |-> g[d]] /\ h = [d \in 0 .. n |-> h[d]]
      /\ \A d \in 0 .. n : /\ g[d] = IF d = 0 THEN 1 ELSE g[d - 1] * s[d]
                           /\ h[d] = IF d = 0 THEN 1 ELSE h[d - 1] * s[d]
  BY DEF Products
<1>3. \A x \in Bad : x \in Nat /\ x \in 0 .. n /\ g[x] # h[x]
  BY <1>1
<1>4. Bad = {}
  <2> SUFFICES ASSUME Bad # {} PROVE FALSE
    OBVIOUS
  <2>1. PICK d \in Bad : \A j \in Bad : d <= j
    <3> HIDE DEF Bad
    <3>1. Bad \in SUBSET Nat
      BY <1>3
    <3>2. QED
      BY <3>1, LeastNatural
  <2>2. d \in Nat /\ d \in 0 .. n /\ g[d] # h[d]
    BY <1>3
  <2>3. d # 0
    BY <1>2, <2>2
  <2>4. d - 1 \in 0 .. n /\ ~(d <= d - 1)
    BY <1>1, <2>2, <2>3
  <2>5. d - 1 \notin Bad
    BY <2>1, <2>4
  <2>6. g[d - 1] = h[d - 1]
    BY <2>4, <2>5
  <2>7. QED
    BY <1>2, <2>2, <2>3, <2>6
<1>5. \A d \in 0 .. n : g[d] = h[d]
  BY <1>4
<1>6. [d \in 0 .. n |-> g[d]] = [d \in 0 .. n |-> h[d]]
  BY <1>5
<1>7. QED
  BY <1>2, <1>6

LEMMA ElementsNat == ASSUME NEW s \in Seq(Nat) PROVE Elements(s) \in Nat
<1>1. PICK g \in [0 .. Len(s) -> Nat] : Products(s, g)
  BY ProductsExist
<1>2. (CHOOSE h : Products(s, h)) = g
  BY <1>1, ProductsUnique
<1>3. Len(s) \in Nat /\ Len(s) \in 0 .. Len(s)
  OBVIOUS
<1>4. QED
  BY <1>2, <1>3, ElementsIsLast

LEMMA GgmlTypeFacts ==
  ASSUME NEW id \in DOMAIN GgmlTypes
  PROVE  GgmlTypes[id][2] \in Nat \ {0} /\ GgmlTypes[id][3] \in Nat \ {0} /\ id \in Nat
  BY DEF GgmlTypes

\* The data of an opened file starts behind its header, at a natural number.
LEMMA RoundUpNat == ASSUME NEW h \in Nat, NEW a \in Nat \ {0} PROVE ((h + a - 1) \div a) * a \in Nat
<1> DEFINE q == (h + a - 1) \div a
<1>1. q \in Nat
  OBVIOUS
<1> HIDE DEF q
<1>2. q * a \in Nat
  BY <1>1
<1>3. QED
  BY <1>2 DEF q

LEMMA DataOffsetNat ==
  ASSUME ReaderType, AlignmentError(file) = ""
  PROVE  DataOffset \in Nat /\ Alignment(file) \in Nat \ {0}
<1> DEFINE a == Alignment(file)
           h == header.end
<1>1. a \in Nat \ {0}
  BY DEF AlignmentError, IsPowerOfTwo
<1>2. h \in Nat
  BY DEF ReaderType
<1>3. DataOffset = ((h + a - 1) \div a) * a
  BY DEF DataOffset
<1> HIDE DEF a, h
<1>4. ((h + a - 1) \div a) * a \in Nat
  BY <1>1, <1>2, RoundUpNat
<1>5. DataOffset \in Nat
  BY <1>3, <1>4
<1>6. QED
  BY <1>1, <1>5 DEF a

\* A tensor of an opened file: its place, its size, and where it ends.
TypeNames == {GgmlTypes[id][1] : id \in DOMAIN GgmlTypes}

TensorInfo ==
  [name : (Nat \cup {NoLayer}) \X STRING, type : TypeNames, shape : Seq(Nat), elems : Nat, size : Nat, abs : Nat]

LEMMA TensorOfFacts ==
  ASSUME ReaderType, Indexed, stage = "opened", NEW i \in DOMAIN file.infos
  PROVE  /\ TensorOf(i) \in TensorInfo /\ TensorOf(i).name = file.infos[i].name
         /\ TensorOf(i).shape = file.infos[i].shape
         /\ DataOffset <= TensorOf(i).abs /\ TensorOf(i).abs + TensorOf(i).size <= file.size
         /\ file.infos[i].type \in DOMAIN GgmlTypes
         /\ TensorOf(i).type = GgmlTypes[file.infos[i].type][1]
         /\ TensorOf(i).elems = Elements(TensorOf(i).shape)
         /\ TensorOf(i).size = (TensorOf(i).elems \div GgmlTypes[file.infos[i].type][2]) * GgmlTypes[file.infos[i].type][3]
<1> DEFINE t == file.infos[i]
           b == GgmlTypes[t.type]
           n == Elements(t.shape)
           s == (n \div b[2]) * b[3]
           a == DataOffset + t.off
<1>1. t \in TensorInfos
  <2>1. file.infos \in Seq(TensorInfos)
    BY DEF ReaderType, IsFile
  <2>2. QED
    BY <2>1, ElementOfSeq
<1>2. t.name \in (Nat \cup {NoLayer}) \X STRING /\ t.shape \in Seq(Nat) /\ t.off \in Nat /\ t.type \in Nat
  BY <1>1 DEF TensorInfos
<1>3. TensorError(i) = "" /\ AlignmentError(file) = ""
  BY DEF Indexed
<1>4. t.type \in DOMAIN GgmlTypes /\ ~PastFile(TensorOf(i))
  BY <1>3 DEF TensorError
<1>5. b[2] \in Nat \ {0} /\ b[3] \in Nat \ {0} /\ b[1] \in TypeNames
  <2>1. \A id \in DOMAIN GgmlTypes : GgmlTypes[id][2] \in Nat \ {0} /\ GgmlTypes[id][3] \in Nat \ {0} /\ GgmlTypes[id][1] \in TypeNames
    BY GgmlTypeFacts DEF TypeNames
  <2>2. QED
    BY <1>4, <2>1
<1>6. n \in Nat
  BY <1>2, ElementsNat
<1>7. TensorOf(i) = [name |-> t.name, type |-> b[1], shape |-> t.shape, elems |-> n, size |-> s, abs |-> a]
  BY DEF TensorOf
<1>8. DataOffset \in Nat
  BY <1>3, DataOffsetNat
<1>9. a \in Nat /\ DataOffset <= a
  BY <1>2, <1>8
<1>10. s \in Nat
  <2> DEFINE p == b[2]
             r == b[3]
             q == n \div p
  <2>1. p \in Nat \ {0} /\ r \in Nat
    BY <1>5
  <2> HIDE DEF n, p, r
  <2>2. q \in Nat
    BY <1>6, <2>1
  <2> HIDE DEF q
  <2>3. q * r \in Nat
    BY <2>1, <2>2
  <2>4. QED
    BY <2>3 DEF n, p, r, q
<1>11. TensorEnd(TensorOf(i)) = a + s
  BY <1>7 DEF TensorEnd
<1>12. ~(a + s > file.size)
  BY <1>4, <1>11 DEF PastFile
<1>13. file.size \in Nat
  BY DEF ReaderType, IsFile
<1> HIDE DEF a, s, n, b, t
<1>14. a + s <= file.size
  BY <1>9, <1>10, <1>12, <1>13
<1>15. TensorOf(i) \in TensorInfo
  BY <1>2, <1>5, <1>6, <1>7, <1>9, <1>10 DEF TensorInfo
<1>16. /\ TensorOf(i).name = t.name /\ TensorOf(i).shape = t.shape /\ TensorOf(i).type = b[1]
       /\ TensorOf(i).elems = n /\ TensorOf(i).size = s /\ TensorOf(i).abs = a
  BY <1>7
<1>17. n = Elements(TensorOf(i).shape) /\ s = (n \div b[2]) * b[3]
  BY <1>16 DEF n, s
<1>18. TensorOf(i).size = (TensorOf(i).elems \div b[2]) * b[3]
  BY <1>16, <1>17
<1>19. QED
  BY <1>4, <1>9, <1>14, <1>15, <1>16, <1>17, <1>18 DEF t, b

\* The names of an opened file's tensors are as many as its infos.
LEMMA NamesAreOwn ==
  ASSUME ReaderType, Indexed, stage = "opened"
  PROVE  Cardinality({t.name : t \in index}) = Len(file.infos)
<1> DEFINE n == Len(file.infos)
           D == 1 .. n
           name == [i \in D |-> file.infos[i].name]
           Names == {name[i] : i \in D}
<1>1. n \in Nat /\ DOMAIN file.infos = D
  BY DEF ReaderType, IsFile
<1>2. \A i, j \in D : i < j => name[i] # name[j]
  <2> SUFFICES ASSUME NEW i \in D, NEW j \in D, i < j PROVE file.infos[i].name # file.infos[j].name
    OBVIOUS
  <2>1. TensorError(j) = ""
    BY <1>1 DEF Indexed
  <2>2. ~(\E x \in 1 .. j - 1 : file.infos[x].name = file.infos[j].name)
    BY <2>1 DEF TensorError
  <2>3. i \in 1 .. j - 1
    BY <1>1
  <2>4. QED
    BY <2>2, <2>3
<1>3. {t.name : t \in index} = Names
  <2>1. index = {TensorOf(i) : i \in D}
    BY <1>1 DEF Indexed
  <2>2. \A i \in D : TensorOf(i).name = name[i]
    BY <1>1, TensorOfFacts
  <2>3. {t.name : t \in index} = {TensorOf(i).name : i \in D}
    BY <2>1
  <2> HIDE DEF D, name
  <2>4. {TensorOf(i).name : i \in D} = {name[i] : i \in D}
    BY <2>2
  <2>5. QED
    BY <2>3, <2>4
<1>4. name \in Bijection(D, Names)
  <2>1. name \in [D -> Names] /\ \A y \in Names : \E x \in D : name[x] = y
    OBVIOUS
  <2>2. \A i, j \in D : name[i] = name[j] => i = j
    <3> SUFFICES ASSUME NEW i \in D, NEW j \in D, name[i] = name[j], i # j PROVE FALSE
      OBVIOUS
    <3>1. i < j \/ j < i
      BY <1>1
    <3>2. QED
      BY <1>2, <3>1
  <2> HIDE DEF name, Names, D
  <2>3. QED
    BY <2>1, <2>2 DEF Bijection, Injection, Surjection, IsInjective
<1>5. IsFiniteSet(D) /\ Cardinality(D) = n
  <2>1. \A x, y \in Int : IsFiniteSet(x .. y) /\ Cardinality(x .. y) = IF x > y THEN 0 ELSE y - x + 1
    BY FS_Interval
  <2>2. QED
    BY <1>1, <2>1
<1>6. Cardinality(Names) = Cardinality(D)
  <2> HIDE DEF D, Names, name
  <2>1. ExistsBijection(D, Names)
    BY <1>4 DEF ExistsBijection
  <2>2. QED
    BY <2>1, <1>5, FS_Bijection
<1>7. QED
  BY <1>3, <1>5, <1>6

(***************************************************************************)
(* OpenIsExact, for every file, chunk and choice of what a read returns.   *)
(***************************************************************************)
LEMMA HeaderIsExact == HeaderInv => OpenIsExact
<1> SUFFICES ASSUME HeaderInv PROVE OpenIsExact
  OBVIOUS
<1> USE DEF HeaderInv
<1>1. \A i \in 1 .. Available : reader.buf[reader.start + i] = reader.consumed + i - 1
  BY DEF BytesInOrder
<1>2. ASSUME stage \in {"index", "opened"}
      PROVE  reader.consumed = header.end /\ (header.infoBytes >= HeaderChunk => reader.read <= header.end)
  <2>1. ahead = <<>> /\ reader.consumed \in Nat
    BY <1>2, ReaderNumbers DEF ReaderType
  <2>2. Width(ahead) = 0
    <3>1. <<>> \in Seq(HeaderField)
      OBVIOUS
    <3>2. WidthOf(<<>>) = 0
      BY DEF WidthOf
    <3>3. QED
      BY <2>1, <3>1, <3>2, WidthIsSum
  <2>3. QED
    BY <2>1, <2>2 DEF WidthLeft, NothingBehind
<1>3. ASSUME stage = "opened", NEW t \in index
      PROVE  DataOffset <= t.abs /\ TensorEnd(t) <= file.size
  <2>1. PICK i \in DOMAIN file.infos : t = TensorOf(i)
    BY <1>3 DEF Indexed
  <2>2. QED
    BY <1>3, <2>1, TensorOfFacts DEF TensorEnd
<1>4. stage = "opened" => Cardinality({t.name : t \in index}) = Len(file.infos)
  BY NamesAreOwn
<1>5. QED
  BY <1>1, <1>2, <1>3, <1>4 DEF OpenIsExact

\* Opening a file of any content, through reads that may come back short, hands the parser
\* its bytes in order and ends at the end of the header with an index whose tensors lie
\* inside the file under names of their own (gguf.rs HeaderReader and open).
THEOREM LoadOpenIsExact == Spec => []OpenIsExact
BY HeaderInvariance, HeaderIsExact, PTL

-----------------------------------------------------------------------------
(* Where the tensors of an opened file lie, and what a read of them fills. *)

LEMMA IndexTensors ==
  ASSUME HeaderInv, stage = "opened"
  PROVE  /\ file.size \in Nat
         /\ \A t \in index : t \in TensorInfo /\ t.abs \in Nat /\ t.size \in Nat /\ t.abs + t.size <= file.size
<1>1. file.size \in Nat
  BY DEF HeaderInv, ReaderType, IsFile
<1>2. ASSUME NEW t \in index
      PROVE  t \in TensorInfo /\ t.abs \in Nat /\ t.size \in Nat /\ t.abs + t.size <= file.size
  <2>1. PICK i \in DOMAIN file.infos : t = TensorOf(i)
    BY DEF HeaderInv, Indexed
  <2>2. t \in TensorInfo /\ t.abs + t.size <= file.size
    BY <2>1, TensorOfFacts DEF HeaderInv
  <2>3. t.abs \in Nat /\ t.size \in Nat
    BY <2>2 DEF TensorInfo
  <2>4. QED
    BY <2>2, <2>3
<1>3. QED
  BY <1>1, <1>2

\* The range of a block is the least that holds its tensors, and lies inside the file.
LEMMA BlockPlace ==
  ASSUME HeaderInv, stage = "opened", NEW l, LayerTensors(l) # {}
  PROVE  /\ BlockRange(l) = <<FirstByte(LayerTensors(l)), LastByte(LayerTensors(l))>>
         /\ BlockRange(l) \in Nat \X Nat /\ BlockRange(l)[1] <= BlockRange(l)[2] /\ BlockRange(l)[2] <= file.size
         /\ \A t \in LayerTensors(l) : BlockRange(l)[1] <= t.abs /\ t.abs + t.size <= BlockRange(l)[2]
<1> DEFINE L == LayerTensors(l)
           A == {t.abs : t \in L}
           B == {TensorEnd(t) : t \in L}
           a == FirstByte(L)
           b == LastByte(L)
<1>1. BlockRange(l) = <<a, b>>
  BY DEF BlockRange, LayerSpan
<1>2. \A t \in L : t.abs \in Nat /\ t.size \in Nat /\ t.abs + t.size <= file.size
  BY IndexTensors DEF LayerTensors
<1>3. file.size \in Nat
  BY IndexTensors
<1>4. A \in SUBSET Nat /\ A # {}
  BY <1>2
<1>5. a \in A /\ \A x \in A : a <= x
  <2> HIDE DEF A
  <2>1. \E m \in A : \A x \in A : m <= x
    BY <1>4, LeastNatural
  <2>2. Min(A) \in A /\ \A x \in A : Min(A) <= x
    BY <2>1 DEF Min
  <2>3. a = Min(A)
    BY DEF FirstByte, A
  <2>4. QED
    BY <2>2, <2>3
<1>6. B \in SUBSET (0 .. file.size) /\ B # {}
  <2>1. \A t \in L : TensorEnd(t) \in 0 .. file.size
    BY <1>2, <1>3 DEF TensorEnd
  <2>2. QED
    BY <2>1
<1>7. b \in B /\ \A x \in B : x <= b
  <2> HIDE DEF B
  <2>1. Max(B) \in B /\ \A x \in B : x <= Max(B)
    BY <1>3, <1>6, MaxOfSet
  <2>2. b = Max(B)
    BY DEF LastByte, B
  <2>3. QED
    BY <2>1, <2>2
<1>8. \A t \in L : t.abs \in A /\ t.abs + t.size \in B
  BY DEF TensorEnd
<1>9. a \in Nat /\ b \in Nat /\ b <= file.size
  BY <1>3, <1>4, <1>5, <1>6, <1>7
<1>10. \A t \in L : a <= t.abs /\ t.abs + t.size <= b
  BY <1>5, <1>7, <1>8
<1> HIDE DEF A, B, a, b
<1>11. PICK t \in L : TRUE
  OBVIOUS
<1>12. a <= b
  BY <1>2, <1>9, <1>10, <1>11
<1>13. BlockRange(l)[1] = a /\ BlockRange(l)[2] = b
  BY <1>1
<1>14. QED
  BY <1>1, <1>9, <1>10, <1>12, <1>13 DEF a, b

\* The aligned read of a range holds what lies in the range.
LEMMA ReadHolds ==
  ASSUME NEW a \in Nat, NEW b \in Nat, a <= b, b <= file.size, file.size \in Nat,
         NEW x \in Nat, NEW s \in Nat, a <= x, x + s <= b
  PROVE  /\ ReadStart(<<a, b>>) \in Nat
         /\ (x - ReadStart(<<a, b>>)) + s <= Filled(<<a, b>>)
         /\ Filled(<<a, b>>) <= ReadBytes(<<a, b>>) /\ Filled(<<a, b>>) \in Int /\ ReadBytes(<<a, b>>) \in Int
<1>1. Sector \in Nat \ {0}
  BY PlanAssumption
<1>2. PICK p \in Nat : AlignDown(a) = p * Sector /\ p * Sector <= a /\ a < p * Sector + Sector
  BY AlignFacts
<1>3. b + Sector - 1 \in Nat
  BY <1>1
<1>4. PICK q \in Nat : AlignDown(b + Sector - 1) = q * Sector /\ q * Sector <= b + Sector - 1 /\ b + Sector - 1 < q * Sector + Sector
  BY <1>3, AlignFacts
<1> DEFINE u == p * Sector
           v == q * Sector
<1>5. u \in Nat /\ v \in Nat
  BY <1>1
<1>6. ReadStart(<<a, b>>) = u /\ ReadBytes(<<a, b>>) = v - u
  BY <1>2, <1>4 DEF ReadStart, ReadBytes, AlignUp
<1>7. u <= a /\ b <= v
  BY <1>1, <1>2, <1>4, <1>5
<1> HIDE DEF u, v
<1>8. Filled(<<a, b>>) = IF v - u < file.size - u THEN v - u ELSE file.size - u
  BY <1>6 DEF Filled, Least
<1>9. QED
  BY <1>5, <1>6, <1>7, <1>8

-----------------------------------------------------------------------------
(* The errors of loading a block, and the views it makes.                  *)

SourceErrors == {"", "Missing", "Shape", "Misaligned", "panic: row bytes", "Unsupported"}

LEMMA SourceErrorType == ASSUME NEW l, NEW e, NEW from, NEW bytes PROVE SourceError(l, e, from, bytes) \in SourceErrors
<1>1. \A t : ReadError(t) \in SourceErrors
  BY DEF ReadError, SourceErrors
<1>2. \A t, len : VecError(t, len) \in SourceErrors
  BY <1>1 DEF VecError, Unless, SourceErrors
<1>3. \A t, r, c : MatError(t, r, c, from, bytes) \in SourceErrors
  BY <1>1 DEF MatError, Unless, SourceErrors
<1>4. QED
  BY <1>2, <1>3 DEF SourceError, SourceErrors

\* What a block is loaded from is a list.
IsList(list) == \E n \in Nat : DOMAIN list = 1 .. n

LEMMA LoadErrorFacts ==
  ASSUME NEW l, NEW list, IsList(list), NEW from, NEW bytes
  PROVE  /\ LoadError(l, list, from, bytes) \in SourceErrors
         /\ LoadError(l, list, from, bytes) = "" => \A i \in DOMAIN list : SourceError(l, list[i], from, bytes) = ""
<1> DEFINE errs == [i \in DOMAIN list |-> SourceError(l, list[i], from, bytes)]
<1>1. PICK n \in Nat : DOMAIN list = 1 .. n
  BY DEF IsList
<1>2. DOMAIN errs = 1 .. n /\ LoadError(l, list, from, bytes) = FirstError(errs)
  BY <1>1 DEF LoadError
<1>3. \A i \in 1 .. n : errs[i] \in SourceErrors
  BY <1>1, SourceErrorType
<1>4. "" \in SourceErrors
  BY DEF SourceErrors
<1>5. \A i \in 1 .. n : errs[i] = SourceError(l, list[i], from, bytes)
  BY <1>1
<1> HIDE DEF errs
<1>6. FirstError(errs) = "" => \A i \in 1 .. n : errs[i] = ""
  BY <1>2, FirstErrorFacts
<1>7. FirstError(errs) = "" \/ \E i \in 1 .. n : FirstError(errs) = errs[i]
  BY <1>2, FirstErrorFacts
<1>8. QED
  BY <1>1, <1>2, <1>3, <1>4, <1>5, <1>6, <1>7

\* A list of tuples, and two lists one behind the other.
LEMMA Lists ==
  /\ \A c : IsList(AttentionTensors(c)) /\ IsList(MtpLoad(c)) /\ IsList(HeadLoad(c))
  /\ \A c, l : IsList(LayerLoad(c, l))
  /\ IsList(<<>>)
<1>1. ASSUME NEW S, NEW s \in Seq(S), NEW t \in Seq(S) PROVE s \o t \in Seq(S)
  BY ConcatType
<1>2. ASSUME NEW S, NEW s \in Seq(S) PROVE IsList(s)
  <2>1. Len(s) \in Nat /\ DOMAIN s = 1 .. Len(s)
    OBVIOUS
  <2>2. QED
    BY <2>1 DEF IsList
<1>3. ASSUME NEW c, NEW l
      PROVE  IsList(AttentionTensors(c)) /\ IsList(MtpLoad(c)) /\ IsList(HeadLoad(c)) /\ IsList(LayerLoad(c, l))
  <2> DEFINE a == AttentionTensors(c)
             d == DeltaNetTensors(c)
             m == NormAndMlpTensors(c)
             x == << Mat("nextn.eh_proj.weight", c.hidden, 2 * c.hidden), Vec("nextn.enorm.weight", c.hidden),
                     Vec("nextn.hnorm.weight", c.hidden), Vec("nextn.shared_head_norm.weight", c.hidden) >>
             h == HeadLoad(c)
             S == {a[i] : i \in 1 .. 6} \cup {d[i] : i \in 1 .. 9} \cup {m[i] : i \in 1 .. 5}
                    \cup {x[i] : i \in 1 .. 4} \cup {h[i] : i \in 1 .. 3}
  <2>1. a \in Seq({a[i] : i \in 1 .. 6})
    BY DEF AttentionTensors
  <2>2. d \in Seq({d[i] : i \in 1 .. 9})
    BY DEF DeltaNetTensors
  <2>3. m \in Seq({m[i] : i \in 1 .. 5})
    BY DEF NormAndMlpTensors
  <2>4. x \in Seq({x[i] : i \in 1 .. 4})
    OBVIOUS
  <2>5. h \in Seq({h[i] : i \in 1 .. 3})
    BY DEF HeadLoad
  <2>6. MtpLoad(c) = a \o m \o x /\ LayerLoad(c, l) = (IF l \in c.attention THEN a ELSE d) \o m
    BY DEF MtpLoad, LayerLoad
  <2> HIDE DEF a, d, m, x, h
  <2>7. a \in Seq(S) /\ d \in Seq(S) /\ m \in Seq(S) /\ x \in Seq(S) /\ h \in Seq(S)
    BY <2>1, <2>2, <2>3, <2>4, <2>5
  <2> HIDE DEF S
  <2>8. a \o m \in Seq(S) /\ d \o m \in Seq(S)
    BY <2>7, <1>1
  <2>9. (a \o m) \o x \in Seq(S)
    BY <2>7, <2>8, <1>1
  <2>10. MtpLoad(c) \in Seq(S) /\ LayerLoad(c, l) \in Seq(S)
    BY <2>6, <2>8, <2>9
  <2>11. IsList(a) /\ IsList(h) /\ IsList(MtpLoad(c)) /\ IsList(LayerLoad(c, l))
    BY <2>7, <2>10, <1>2
  <2>12. QED
    BY <2>11 DEF a, h
<1>4. IsList(<<>>)
  <2>1. DOMAIN <<>> = 1 .. 0 /\ 0 \in Nat
    OBVIOUS
  <2>2. QED
    BY <2>1 DEF IsList
<1>5. QED
  BY <1>3, <1>4

LEMMA FoundTensor ==
  ASSUME NEW name, HasTensor(name)
  PROVE  Tensor(name) \in index /\ Tensor(name).name = name
  BY DEF HasTensor, Tensor

\* The view of a tensor of layer l, in the buffer id of a read that starts at `from`.
ViewIn(v, l, id, from) ==
  /\ HasTensor(v.tensor) /\ Tensor(v.tensor) \in LayerTensors(l) /\ v.layer = l /\ v.id = id
  /\ v.off = Tensor(v.tensor).abs - from /\ v.len = Tensor(v.tensor).size

LEMMA ViewsMade ==
  ASSUME NEW l, NEW list, IsList(list), NEW id, NEW from, NEW bytes, LoadError(l, list, from, bytes) = "",
         NEW v \in ViewsOf(l, list, id, from)
  PROVE  ViewIn(v, l, id, from)
<1>1. PICK i \in DOMAIN list :
        LET t == Tensor(<<l, list[i][2]>>)
        IN  v = [tensor |-> t.name, id |-> id, layer |-> l, off |-> t.abs - from, len |-> t.size]
  BY DEF ViewsOf
<1> DEFINE name == <<l, list[i][2]>>
           t == Tensor(name)
<1>2. SourceError(l, list[i], from, bytes) = ""
  BY LoadErrorFacts
<1>3. HasTensor(name)
  BY <1>2 DEF SourceError
<1>4. t \in index /\ t.name = name
  BY <1>3, FoundTensor
<1>5. LayerOf(t.name) = l
  <2>1. name[1] = l
    OBVIOUS
  <2> HIDE DEF t, name
  <2>2. QED
    BY <1>4, <2>1 DEF LayerOf
<1>6. t \in LayerTensors(l)
  BY <1>4, <1>5 DEF LayerTensors
<1>7. v = [tensor |-> t.name, id |-> id, layer |-> l, off |-> t.abs - from, len |-> t.size]
  BY <1>1
<1> HIDE DEF t, name
<1>8. v.tensor = name /\ v.id = id /\ v.layer = l /\ v.off = t.abs - from /\ v.len = t.size
  BY <1>4, <1>7
<1>9. QED
  BY <1>3, <1>6, <1>8 DEF ViewIn, t

-----------------------------------------------------------------------------
(* What an accepted configuration says, and what a refused one is called.  *)

ConfigErrors ==
  {"", "MissingKey", "WrongType", "WrongElemType", "Inconsistent", "MissingTensor", "NoTensor", "panic", "UnknownArch"}

LEMMA GetErrorType == ASSUME NEW key, NEW type, NEW elem PROVE GetError(file, key, type, elem) \in ConfigErrors
  BY DEF GetError, ConfigErrors

\* The keys asked for: a list of u32 keys, and two lists one behind the other.
IsKeys(keys) == \E S : keys \in Seq(S)
U32(keys) == [i \in DOMAIN keys |-> <<keys[i], "UINT32", "">>]
Asks(keys, key) == \E i \in DOMAIN keys : keys[i] = <<key, "UINT32", "">>

LEMMA TripleParts ==
  ASSUME NEW x, NEW a, NEW b, NEW c, x = <<a, b, c>>
  PROVE  x[1] = a /\ x[2] = b /\ x[3] = c /\ DOMAIN x = 1 .. 3
  OBVIOUS

LEMMA OneToThree == \A i \in 1 .. 3 : i = 1 \/ i = 2 \/ i = 3
  OBVIOUS

LEMMA PositiveDifference == \A a, b \in Nat : ~(b >= a) => a - b \in Nat \ {0} /\ a - b <= a
  OBVIOUS

LEMMA KeyErrorFacts ==
  ASSUME NEW keys, IsKeys(keys)
  PROVE  /\ KeyErrors(keys) \in ConfigErrors
         /\ \A key : KeyErrors(keys) = "" /\ Asks(keys, key) => GetError(file, key, "UINT32", "") = ""
<1> DEFINE n == Len(keys)
           errs == [i \in DOMAIN keys |-> GetError(file, keys[i][1], keys[i][2], keys[i][3])]
<1>1. n \in Nat /\ DOMAIN keys = 1 .. n
  BY DEF IsKeys
<1>2. DOMAIN errs = 1 .. n /\ KeyErrors(keys) = FirstError(errs)
  BY <1>1 DEF KeyErrors
<1>3. \A i \in 1 .. n : errs[i] = GetError(file, keys[i][1], keys[i][2], keys[i][3])
  BY <1>1
<1>4. \A i \in 1 .. n : errs[i] \in ConfigErrors
  BY <1>3, GetErrorType
<1>5. "" \in ConfigErrors
  BY DEF ConfigErrors
<1> HIDE DEF errs, n
<1>6. FirstError(errs) = "" => \A i \in 1 .. n : errs[i] = ""
  BY <1>1, <1>2, FirstErrorFacts
<1>7. FirstError(errs) = "" \/ \E i \in 1 .. n : FirstError(errs) = errs[i]
  BY <1>1, <1>2, FirstErrorFacts
<1>8. KeyErrors(keys) \in ConfigErrors
  BY <1>2, <1>4, <1>5, <1>7
<1>9. ASSUME NEW key, KeyErrors(keys) = "", Asks(keys, key) PROVE GetError(file, key, "UINT32", "") = ""
  <2>1. PICK i \in 1 .. n : keys[i] = <<key, "UINT32", "">>
    BY <1>1, <1>9 DEF Asks
  <2>2. keys[i][1] = key /\ keys[i][2] = "UINT32" /\ keys[i][3] = ""
    <3> DEFINE x == keys[i]
               u == "UINT32"
               e == ""
    <3>1. x = <<key, u, e>>
      BY <2>1
    <3> HIDE DEF x, u, e
    <3>2. x[1] = key /\ x[2] = u /\ x[3] = e
      BY <3>1, TripleParts
    <3>3. QED
      BY <3>2 DEF x, u, e
  <2>3. errs[i] = ""
    BY <1>2, <1>6, <1>9
  <2>4. QED
    BY <1>3, <2>2, <2>3
<1>10. QED
  BY <1>8, <1>9

LEMMA U32Keys ==
  ASSUME NEW keys, NEW n \in Nat, DOMAIN keys = 1 .. n
  PROVE  IsKeys(U32(keys)) /\ \A i \in 1 .. n : Asks(U32(keys), keys[i])
<1>1. U32(keys) = [i \in 1 .. n |-> <<keys[i], "UINT32", "">>]
  BY DEF U32
<1>2. IsKeys(U32(keys))
  <2> DEFINE S == {<<keys[i], "UINT32", "">> : i \in 1 .. n}
  <2>1. \A i \in 1 .. n : <<keys[i], "UINT32", "">> \in S
    OBVIOUS
  <2> HIDE DEF S
  <2>2. [i \in 1 .. n |-> <<keys[i], "UINT32", "">>] \in [1 .. n -> S]
    BY <2>1
  <2>3. [1 .. n -> S] \subseteq Seq(S)
    OBVIOUS
  <2>4. U32(keys) \in Seq(S)
    BY <1>1, <2>2, <2>3
  <2>5. QED
    BY <2>4 DEF IsKeys
<1>3. \A i \in 1 .. n : Asks(U32(keys), keys[i])
  BY <1>1 DEF Asks
<1>4. QED
  BY <1>2, <1>3

LEMMA AsksEither ==
  ASSUME NEW s, NEW t, IsKeys(s), IsKeys(t)
  PROVE  IsKeys(s \o t) /\ \A key : Asks(s, key) \/ Asks(t, key) => Asks(s \o t, key)
<1> DEFINE r == s \o t
<1>0. PICK S : s \in Seq(S) /\ t \in Seq(S)
  <2>1. PICK S1 : s \in Seq(S1)
    BY DEF IsKeys
  <2>2. PICK S2 : t \in Seq(S2)
    BY DEF IsKeys
  <2>3. s \in Seq(S1 \cup S2) /\ t \in Seq(S1 \cup S2)
    BY <2>1, <2>2
  <2>4. QED
    BY <2>3
<1>1. /\ r \in Seq(S) /\ Len(r) = Len(s) + Len(t)
      /\ \A i \in 1 .. Len(s) + Len(t) : r[i] = IF i <= Len(s) THEN s[i] ELSE t[i - Len(s)]
  BY <1>0, ConcatProperties
<1>2. Len(s) \in Nat /\ Len(t) \in Nat /\ DOMAIN s = 1 .. Len(s) /\ DOMAIN t = 1 .. Len(t)
  BY <1>0
<1> HIDE DEF r
<1>3. DOMAIN r = 1 .. Len(s) + Len(t)
  BY <1>1
<1>4. ASSUME NEW key, Asks(s, key) PROVE Asks(r, key)
  <2>1. PICK i \in 1 .. Len(s) : s[i] = <<key, "UINT32", "">>
    BY <1>2, <1>4 DEF Asks
  <2>2. i \in DOMAIN r /\ r[i] = s[i]
    BY <1>1, <1>2, <1>3
  <2>3. QED
    BY <2>1, <2>2 DEF Asks
<1>5. ASSUME NEW key, Asks(t, key) PROVE Asks(r, key)
  <2>1. PICK i \in 1 .. Len(t) : t[i] = <<key, "UINT32", "">>
    BY <1>2, <1>5 DEF Asks
  <2>2. i + Len(s) \in 1 .. Len(s) + Len(t) /\ ~(i + Len(s) <= Len(s)) /\ i + Len(s) - Len(s) = i
    BY <1>2
  <2>3. r[i + Len(s)] = t[i]
    BY <1>1, <2>2
  <2>4. QED
    BY <1>3, <2>1, <2>2, <2>3 DEF Asks
<1>6. IsKeys(r)
  BY <1>1 DEF IsKeys
<1>7. QED
  BY <1>4, <1>5, <1>6 DEF r

OneKey(key, type, elem) == << <<key, type, elem>> >>

LEMMA OneKeyIsKeys == ASSUME NEW key, NEW type, NEW elem PROVE IsKeys(OneKey(key, type, elem))
<1>1. OneKey(key, type, elem) \in Seq({<<key, type, elem>>})
  BY DEF OneKey
<1>2. QED
  BY <1>1 DEF IsKeys

LEMMA RequiredKeysFacts ==
  IsKeys(RequiredKeys) /\ Asks(RequiredKeys, "block_count") /\ Asks(RequiredKeys, "nextn_predict_layers")
<1> DEFINE k2 == <<"block_count", "nextn_predict_layers">>
           k1 == OneKey("general.architecture", "STRING", "")
<1>1. DOMAIN k2 = 1 .. 2 /\ k2[1] = "block_count" /\ k2[2] = "nextn_predict_layers"
  OBVIOUS
<1>2. RequiredKeys = k1 \o U32(k2)
  BY DEF RequiredKeys, U32, OneKey
<1>3. IsKeys(k1)
  BY OneKeyIsKeys
<1> HIDE DEF k1, k2
<1>4. IsKeys(U32(k2)) /\ Asks(U32(k2), "block_count") /\ Asks(U32(k2), "nextn_predict_layers")
  <2>1. IsKeys(U32(k2)) /\ \A i \in 1 .. 2 : Asks(U32(k2), k2[i])
    BY <1>1, U32Keys
  <2>2. 1 \in 1 .. 2 /\ 2 \in 1 .. 2
    OBVIOUS
  <2>3. QED
    BY <1>1, <2>1, <2>2
<1>5. QED
  BY <1>2, <1>3, <1>4, AsksEither

SevenKeys == <<"context_length", "embedding_length", "feed_forward_length", "attention.head_count",
               "attention.head_count_kv", "attention.key_length", "attention.value_length">>
FiveKeys  == <<"ssm.conv_kernel", "ssm.state_size", "ssm.group_count", "ssm.time_step_rank", "ssm.inner_size">>
LastKeys  == <<"general.file_type", "general.quantization_version", "tokenizer.ggml.bos_token_id",
               "tokenizer.ggml.eos_token_id", "tokenizer.ggml.padding_token_id">>
TokenKeys == << <<"tokenizer.ggml.add_bos_token", "BOOL", "">>, <<"tokenizer.ggml.model", "STRING", "">>,
                <<"tokenizer.ggml.pre", "STRING", "">>, <<"tokenizer.ggml.tokens", "ARRAY", "">> >>

\* The keys whose values are sizes of the model.
SizeKeys == {SevenKeys[i] : i \in 2 .. 6} \cup {FiveKeys[i] : i \in 1 .. 5} \cup {"rope.dimension_count"}

LEMMA RemainingKeysFacts == IsKeys(RemainingKeys) /\ \A key \in SizeKeys : Asks(RemainingKeys, key)
<1> DEFINE a == U32(SevenKeys)
           b == OneKey("attention.layer_norm_rms_epsilon", "FLOAT32", "")
           c == U32(<<"full_attention_interval">>)
           d == OneKey("rope.freq_base", "FLOAT32", "")
           e == U32(<<"rope.dimension_count">>)
           f == OneKey("rope.dimension_sections", "ARRAY", "INT32")
           g == U32(FiveKeys)
           h == OneKey("general.name", "STRING", "")
           i == U32(LastKeys)
           j == TokenKeys
<1>1. RemainingKeys = a \o b \o c \o d \o e \o f \o g \o h \o i \o j
  BY DEF RemainingKeys, U32, OneKey, SevenKeys, FiveKeys, LastKeys, TokenKeys
<1>2. IsKeys(b) /\ IsKeys(d) /\ IsKeys(f) /\ IsKeys(h)
  BY OneKeyIsKeys
<1>3. IsKeys(a) /\ \A x \in 1 .. 7 : Asks(a, SevenKeys[x])
  <2>1. DOMAIN SevenKeys = 1 .. 7
    BY DEF SevenKeys
  <2>2. QED
    BY <2>1, U32Keys
<1>4. IsKeys(g) /\ \A x \in 1 .. 5 : Asks(g, FiveKeys[x])
  <2>1. DOMAIN FiveKeys = 1 .. 5
    BY DEF FiveKeys
  <2>2. QED
    BY <2>1, U32Keys
<1>5. IsKeys(i)
  <2>1. DOMAIN LastKeys = 1 .. 5
    BY DEF LastKeys
  <2>2. QED
    BY <2>1, U32Keys
<1>6. IsKeys(c)
  <2>1. DOMAIN <<"full_attention_interval">> = 1 .. 1
    OBVIOUS
  <2>2. QED
    BY <2>1, U32Keys
<1>7. IsKeys(e) /\ Asks(e, "rope.dimension_count")
  <2> DEFINE x == <<"rope.dimension_count">>
  <2>1. DOMAIN x = 1 .. 1 /\ x[1] = "rope.dimension_count" /\ 1 \in 1 .. 1
    OBVIOUS
  <2> HIDE DEF x
  <2>2. IsKeys(U32(x)) /\ \A y \in 1 .. 1 : Asks(U32(x), x[y])
    BY <2>1, U32Keys
  <2>3. QED
    BY <2>1, <2>2 DEF x
<1>8. IsKeys(j)
  <2> DEFINE p == <<"tokenizer.ggml.add_bos_token", "BOOL", "">>
             q == <<"tokenizer.ggml.model", "STRING", "">>
             r == <<"tokenizer.ggml.pre", "STRING", "">>
             t == <<"tokenizer.ggml.tokens", "ARRAY", "">>
  <2>1. j = <<p, q, r, t>>
    BY DEF TokenKeys
  <2> HIDE DEF p, q, r, t
  <2>2. j \in Seq({p, q, r, t})
    BY <2>1
  <2>3. QED
    BY <2>2 DEF IsKeys
<1> HIDE DEF a, b, c, d, e, f, g, h, i, j
<1>9. IsKeys(a \o b) /\ \A key : Asks(a, key) => Asks(a \o b, key)
  BY <1>2, <1>3, AsksEither
<1> DEFINE s3 == (a \o b) \o c
           s4 == s3 \o d
           s5 == s4 \o e
           s6 == s5 \o f
           s7 == s6 \o g
           s8 == s7 \o h
           s9 == s8 \o i
           s10 == s9 \o j
<1>10. IsKeys(s3) /\ \A key : Asks(a, key) => Asks(s3, key)
  BY <1>6, <1>9, AsksEither
<1> HIDE DEF s3
<1>11. IsKeys(s4) /\ \A key : Asks(a, key) => Asks(s4, key)
  BY <1>2, <1>10, AsksEither
<1> HIDE DEF s4
<1>12. IsKeys(s5) /\ \A key : Asks(a, key) \/ Asks(e, key) => Asks(s5, key)
  BY <1>7, <1>11, AsksEither
<1> HIDE DEF s5
<1>13. IsKeys(s6) /\ \A key : Asks(a, key) \/ Asks(e, key) => Asks(s6, key)
  BY <1>2, <1>12, AsksEither
<1> HIDE DEF s6
<1>14. IsKeys(s7) /\ \A key : Asks(a, key) \/ Asks(e, key) \/ Asks(g, key) => Asks(s7, key)
  BY <1>4, <1>13, AsksEither
<1> HIDE DEF s7
<1>15. IsKeys(s8) /\ \A key : Asks(a, key) \/ Asks(e, key) \/ Asks(g, key) => Asks(s8, key)
  BY <1>2, <1>14, AsksEither
<1> HIDE DEF s8
<1>16. IsKeys(s9) /\ \A key : Asks(a, key) \/ Asks(e, key) \/ Asks(g, key) => Asks(s9, key)
  BY <1>5, <1>15, AsksEither
<1> HIDE DEF s9
<1>17. IsKeys(s10) /\ \A key : Asks(a, key) \/ Asks(e, key) \/ Asks(g, key) => Asks(s10, key)
  BY <1>8, <1>16, AsksEither
<1>18. RemainingKeys = s10
  BY <1>1 DEF s3, s4, s5, s6, s7, s8, s9, s10
<1> HIDE DEF s10
<1>19. ASSUME NEW key \in SizeKeys PROVE Asks(a, key) \/ Asks(e, key) \/ Asks(g, key)
  <2>1. key \in {SevenKeys[x] : x \in 2 .. 6} => \E x \in 1 .. 7 : key = SevenKeys[x]
    OBVIOUS
  <2>2. key \in {FiveKeys[x] : x \in 1 .. 5} => \E x \in 1 .. 5 : key = FiveKeys[x]
    OBVIOUS
  <2>3. QED
    BY <1>3, <1>4, <1>7, <2>1, <2>2 DEF SizeKeys
<1>20. QED
  BY <1>17, <1>18, <1>19

LEMMA U32Val == ASSUME IsFile(file), NEW key, GetError(file, key, "UINT32", "") = "" PROVE Val(key) \in Nat
<1>1. \E i \in DOMAIN file.kv : file.kv[i].key = key
  BY DEF GetError, Has
<1> DEFINE i == CHOOSE i \in DOMAIN file.kv : file.kv[i].key = key
<1>2. i \in DOMAIN file.kv /\ Kv(file, key) = file.kv[i]
  BY <1>1 DEF Kv
<1> HIDE DEF i
<1>3. HasType(Kv(file, key), "UINT32")
  BY DEF GetError
<1>4. HasType(file.kv[i], "UINT32")
  BY <1>2, <1>3
<1>5. file.kv[i].val \in Nat
  BY <1>2, <1>4 DEF IsFile
<1>6. QED
  BY <1>2, <1>5 DEF Val

LEMMA FirstOfThree ==
  ASSUME NEW a, NEW b, NEW c, NEW S, a \in S, b \in S, c \in S, "" \in S PROVE FirstError(<<a, b, c>>) \in S
<1> DEFINE errs == <<a, b, c>>
<1>1. DOMAIN errs = 1 .. 3 /\ \A i \in 1 .. 3 : errs[i] \in S
  <2>1. errs = <<a, b, c>>
    OBVIOUS
  <2> HIDE DEF errs
  <2>2. DOMAIN errs = 1 .. 3 /\ errs[1] = a /\ errs[2] = b /\ errs[3] = c
    BY <2>1, TripleParts
  <2>3. ASSUME NEW i \in 1 .. 3 PROVE errs[i] \in S
    <3>1. i = 1 \/ i = 2 \/ i = 3
      BY OneToThree
    <3>2. QED
      BY <2>2, <3>1
  <2>4. QED
    BY <2>2, <2>3
<1> HIDE DEF errs
<1>2. FirstError(errs) = "" \/ \E i \in 1 .. 3 : FirstError(errs) = errs[i]
  BY <1>1, FirstErrorFacts
<1>3. QED
  BY <1>1, <1>2 DEF errs

LEMMA LayerErrorsType == ASSUME NEW l PROVE LayerErrors(l) \in ConfigErrors
<1>1. "" \in ConfigErrors /\ "Inconsistent" \in ConfigErrors
  BY DEF ConfigErrors
<1>2. \A s, shape : Shaped(l, s, shape) \in ConfigErrors
  BY DEF Shaped, Unless, ConfigErrors
<1>3. AttentionErrors(l) \in ConfigErrors
  BY <1>1, <1>2 DEF AttentionErrors
<1>4. DeltaNetErrors(l) \in ConfigErrors
  <2> DEFINE a == Shaped(l, "attn_qkv.weight", <<Config.hidden, Config.qkvDim>>)
             b == Shaped(l, "ssm_conv1d.weight", <<Config.kernel, Config.qkvDim>>)
             c == Shaped(l, "ssm_a", <<Config.nV>>)
  <2>1. DeltaNetErrors(l) = FirstError(<<a, b, c>>)
    BY DEF DeltaNetErrors
  <2>2. a \in ConfigErrors /\ b \in ConfigErrors /\ c \in ConfigErrors
    BY <1>2
  <2> HIDE DEF a, b, c
  <2>3. FirstError(<<a, b, c>>) \in ConfigErrors
    BY <1>1, <2>2, FirstOfThree
  <2>4. QED
    BY <2>1, <2>3
<1>5. QED
  BY <1>1, <1>3, <1>4 DEF LayerErrors

\* The blocks of a file whose required keys are there.
LEMMA BlockCounts ==
  ASSUME IsFile(file), KeyErrors(RequiredKeys) = "", ~(Val("nextn_predict_layers") >= Val("block_count"))
  PROVE  /\ Config.blocks \in Nat /\ Config.nLayer \in Nat \ {0} /\ Config.nLayer <= Config.blocks
         /\ Config.mtp = Config.nLayer .. Config.blocks - 1
<1> DEFINE b == Val("block_count")
           m == Val("nextn_predict_layers")
<1>1. b \in Nat /\ m \in Nat
  BY RequiredKeysFacts, KeyErrorFacts, U32Val
<1>2. ~(m >= b)
  OBVIOUS
<1>3. Config.blocks = b /\ Config.nLayer = b - m /\ Config.mtp = (b - m) .. (b - 1)
  BY DEF Config
<1> HIDE DEF b, m
<1>4. b - m \in Nat \ {0} /\ b - m <= b
  BY <1>1, <1>2, PositiveDifference
<1>5. QED
  BY <1>1, <1>3, <1>4

LEMMA BlockErrorsType ==
  ASSUME Config.nLayer \in Nat
  PROVE  /\ BlockErrors \in ConfigErrors
         /\ BlockErrors = "" => \A l \in 0 .. Config.blocks - 1 : LayerTensors(l) # {}
<1> DEFINE n == Config.nLayer
           errs == [i \in 1 .. n |-> LayerErrors(i - 1)]
           layers == FirstError(errs)
<1>1. DOMAIN errs = 1 .. n /\ \A i \in 1 .. n : errs[i] \in ConfigErrors
  BY LayerErrorsType
<1>2. "" \in ConfigErrors /\ "Inconsistent" \in ConfigErrors /\ "MissingTensor" \in ConfigErrors
  BY DEF ConfigErrors
<1>3. layers \in ConfigErrors
  <2> HIDE DEF errs
  <2>1. layers = "" \/ \E i \in 1 .. n : layers = errs[i]
    BY <1>1, FirstErrorFacts
  <2>2. QED
    BY <1>1, <1>2, <2>1
<1>4. BlockErrors \in {layers, "", "Inconsistent", "MissingTensor"}
  BY DEF BlockErrors, Unless
<1>5. BlockErrors = "" => \A l \in 0 .. Config.blocks - 1 : LayerTensors(l) # {}
  BY DEF BlockErrors, Unless
<1> HIDE DEF layers
<1>6. QED
  BY <1>2, <1>3, <1>4, <1>5

\* A refused configuration is called by one of these names.
LEMMA ConfigErrorType == ASSUME IsFile(file) PROVE ConfigError \in ConfigErrors
<1>1. KeyErrors(RequiredKeys) \in ConfigErrors /\ KeyErrors(RemainingKeys) \in ConfigErrors
  BY RequiredKeysFacts, RemainingKeysFacts, KeyErrorFacts
<1>2. EotError \in ConfigErrors /\ HeadErrors \in ConfigErrors /\ EmbeddingErrors \in ConfigErrors
  <2>1. EotError \in ConfigErrors
    <3>1. GetError(file, EotKey, "UINT32", "") \in ConfigErrors /\ "" \in ConfigErrors
      BY GetErrorType DEF ConfigErrors
    <3>2. QED
      BY <3>1 DEF EotError
  <2>2. HeadErrors \in ConfigErrors
    BY DEF HeadErrors, Unless, ConfigErrors
  <2>3. EmbeddingErrors \in ConfigErrors
    BY DEF EmbeddingErrors, Unless, ConfigErrors
  <2>4. QED
    BY <2>1, <2>2, <2>3
<1>3. "Inconsistent" \in ConfigErrors /\ "panic" \in ConfigErrors /\ "UnknownArch" \in ConfigErrors /\ "" \in ConfigErrors
  BY DEF ConfigErrors
<1>4. CASE KeyErrors(RequiredKeys) # "" \/ Val("nextn_predict_layers") >= Val("block_count")
  BY <1>1, <1>3, <1>4 DEF ConfigError
<1>5. CASE ~(KeyErrors(RequiredKeys) # "" \/ Val("nextn_predict_layers") >= Val("block_count"))
  <2>1. BlockErrors \in ConfigErrors
    BY <1>5, BlockCounts, BlockErrorsType
  <2>2. QED
    BY <1>1, <1>2, <1>3, <1>5, <2>1 DEF ConfigError, Unless
<1>6. QED
  BY <1>4, <1>5

\* What an accepted configuration says of the blocks: there is at least one layer, the MTP
\* blocks are the last ones, and no block, and not what belongs to none, is without tensors.
BlocksOf(c) ==
  /\ c.blocks \in Nat /\ c.nLayer \in Nat \ {0} /\ c.nLayer <= c.blocks
  /\ c.mtp = c.nLayer .. c.blocks - 1
  /\ \A l \in 0 .. c.blocks - 1 : LayerTensors(l) # {}
  /\ NonLayerTensors # {}

LEMMA AcceptedBlocks == ASSUME IsFile(file), ConfigError = "" PROVE BlocksOf(Config)
<1>1. KeyErrors(RequiredKeys) = "" /\ ~(Val("nextn_predict_layers") >= Val("block_count"))
  BY DEF ConfigError
<1>2. EmbeddingErrors = "" /\ BlockErrors = ""
  BY DEF ConfigError
<1>3. HasTensor(<<NoLayer, "token_embd.weight">>)
  BY <1>2 DEF EmbeddingErrors
<1>4. NonLayerTensors # {}
  <2> DEFINE name == <<NoLayer, "token_embd.weight">>
  <2>1. PICK t \in index : t.name = name
    BY <1>3 DEF HasTensor
  <2>2. name[1] = NoLayer
    OBVIOUS
  <2> HIDE DEF name
  <2>3. LayerOf(t.name) = NoLayer
    BY <2>1, <2>2 DEF LayerOf
  <2>4. QED
    BY <2>1, <2>3 DEF NonLayerTensors, LayerTensors
<1> HIDE DEF NonLayerTensors
<1>5. Config.blocks \in Nat /\ Config.nLayer \in Nat \ {0} /\ Config.nLayer <= Config.blocks /\ Config.mtp = Config.nLayer .. Config.blocks - 1
  BY <1>1, BlockCounts
<1>6. \A l \in 0 .. Config.blocks - 1 : LayerTensors(l) # {}
  BY <1>2, <1>5, BlockErrorsType
<1>7. QED
  BY <1>4, <1>5, <1>6 DEF BlocksOf

-----------------------------------------------------------------------------
(* The inductive invariant of the load.                                    *)

Deciding == {"resident", "search", "planned", "accepted", "refused"}
Loading  == {"accepted", "mtp", "tier 1", "tier 2", "loaded", "ready"}

\* The layer whose range an arena holds, and the arena of a layer's range.
LayerAt(id) == IF id.kind = "non-layer" THEN NoLayer ELSE id.i
ArenaAt(l)  == [bytes |-> ArenaBytes(BlockRange(l)[2] - BlockRange(l)[1]), from |-> ReadStart(BlockRange(l)),
                got |-> Filled(BlockRange(l))]

\* Every arena holds the read of its layer; the slots are as long as planned.
ArenasOk ==
  \A id \in DOMAIN buffers :
    IF id.kind = "slot" THEN buffers[id].bytes = slotBytes
    ELSE LayerTensors(LayerAt(id)) # {} /\ buffers[id] = ArenaAt(LayerAt(id))

\* Every view is into a buffer that is there, of the layer that buffer is for.
ViewsOk ==
  \A v \in views :
    /\ v.id \in DOMAIN buffers /\ ViewIn(v, v.layer, v.id, ReadStart(BlockRange(v.layer)))
    /\ IF v.id.kind = "slot" THEN v.layer \in pinned .. NLayer - 1 ELSE v.layer = LayerAt(v.id)

\* What the planner was given.
SpansOfBlocks == span = [l \in 0 .. config.nLayer - 1 |-> BlockRange(l)] /\ slots \in Nat \ {0}

\* What it decided: a slot holds every streamed layer.
SlotRoom ==
  /\ pinned \in 0 .. config.nLayer
  /\ pinned < config.nLayer =>
       nSlots \in Nat \ {0} /\ slotBytes \in Int /\ \A l \in pinned .. config.nLayer - 1 : ReadBytes(span[l]) <= slotBytes

\* How far the load has come.
AtBlock ==
  /\ phase = "mtp" => next \in Nat /\ config.nLayer <= next
  /\ phase = "tier 1" => next \in 0 .. pinned
  /\ phase = "tier 2" =>
       /\ next \in pinned .. config.nLayer /\ pinned < config.nLayer
       /\ \A s \in 0 .. nSlots - 1 : [kind |-> "slot", i |-> s] \in DOMAIN buffers

Searching ==
  phase \in Deciding => k \in -1 .. config.nLayer /\ (phase = "search" => k < config.nLayer)

Progress ==
  /\ phase \in {"file", "config"} \cup Deciding \cup Loading
  /\ phase # "file" => BlocksOf(config)
  /\ phase \notin {"file", "config"} => SpansOfBlocks /\ NLayer = config.nLayer
  /\ phase \in {"file", "config"} \cup Deciding => views = {} /\ buffers = <<>>
  /\ phase \in {"planned"} \cup Loading => SlotRoom
  /\ Searching /\ AtBlock /\ ArenasOk /\ ViewsOk

\* Until a file is opened there is nothing to load; a failed load keeps what it had.
LoadInv ==
  /\ HeaderInv /\ failure # "arena too small"
  /\ stage # "opened" => phase \in {"file", "failed"} /\ views = {}
  /\ IF phase = "failed" THEN ViewsHoldTheirTensor ELSE Progress

-----------------------------------------------------------------------------
(* What a step that leaves the file or the buffers alone leaves alone.     *)

LEMMA PlacesStay ==
  ASSUME UNCHANGED ggufVars
  PROVE  /\ \A l : LayerTensors(l)' = LayerTensors(l) /\ BlockRange(l)' = BlockRange(l)
         /\ \A r : Filled(r)' = Filled(r)
         /\ \A name : HasTensor(name)' = HasTensor(name) /\ Tensor(name)' = Tensor(name)
         /\ NonLayerTensors' = NonLayerTensors
<1> USE DEF ggufVars
<1>1. ASSUME NEW l PROVE LayerTensors(l)' = LayerTensors(l)
  BY DEF LayerTensors
<1>2. ASSUME NEW l PROVE BlockRange(l)' = BlockRange(l)
  BY <1>1 DEF BlockRange, LayerSpan, FirstByte, LastByte, SumSizes, TensorEnd, Alignment, Has, Kv
<1>3. ASSUME NEW r PROVE Filled(r)' = Filled(r)
  BY DEF Filled, Least
<1>4. ASSUME NEW name PROVE HasTensor(name)' = HasTensor(name) /\ Tensor(name)' = Tensor(name)
  BY DEF HasTensor, Tensor
<1>5. NonLayerTensors' = NonLayerTensors
  BY <1>1 DEF NonLayerTensors
<1>6. QED
  BY <1>1, <1>2, <1>3, <1>4, <1>5

LEMMA ArenaAtStays == ASSUME UNCHANGED ggufVars PROVE \A l : ArenaAt(l)' = ArenaAt(l)
<1> SUFFICES ASSUME NEW l PROVE ArenaAt(l)' = ArenaAt(l)
  OBVIOUS
<1>1. BlockRange(l)' = BlockRange(l)
  BY PlacesStay
<1>2. Filled(BlockRange(l))' = Filled(BlockRange(l))
  BY <1>1 DEF Filled, Least, ggufVars
<1>3. QED
  BY <1>1, <1>2 DEF ArenaAt

LEMMA ViewInStays ==
  ASSUME UNCHANGED ggufVars, NEW v, NEW l, NEW id, NEW from PROVE ViewIn(v, l, id, from)' = ViewIn(v, l, id, from)
<1>1. HasTensor(v.tensor)' = HasTensor(v.tensor) /\ Tensor(v.tensor)' = Tensor(v.tensor) /\ LayerTensors(l)' = LayerTensors(l)
  BY PlacesStay
<1>2. QED
  BY <1>1 DEF ViewIn

LEMMA BlocksStay == ASSUME UNCHANGED ggufVars, UNCHANGED config PROVE BlocksOf(config)' = BlocksOf(config)
<1>1. \A l : LayerTensors(l)' = LayerTensors(l)
  BY PlacesStay
<1>2. NonLayerTensors' = NonLayerTensors
  BY PlacesStay
<1>3. QED
  BY <1>1, <1>2 DEF BlocksOf

LEMMA SpansStay ==
  ASSUME UNCHANGED ggufVars, UNCHANGED <<config, span, slots>>
  PROVE  SpansOfBlocks' = SpansOfBlocks /\ NLayer' = NLayer
<1>1. \A l : BlockRange(l)' = BlockRange(l)
  BY PlacesStay
<1>2. SpansOfBlocks' = SpansOfBlocks
  BY <1>1 DEF SpansOfBlocks
<1>3. NLayer' = NLayer
  BY DEF NLayer, Layers
<1>4. QED
  BY <1>2, <1>3

LEMMA BuffersStay ==
  ASSUME UNCHANGED ggufVars, UNCHANGED <<span, pinned, slotBytes, buffers, views>>
  PROVE  ArenasOk' = ArenasOk /\ ViewsOk' = ViewsOk
<1>1. ArenasOk' = ArenasOk
  <2>1. \A l : ArenaAt(l)' = ArenaAt(l)
    BY ArenaAtStays
  <2>2. \A l : LayerTensors(l)' = LayerTensors(l)
    BY PlacesStay
  <2>3. QED
    BY <2>1, <2>2 DEF ArenasOk
<1>2. ViewsOk' = ViewsOk
  <2>1. \A v : BlockRange(v.layer)' = BlockRange(v.layer)
    BY PlacesStay
  <2>2. \A v : ViewIn(v, v.layer, v.id, ReadStart(BlockRange(v.layer)))' = ViewIn(v, v.layer, v.id, ReadStart(BlockRange(v.layer)))
    <3> TAKE v
    <3> DEFINE r == ReadStart(BlockRange(v.layer))
    <3>1. r' = r
      BY <2>1
    <3>2. HasTensor(v.tensor)' = HasTensor(v.tensor) /\ Tensor(v.tensor)' = Tensor(v.tensor)
      BY PlacesStay
    <3>3. LayerTensors(v.layer)' = LayerTensors(v.layer)
      BY PlacesStay
    <3> HIDE DEF r
    <3>4. ViewIn(v, v.layer, v.id, r)' = ViewIn(v, v.layer, v.id, r)
      BY <3>1, <3>2, <3>3 DEF ViewIn
    <3>5. QED
      BY <3>4 DEF r
  <2>3. NLayer' = NLayer
    BY DEF NLayer, Layers
  <2>4. QED
    BY <2>2, <2>3 DEF ViewsOk
<1>3. QED
  BY <1>1, <1>2

LEMMA SlotRoomStays == ASSUME UNCHANGED <<config, span, plan>> PROVE SlotRoom' = SlotRoom
  BY DEF SlotRoom, plan

LEMMA HeldStays ==
  ASSUME UNCHANGED ggufVars, UNCHANGED <<span, buffers, views>>, failure' # "arena too small", ViewsHoldTheirTensor
  PROVE  ViewsHoldTheirTensor'
<1>1. \A name : Tensor(name)' = Tensor(name)
  BY PlacesStay
<1>2. \A r : Filled(r)' = Filled(r)
  BY PlacesStay
<1>3. \A l : Filled(span[l])' = Filled(span[l])
  BY DEF Filled, Least, ggufVars
<1>4. QED
  BY <1>1, <1>3 DEF ViewsHoldTheirTensor

-----------------------------------------------------------------------------
(* The invariant says what is promised of the views.                       *)

\* A view lies in the part of its buffer the read of its block fills.
LEMMA ViewHeld ==
  ASSUME HeaderInv, stage = "opened", NEW v, NEW l, NEW id, ViewIn(v, l, id, ReadStart(BlockRange(l)))
  PROVE  /\ ReadStart(BlockRange(l)) + v.off = Tensor(v.tensor).abs /\ v.len = Tensor(v.tensor).size
         /\ v.off + v.len <= Filled(BlockRange(l)) /\ Filled(BlockRange(l)) <= ReadBytes(BlockRange(l))
         /\ Filled(BlockRange(l)) \in Int /\ ReadBytes(BlockRange(l)) \in Int
         /\ ReadBytes(BlockRange(l)) <= ArenaBytes(BlockRange(l)[2] - BlockRange(l)[1])
<1> DEFINE t == Tensor(v.tensor)
           R == BlockRange(l)
           a == R[1]
           b == R[2]
           x == t.abs
           s == t.size
<1>1. t \in LayerTensors(l) /\ v.off = x - ReadStart(R) /\ v.len = s
  BY DEF ViewIn
<1>2. x \in Nat /\ s \in Nat /\ file.size \in Nat
  BY <1>1, IndexTensors DEF LayerTensors
<1>3. R \in Nat \X Nat /\ a <= b /\ b <= file.size
  BY <1>1, BlockPlace
<1>4. a <= x /\ x + s <= b
  BY <1>1, BlockPlace
<1> HIDE DEF R, x, s, t
<1>5. R = <<a, b>> /\ a \in Nat /\ b \in Nat
  BY <1>3
<1> HIDE DEF a, b
<1>6. /\ ReadStart(<<a, b>>) \in Nat /\ (x - ReadStart(<<a, b>>)) + s <= Filled(<<a, b>>)
      /\ Filled(<<a, b>>) <= ReadBytes(<<a, b>>) /\ Filled(<<a, b>>) \in Int /\ ReadBytes(<<a, b>>) \in Int
  BY <1>2, <1>3, <1>4, <1>5, ReadHolds
<1>7. b - a \in Nat
  BY <1>3, <1>5
<1>8. ReadBytes(<<a, b>>) <= ArenaBytes(b - a)
  BY <1>3, <1>5, <1>7, ReadFitsArena
<1>9. ReadStart(R) + v.off = x
  BY <1>1, <1>2, <1>5, <1>6
<1>10. v.off + v.len <= Filled(R)
  BY <1>1, <1>5, <1>6
<1>11. Filled(R) <= ReadBytes(R) /\ Filled(R) \in Int /\ ReadBytes(R) \in Int /\ ReadBytes(R) <= ArenaBytes(b - a)
  BY <1>5, <1>6, <1>8
<1>12. QED
  BY <1>1, <1>9, <1>10, <1>11 DEF R, t, x, s, a, b

LEMMA SpanOfLayer ==
  ASSUME SpansOfBlocks, NLayer = config.nLayer, NEW l \in 0 .. NLayer - 1 PROVE span[l] = BlockRange(l)
  BY DEF SpansOfBlocks

LEMMA ArenaBytesInt == ASSUME NEW n \in Nat PROVE ArenaBytes(n) \in Int
<1>1. Sector \in Nat \ {0} /\ n + Sector - 1 \in Nat
  BY PlanAssumption
<1>2. PICK q \in Nat : AlignDown(n + Sector - 1) = q * Sector
  BY <1>1, AlignFacts
<1>3. q * Sector \in Nat
  BY <1>1
<1>4. QED
  BY <1>1, <1>2, <1>3 DEF ArenaBytes, AlignUp

LEMMA BlockLength == ASSUME HeaderInv, stage = "opened", NEW l, LayerTensors(l) # {}
                     PROVE  BlockRange(l)[2] - BlockRange(l)[1] \in Nat
<1>1. BlockRange(l)[1] \in Nat /\ BlockRange(l)[2] \in Nat /\ BlockRange(l)[1] <= BlockRange(l)[2]
  BY BlockPlace
<1>2. QED
  BY <1>1

LEMMA Transitive == \A x, y, z \in Int : x <= y /\ y <= z => x <= z
  OBVIOUS

LEMMA SlotLayer ==
  ASSUME SlotRoom, NLayer = config.nLayer, config.nLayer \in Nat, NEW l \in pinned .. NLayer - 1
  PROVE  /\ l \in 0 .. NLayer - 1 /\ slotBytes \in Int /\ ReadBytes(span[l]) <= slotBytes
         /\ nSlots \in Nat \ {0}
<1>1. pinned \in 0 .. config.nLayer
  BY DEF SlotRoom
<1>2. l \in 0 .. NLayer - 1 /\ pinned < config.nLayer /\ l \in pinned .. config.nLayer - 1
  BY <1>1
<1>3. QED
  BY <1>2 DEF SlotRoom

LEMMA ViewsHeld ==
  ASSUME HeaderInv, stage = "opened", failure # "arena too small", config.nLayer \in Nat,
         SpansOfBlocks, NLayer = config.nLayer, SlotRoom, ArenasOk, ViewsOk
  PROVE  ViewsHoldTheirTensor
<1> SUFFICES ASSUME NEW v \in views
             PROVE  LET t    == Tensor(v.tensor)
                        slot == v.id.kind = "slot"
                        from == IF slot THEN ReadStart(span[v.layer]) ELSE buffers[v.id].from
                        got  == IF slot THEN Filled(span[v.layer]) ELSE buffers[v.id].got
                    IN  /\ from + v.off = t.abs /\ v.len = t.size
                        /\ v.off + v.len <= got /\ got <= buffers[v.id].bytes
  BY DEF ViewsHoldTheirTensor
<1> DEFINE l == v.layer
           R == BlockRange(l)
           n == R[2] - R[1]
<1>1. v.id \in DOMAIN buffers /\ ViewIn(v, l, v.id, ReadStart(R))
  BY DEF ViewsOk
<1>2. /\ ReadStart(R) + v.off = Tensor(v.tensor).abs /\ v.len = Tensor(v.tensor).size
      /\ v.off + v.len <= Filled(R) /\ Filled(R) <= ReadBytes(R)
      /\ Filled(R) \in Int /\ ReadBytes(R) \in Int /\ ReadBytes(R) <= ArenaBytes(n)
  BY <1>1, ViewHeld
<1>3. CASE v.id.kind = "slot"
  <2>1. l \in pinned .. NLayer - 1 /\ buffers[v.id].bytes = slotBytes
    BY <1>1, <1>3 DEF ViewsOk, ArenasOk
  <2>2. l \in 0 .. NLayer - 1 /\ slotBytes \in Int /\ ReadBytes(span[l]) <= slotBytes
    BY <2>1, SlotLayer
  <2>3. span[l] = R
    BY <2>2, SpanOfLayer
  <2> HIDE DEF l, R
  <2>4. ReadBytes(R) <= slotBytes
    BY <2>2, <2>3
  <2>5. Filled(R) <= slotBytes
    BY <1>2, <2>2, <2>4, Transitive
  <2>6. QED
    BY <1>2, <1>3, <2>1, <2>3, <2>5 DEF l
<1>4. CASE v.id.kind # "slot"
  <2>1. buffers[v.id] = ArenaAt(l)
    BY <1>1, <1>4 DEF ViewsOk, ArenasOk
  <2>2. /\ buffers[v.id].bytes = ArenaBytes(n) /\ buffers[v.id].from = ReadStart(R)
        /\ buffers[v.id].got = Filled(R)
    <3>1. ArenaAt(l) = [bytes |-> ArenaBytes(n), from |-> ReadStart(R), got |-> Filled(R)]
      BY DEF ArenaAt
    <3> DEFINE b == buffers[v.id]
               x == ArenaBytes(n)
               y == ReadStart(R)
               z == Filled(R)
    <3>2. b = [bytes |-> x, from |-> y, got |-> z]
      BY <2>1, <3>1
    <3> HIDE DEF b, x, y, z
    <3>3. b.bytes = x /\ b.from = y /\ b.got = z
      BY <3>2
    <3>4. QED
      BY <3>3 DEF b, x, y, z
  <2>3. n \in Nat
    BY <1>1, BlockLength DEF ViewIn
  <2> HIDE DEF l, R, n
  <2>4. ArenaBytes(n) \in Int
    BY <2>3, ArenaBytesInt
  <2>5. Filled(R) <= ArenaBytes(n)
    BY <1>2, <2>4, Transitive
  <2>6. QED
    BY <1>2, <1>4, <2>2, <2>5
<1>5. QED
  BY <1>3, <1>4

-----------------------------------------------------------------------------
(* The steps up to an accepted plan.                                       *)

LEMMA NoBuffers == ASSUME buffers = <<>>, views = {} PROVE ArenasOk /\ ViewsOk
<1>1. DOMAIN buffers = {}
  OBVIOUS
<1>2. QED
  BY <1>1 DEF ArenasOk, ViewsOk

LEMMA StillNoBuffers == ASSUME buffers' = <<>>, views' = {} PROVE ArenasOk' /\ ViewsOk'
<1>1. DOMAIN buffers' = {}
  OBVIOUS
<1>2. QED
  BY <1>1 DEF ArenasOk, ViewsOk

LEMMA OpenedIsOver == stage = "opened" => ~Open
  BY DEF Open, StartRefill, OsRead, OsReadNothing, Take, HeaderRead, BuildIndex, Parsing

LEMMA LoadInvHolds == LoadInv => ViewsHoldTheirTensor
<1> SUFFICES ASSUME LoadInv, phase # "failed" PROVE ViewsHoldTheirTensor
  BY DEF LoadInv
<1>1. failure # "arena too small" /\ Progress /\ HeaderInv
  BY DEF LoadInv
<1>2. CASE views = {}
  BY <1>1, <1>2 DEF ViewsHoldTheirTensor
<1>3. CASE views # {}
  <2>1. phase \in Loading /\ phase \notin {"file", "config"} /\ stage = "opened"
    BY <1>1, <1>3 DEF Progress, LoadInv
  <2>2. BlocksOf(config) /\ SpansOfBlocks /\ NLayer = config.nLayer /\ SlotRoom /\ ArenasOk /\ ViewsOk
    BY <1>1, <2>1 DEF Progress
  <2>3. config.nLayer \in Nat
    BY <2>2 DEF BlocksOf
  <2>4. QED
    BY <1>1, <2>1, <2>2, <2>3, ViewsHeld
<1>4. QED
  BY <1>2, <1>3

LEMMA LoadInvInit == Init => LoadInv
<1> SUFFICES ASSUME Init PROVE LoadInv
  OBVIOUS
<1>1. HeaderInv
  BY HeaderInvInit DEF Init
<1>2. views = {} /\ buffers = <<>> /\ phase = "file" /\ failure = ""
  BY DEF Init
<1>3. ArenasOk /\ ViewsOk
  BY <1>2, NoBuffers
<1>4. Searching /\ AtBlock
  BY <1>2 DEF Searching, AtBlock, Deciding
<1>5. Progress
  BY <1>2, <1>3, <1>4 DEF Progress, Deciding, Loading
<1>6. QED
  BY <1>1, <1>2, <1>5 DEF LoadInv

\* A step of reading the header.
LEMMA ReadHeaderStep == LoadInv /\ ReadHeader => LoadInv'
<1> SUFFICES ASSUME LoadInv, ReadHeader PROVE LoadInv'
  OBVIOUS
<1>1. HeaderInv' /\ stage # "opened"
  BY OpenStep, OpenedIsOver DEF LoadInv, ReadHeader
<1>2. /\ phase \in {"file", "failed"} /\ views = {} /\ failure # "arena too small"
      /\ phase' = phase /\ views' = {} /\ failure' = failure /\ buffers' = buffers
  BY <1>1 DEF LoadInv, ReadHeader, planVars, loadVars
<1>3. ViewsHoldTheirTensor'
  BY <1>2 DEF ViewsHoldTheirTensor
<1>4. phase # "failed" => Progress'
  <2> SUFFICES ASSUME phase = "file" PROVE Progress'
    BY <1>2
  <2>1. buffers = <<>>
    BY DEF LoadInv, Progress
  <2>2. buffers' = <<>> /\ phase' = "file"
    BY <1>2, <2>1
  <2>3. ArenasOk' /\ ViewsOk'
    BY <1>2, <2>2, StillNoBuffers
  <2>4. Searching' /\ AtBlock'
    BY <2>2 DEF Searching, AtBlock, Deciding
  <2>5. QED
    BY <1>2, <2>2, <2>3, <2>4 DEF Progress, Deciding, Loading
<1>5. QED
  BY <1>1, <1>2, <1>3, <1>4 DEF LoadInv

\* A load that fails keeps what it had.
LEMMA FailStep ==
  ASSUME LoadInv, UNCHANGED ggufVars, UNCHANGED <<span, buffers, views>>, phase' = "failed",
         failure' # "arena too small"
  PROVE  LoadInv'
<1>1. HeaderInv'
  BY OpenStays DEF LoadInv
<1>2. ViewsHoldTheirTensor'
  BY HeldStays, LoadInvHolds
<1>3. stage' # "opened" => views' = {}
  BY DEF LoadInv, ggufVars
<1>4. QED
  BY <1>1, <1>2, <1>3 DEF LoadInv

LEMMA OpenFailsStep == LoadInv /\ OpenFails => LoadInv'
<1> SUFFICES ASSUME LoadInv, OpenFails PROVE LoadInv'
  OBVIOUS
<1>1. stage # "arena too small"
  BY DEF LoadInv, HeaderInv, ReaderType, Stages, HeaderFaults, OpenFaults
<1>2. QED
  BY <1>1, FailStep DEF OpenFails, Fail, input

LEMMA ConfigFailsStep == LoadInv /\ ConfigFails => LoadInv'
<1> SUFFICES ASSUME LoadInv, ConfigFails PROVE LoadInv'
  OBVIOUS
<1>1. ConfigError \in ConfigErrors
  BY ConfigErrorType DEF LoadInv, HeaderInv, ReaderType
<1>2. ConfigError # "arena too small"
  BY <1>1 DEF ConfigErrors
<1>3. QED
  BY <1>2, FailStep DEF ConfigFails, Fail, input

LEMMA DriveFailedStep == LoadInv /\ DriveFailed => LoadInv'
  BY FailStep DEF DriveFailed, Fail, LoadFrame, input

\* An opened file stays opened, and with it the invariant, when the load goes on.
LEMMA KeptByStep ==
  ASSUME LoadInv, stage = "opened", UNCHANGED ggufVars, failure' = failure, phase' # "failed", Progress'
  PROVE  LoadInv'
<1>1. HeaderInv'
  BY OpenStays DEF LoadInv
<1>2. stage' = "opened" /\ failure' # "arena too small"
  BY DEF ggufVars, LoadInv
<1>3. QED
  BY <1>1, <1>2 DEF LoadInv

LEMMA ConfigAcceptedStep == LoadInv /\ ConfigAccepted => LoadInv'
<1> SUFFICES ASSUME LoadInv, ConfigAccepted PROVE LoadInv'
  OBVIOUS
<1> USE DEF ConfigAccepted
<1>1. BlocksOf(Config)
  BY AcceptedBlocks DEF LoadInv, HeaderInv, ReaderType
<1>2. views = {} /\ buffers = <<>> /\ views' = {} /\ buffers' = <<>> /\ phase' = "config"
  BY DEF LoadInv, Progress
<1>5. BlocksOf(config)'
  <2>1. config' = Config
    OBVIOUS
  <2>2. LayerTensors(NoLayer)' = LayerTensors(NoLayer) /\ NonLayerTensors' = NonLayerTensors /\ \A l : LayerTensors(l)' = LayerTensors(l)
    BY PlacesStay
  <2>3. QED
    BY <1>1, <2>1, <2>2 DEF BlocksOf
<1>6. ArenasOk' /\ ViewsOk' /\ Searching' /\ AtBlock'
  BY <1>2, StillNoBuffers DEF Searching, AtBlock, Deciding
<1>7. Progress'
  BY <1>2, <1>5, <1>6 DEF Progress, Deciding, Loading
<1>8. QED
  BY <1>2, <1>7, KeptByStep

LEMMA RangeCount == \A n \in Nat : Cardinality(0 .. n - 1) = n /\ IsFiniteSet(0 .. n - 1)
<1>1. \A x, y \in Int : IsFiniteSet(x .. y) /\ Cardinality(x .. y) = IF x > y THEN 0 ELSE y - x + 1
  BY FS_Interval
<1>2. QED
  BY <1>1

LEMMA MakePlanInputStep == LoadInv /\ MakePlanInput => LoadInv'
<1> SUFFICES ASSUME LoadInv, MakePlanInput PROVE LoadInv'
  OBVIOUS
<1> USE DEF MakePlanInput
<1>1. /\ stage = "opened" /\ phase = "config" /\ BlocksOf(config) /\ views = {} /\ buffers = <<>>
      /\ views' = {} /\ buffers' = <<>> /\ phase' = "resident" /\ config' = config
  BY DEF LoadInv, Progress
<1>3. BlocksOf(config)'
  BY <1>1, BlocksStay
<1>4. SpansOfBlocks'
  <2>1. \A l : BlockRange(l)' = BlockRange(l)
    BY PlacesStay
  <2>2. slots' \in Nat \ {0}
    BY PlanAssumption
  <2>3. QED
    BY <1>1, <2>1, <2>2 DEF SpansOfBlocks
<1>5. NLayer' = config'.nLayer
  <2>1. config.nLayer \in Nat
    BY <1>1 DEF BlocksOf
  <2>2. DOMAIN span' = 0 .. config.nLayer - 1
    OBVIOUS
  <2>3. QED
    BY <1>1, <2>1, <2>2, RangeCount DEF NLayer, Layers
<1>6. Searching'
  <2> DEFINE n == config.nLayer
  <2>1. n \in Nat /\ config'.nLayer = n /\ k' = n
    BY <1>1 DEF BlocksOf
  <2> HIDE DEF n
  <2>2. k' \in -1 .. n
    BY <2>1
  <2>3. QED
    BY <1>1, <2>1, <2>2 DEF Searching
<1>7. AtBlock' /\ ArenasOk' /\ ViewsOk'
  BY <1>1, StillNoBuffers DEF AtBlock
<1>8. Progress'
  BY <1>1, <1>3, <1>4, <1>5, <1>6, <1>7 DEF Progress, Deciding, Loading
<1>9. QED
  BY <1>1, <1>8, KeptByStep

LEMMA SpansAreOk ==
  ASSUME HeaderInv, stage = "opened", BlocksOf(config), SpansOfBlocks, NLayer = config.nLayer
  PROVE  SpansOk
<1> DEFINE n == config.nLayer
<1>1. NLayer \in Nat \ {0} /\ n <= config.blocks /\ config.blocks \in Nat /\ n \in Nat
  BY DEF BlocksOf
<1>2. span = [l \in 0 .. n - 1 |-> BlockRange(l)] /\ Layers = 0 .. n - 1
  BY DEF SpansOfBlocks, Layers
<1>3. ASSUME NEW l \in 0 .. n - 1
      PROVE  BlockRange(l) \in Nat \X Nat /\ BlockRange(l)[1] <= BlockRange(l)[2]
  <2>1. l \in 0 .. config.blocks - 1
    BY <1>1
  <2>2. LayerTensors(l) # {}
    BY <2>1 DEF BlocksOf
  <2>3. QED
    BY <2>2, BlockPlace
<1> HIDE DEF n
<1>4. NLayer = n
  BY DEF n
<1>5. QED
  BY <1>1, <1>2, <1>3, <1>4 DEF SpansOk

\* A step of the planner leaves all else alone.
LEMMA PlannerStep ==
  ASSUME LoadInv, phase \in Deciding, UNCHANGED ggufVars, UNCHANGED loadVars, UNCHANGED input,
         phase' \in Deciding, Searching', phase' \in {"planned", "accepted"} => SlotRoom'
  PROVE  LoadInv'
<1> USE DEF loadVars, input
<1>1. /\ stage = "opened" /\ Progress /\ failure # "arena too small"
      /\ phase \notin {"file", "config", "failed"} /\ phase' \notin {"file", "config", "failed"}
  BY DEF LoadInv, Deciding
<1>2. views = {} /\ buffers = <<>> /\ BlocksOf(config) /\ SpansOfBlocks /\ NLayer = config.nLayer
  BY <1>1 DEF Progress
<1>3. views' = {} /\ buffers' = <<>>
  BY <1>2
<1>5. BlocksOf(config)' /\ SpansOfBlocks' /\ NLayer' = config'.nLayer
  BY <1>2, BlocksStay, SpansStay
<1>6. ArenasOk' /\ ViewsOk'
  BY <1>3, StillNoBuffers
<1>7. AtBlock'
  BY DEF AtBlock, Deciding
<1>8. phase' \in {"planned"} \cup Loading => SlotRoom'
  BY DEF Deciding, Loading
<1>9. Progress'
  BY <1>1, <1>3, <1>5, <1>6, <1>7, <1>8 DEF Progress
<1>10. QED
  BY <1>1, <1>9, KeptByStep

LEMMA MakePlanStep == LoadInv /\ MakePlan => LoadInv'
<1> SUFFICES ASSUME LoadInv, MakePlan PROVE LoadInv'
  OBVIOUS
<1>1. /\ UNCHANGED ggufVars /\ UNCHANGED loadVars /\ UNCHANGED input /\ config' = config
      /\ phase \in Deciding /\ phase' \in Deciding
  BY DEF MakePlan, PlanNext, Compute, EverythingResident, StartSearch, TakeK, SkipK, NothingFits, Check,
         Deciding, loadVars
<1>2. /\ stage = "opened" /\ Searching /\ BlocksOf(config) /\ SpansOfBlocks /\ NLayer = config.nLayer
      /\ HeaderInv
  BY <1>1 DEF LoadInv, Progress, Deciding
<1> DEFINE n == config.nLayer
<1>3. n \in Nat \ {0} /\ NLayer = n /\ config'.nLayer = n /\ k \in -1 .. n /\ (phase = "search" => k < n)
  BY <1>1, <1>2 DEF BlocksOf, Searching
<1>4. SpansOk
  BY <1>2, SpansAreOk
<1>5. slots \in Nat \ {0} /\ span' = span
  BY <1>1, <1>2 DEF SpansOfBlocks, input
<1> HIDE DEF n
<1>6. ASSUME NEW m \in 0 .. n - 1, pinned' = m, nSlots' = slots, slotBytes' = SlotFor(m) PROVE SlotRoom'
  <2>1. SlotFor(m) = ArenaBytes(LargestFrom(m)) /\ \A l \in m .. n - 1 : ReadBytes(span[l]) <= SlotFor(m)
    BY <1>3, <1>4, SlotHoldsSuffix
  <2>2. SlotFor(m) \in Int
    <3>1. LargestFrom(m) \in Nat
      BY <1>3, <1>4, LargestOfSuffix
    <3>2. QED
      BY <2>1, <3>1, ArenaBytesInt
  <2>3. m \in 0 .. n
    BY <1>3
  <2>4. QED
    BY <1>3, <1>5, <1>6, <2>1, <2>2, <2>3 DEF SlotRoom
<1>7. ASSUME pinned' = n PROVE SlotRoom'
  <2>1. n \in 0 .. n /\ ~(n < n)
    BY <1>3
  <2>2. QED
    BY <1>3, <1>7, <2>1 DEF SlotRoom
<1>8. ASSUME k' \in -1 .. n, phase' = "search" => k' < n PROVE Searching'
  BY <1>3, <1>8 DEF Searching
<1>9. CASE EverythingResident
  BY <1>1, <1>3, <1>7, <1>8, <1>9, PlannerStep DEF EverythingResident
<1>10. CASE StartSearch
  <2>1. n - 1 \in -1 .. n /\ n - 1 < n
    BY <1>3
  <2>2. QED
    BY <1>1, <1>3, <1>8, <1>10, <2>1, PlannerStep DEF StartSearch
<1>11. CASE TakeK
  <2>1. k \in 0 .. n - 1
    BY <1>3, <1>11 DEF TakeK
  <2>2. SlotRoom'
    BY <1>6, <1>11, <2>1 DEF TakeK
  <2>3. QED
    BY <1>1, <1>3, <1>8, <1>11, <2>2, PlannerStep DEF TakeK
<1>12. CASE SkipK
  <2>1. k - 1 \in -1 .. n /\ k - 1 < n
    BY <1>3, <1>12 DEF SkipK
  <2>2. QED
    BY <1>1, <1>8, <1>12, <2>1, PlannerStep DEF SkipK
<1>13. CASE NothingFits
  <2>1. 0 \in 0 .. n - 1
    BY <1>3
  <2>2. SlotRoom'
    BY <1>6, <1>13, <2>1 DEF NothingFits
  <2>3. QED
    BY <1>1, <1>3, <1>8, <1>13, <2>2, PlannerStep DEF NothingFits
<1>14. CASE Check
  <2>1. SlotRoom
    BY <1>14 DEF LoadInv, Progress, Check
  <2>2. SlotRoom'
    BY <1>1, <1>5, <1>14, <2>1, SlotRoomStays DEF Check
  <2>3. QED
    BY <1>1, <1>3, <1>8, <1>14, <2>2, PlannerStep DEF Check
<1>15. QED
  BY <1>9, <1>10, <1>11, <1>12, <1>13, <1>14 DEF MakePlan, PlanNext, Compute

LEMMA NotAbove == \A x, y \in Int : x <= y => ~(x > y)
  OBVIOUS

LEMMA ReadIsInt == ASSUME NEW a \in Nat, NEW b \in Nat PROVE ReadBytes(<<a, b>>) \in Int
<1>1. Sector \in Nat \ {0} /\ b + Sector - 1 \in Nat
  BY PlanAssumption
<1>2. PICK q \in Nat : AlignDown(b + Sector - 1) = q * Sector
  BY <1>1, AlignFacts
<1>3. PICK p \in Nat : AlignDown(a) = p * Sector
  BY AlignFacts
<1>4. p * Sector \in Nat /\ q * Sector \in Nat
  BY <1>1
<1>5. QED
  BY <1>2, <1>3, <1>4 DEF ReadBytes, AlignUp

LEMMA MtpBlock ==
  ASSUME BlocksOf(config), NEW n \in config.mtp
  PROVE  n \in Nat /\ n + 1 \in Nat /\ config.nLayer <= n + 1 /\ n \in 0 .. config.blocks - 1
<1>1. config.blocks \in Nat /\ config.nLayer \in Nat /\ n \in config.nLayer .. config.blocks - 1
  BY DEF BlocksOf
<1>2. QED
  BY <1>1

LEMMA PinnedLayer ==
  ASSUME BlocksOf(config), NLayer = config.nLayer, pinned \in 0 .. config.nLayer, NEW n \in 0 .. pinned, n < pinned
  PROVE  n + 1 \in 0 .. pinned /\ n \in 0 .. NLayer - 1 /\ n \in 0 .. config.blocks - 1
<1>1. config.blocks \in Nat /\ config.nLayer \in Nat /\ config.nLayer <= config.blocks
  BY DEF BlocksOf
<1>2. QED
  BY <1>1

LEMMA AtPinned ==
  \A n \in Nat : \A p \in 0 .. n : p \in p .. n
  OBVIOUS

LEMMA SlotIndex == \A x \in Nat, n \in Nat \ {0} : x % n \in 0 .. n - 1
  OBVIOUS

LEMMA SpanReadInt ==
  ASSUME LoadInv, phase \in Loading, NEW l \in 0 .. NLayer - 1 PROVE ReadBytes(span[l]) \in Int
<1>1. HeaderInv /\ stage = "opened" /\ BlocksOf(config) /\ SpansOfBlocks /\ NLayer = config.nLayer
  BY DEF LoadInv, Progress, Loading
<1>2. SpansOk
  BY <1>1, SpansAreOk
<1>3. span[l] \in Nat \X Nat
  BY <1>2 DEF SpansOk
<1>4. span[l] = <<span[l][1], span[l][2]>> /\ span[l][1] \in Nat /\ span[l][2] \in Nat
  BY <1>3
<1>5. ReadBytes(<<span[l][1], span[l][2]>>) \in Int
  BY <1>4, ReadIsInt
<1>6. QED
  BY <1>4, <1>5

-----------------------------------------------------------------------------
(* The steps of loading.                                                   *)

Filling == {"mtp", "tier 1", "tier 2", "loaded", "ready"}

LEMMA LoadGoesOn ==
  ASSUME LoadInv, phase \in Loading, LoadFrame, failure' = failure, phase' \in Filling, AtBlock', ArenasOk', ViewsOk'
  PROVE  LoadInv'
<1>1. /\ stage = "opened" /\ Progress /\ phase \notin {"file", "config", "failed"}
      /\ UNCHANGED ggufVars /\ UNCHANGED config /\ UNCHANGED <<config, span, slots>> /\ UNCHANGED <<config, span, plan>>
  BY DEF LoadInv, Loading, LoadFrame, input
<1>2. BlocksOf(config) /\ SpansOfBlocks /\ NLayer = config.nLayer /\ SlotRoom
  BY <1>1 DEF Progress
<1>3. BlocksOf(config)'
  BY <1>1, <1>2, BlocksStay
<1>4. SpansOfBlocks' /\ NLayer' = config'.nLayer
  BY <1>1, <1>2, SpansStay
<1>5. SlotRoom'
  BY <1>1, <1>2, SlotRoomStays
<1>6. phase' \notin {"file", "config", "failed"} \cup Deciding /\ phase' \in Loading
  BY DEF Filling, Deciding, Loading
<1>7. Searching'
  BY <1>6 DEF Searching
<1>8. Progress'
  BY <1>3, <1>4, <1>5, <1>6, <1>7 DEF Progress
<1>9. QED
  BY <1>1, <1>6, <1>8, KeptByStep

\* What every step of loading finds.
LEMMA LoadingFacts ==
  ASSUME LoadInv, phase \in Loading
  PROVE  /\ HeaderInv /\ stage = "opened" /\ BlocksOf(config) /\ SpansOfBlocks /\ NLayer = config.nLayer
         /\ SlotRoom /\ ArenasOk /\ ViewsOk /\ AtBlock /\ failure # "arena too small"
<1>1. Progress /\ phase \notin {"file", "config", "failed"} /\ stage = "opened" /\ HeaderInv /\ failure # "arena too small"
  BY DEF LoadInv, Loading
<1>2. QED
  BY <1>1 DEF Progress

\* A view stays what it is while its buffer stays what it is.
LEMMA ViewStays ==
  ASSUME UNCHANGED ggufVars, NEW v, NEW id, ViewIn(v, v.layer, id, ReadStart(BlockRange(v.layer)))
  PROVE  ViewIn(v, v.layer, id, ReadStart(BlockRange(v.layer)))'
<1> DEFINE r == ReadStart(BlockRange(v.layer))
<1>1. r' = r
  BY PlacesStay
<1>2. HasTensor(v.tensor)' = HasTensor(v.tensor) /\ Tensor(v.tensor)' = Tensor(v.tensor)
  BY PlacesStay
<1>3. LayerTensors(v.layer)' = LayerTensors(v.layer)
  BY PlacesStay
<1> HIDE DEF r
<1>4. ViewIn(v, v.layer, id, r)' = ViewIn(v, v.layer, id, r)
  BY <1>1, <1>2, <1>3 DEF ViewIn
<1>5. QED
  BY <1>4 DEF r

\* The arena of a layer holds the read of its range.
LEMMA ArenaHoldsRead ==
  ASSUME HeaderInv, stage = "opened", NEW l, LayerTensors(l) # {}
  PROVE  /\ ReadBytes(BlockRange(l)) <= ArenaBytes(BlockRange(l)[2] - BlockRange(l)[1])
         /\ ReadBytes(BlockRange(l)) \in Int /\ ArenaBytes(BlockRange(l)[2] - BlockRange(l)[1]) \in Int
<1> DEFINE R == BlockRange(l)
<1>1. R \in Nat \X Nat /\ R[1] <= R[2]
  BY BlockPlace
<1>2. R[2] - R[1] \in Nat
  BY BlockLength
<1> HIDE DEF R
<1>3. R = <<R[1], R[2]>> /\ R[1] \in Nat /\ R[2] \in Nat
  BY <1>1
<1>4. ArenaBytes(R[2] - R[1]) \in Int
  BY <1>2, ArenaBytesInt
<1>5. ReadBytes(<<R[1], R[2]>>) <= ArenaBytes(R[2] - R[1])
  BY <1>1, <1>2, <1>3, ReadFitsArena
<1>6. ReadBytes(<<R[1], R[2]>>) \in Int
  BY <1>3, ReadIsInt
<1>7. QED
  BY <1>3, <1>4, <1>5, <1>6 DEF R

\* load_arena: an arena of its own for what is read of a layer.
LEMMA LoadArenaStep ==
  ASSUME LoadInv, phase \in {"accepted", "mtp", "tier 1"}, LoadFrame,
         NEW id, NEW l, NEW range, NEW list, NEW then, LoadArena(id, l, range, list, then),
         id.kind # "slot", l = LayerAt(id), LayerTensors(l) # {}, range = BlockRange(l), IsList(list),
         then.phase \in {"mtp", "tier 1"},
         then.phase = "mtp" => then.next \in Nat /\ config.nLayer <= then.next,
         then.phase = "tier 1" => then.next \in 0 .. pinned
  PROVE  LoadInv'
<1> DEFINE bytes == ArenaBytes(range[2] - range[1])
           got   == Filled(range)
           tried == LoadError(l, list, FileStart(range), bytes)
           err   == IF ReadBytes(range) > bytes THEN "arena too small"
                    ELSE IF got < HeadBytes(range) + (range[2] - range[1]) THEN "short read"
                    ELSE tried
           rec   == [bytes |-> bytes, from |-> ReadStart(range), got |-> got]
<1>0. phase \in Loading
  BY DEF Loading
<1>1. /\ HeaderInv /\ stage = "opened" /\ BlocksOf(config) /\ SpansOfBlocks /\ NLayer = config.nLayer
      /\ SlotRoom /\ ArenasOk /\ ViewsOk /\ AtBlock /\ failure # "arena too small"
  BY <1>0, LoadingFacts
<1>2. ~(ReadBytes(range) > bytes)
  <2> HIDE DEF bytes
  <2>1. ReadBytes(range) <= bytes /\ ReadBytes(range) \in Int /\ bytes \in Int
    BY <1>1, ArenaHoldsRead DEF bytes
  <2>2. QED
    BY <2>1, NotAbove
<1>3. /\ IF err # ""
         THEN Fail(err) /\ UNCHANGED <<next, buffers, views, mem>>
         ELSE /\ buffers' = With([x \in {id} |-> rec], buffers)
              /\ views' = views \cup ViewsOf(l, list, id, FileStart(range))
              /\ phase' = then.phase /\ next' = then.next /\ failure' = failure
  BY DEF LoadArena
<1>4. tried \in SourceErrors /\ tried # "arena too small"
  <2>1. tried \in SourceErrors
    BY LoadErrorFacts
  <2> HIDE DEF tried
  <2>2. QED
    BY <2>1 DEF SourceErrors
<1>5. err # "arena too small" /\ (err = "" => tried = "")
  <2> HIDE DEF tried, got, bytes
  <2>1. QED
    BY <1>2, <1>4
<1> HIDE DEF err
<1>6. CASE err # ""
  BY <1>1, <1>3, <1>5, <1>6, FailStep DEF Fail, LoadFrame, input
<1>7. CASE err = ""
  <2>1. UNCHANGED ggufVars /\ UNCHANGED <<config, span, slots>> /\ pinned' = pinned /\ slotBytes' = slotBytes /\ config' = config
    BY DEF LoadFrame, input, plan
  <2>2. rec = ArenaAt(l)
    BY DEF ArenaAt
  <2> HIDE DEF rec
  <2>3. /\ buffers' = With([x \in {id} |-> rec], buffers)
        /\ views' = views \cup ViewsOf(l, list, id, FileStart(range))
        /\ phase' = then.phase /\ next' = then.next /\ failure' = failure
    BY <1>3, <1>7
  <2>4. /\ DOMAIN buffers' = {id} \cup DOMAIN buffers /\ buffers'[id] = rec
        /\ \A j \in DOMAIN buffers : j # id => buffers'[j] = buffers[j]
    <3> DEFINE new == buffers'
    <3>1. new = With([x \in {id} |-> rec], buffers)
      BY <2>3
    <3> HIDE DEF new
    <3>2. DOMAIN new = {id} \cup DOMAIN buffers /\ new[id] = rec /\ \A j \in DOMAIN buffers : j # id => new[j] = buffers[j]
      BY <3>1 DEF With
    <3>3. QED
      BY <3>2 DEF new
  <2>5. ArenasOk'
    <3>1. ASSUME NEW j \in DOMAIN buffers', j.kind = "slot" PROVE buffers'[j].bytes = slotBytes'
      <4>1. j \in DOMAIN buffers /\ buffers'[j] = buffers[j]
        BY <2>4, <3>1
      <4>2. QED
        BY <1>1, <2>1, <3>1, <4>1 DEF ArenasOk
    <3>2. ASSUME NEW j \in DOMAIN buffers', j.kind # "slot"
          PROVE  LayerTensors(LayerAt(j))' # {} /\ buffers'[j] = ArenaAt(LayerAt(j))'
      <4>1. LayerTensors(LayerAt(j))' = LayerTensors(LayerAt(j))
        BY <2>1, PlacesStay
      <4>2. ArenaAt(LayerAt(j))' = ArenaAt(LayerAt(j))
        BY <2>1, ArenaAtStays
      <4>3. CASE j = id
        BY <2>2, <2>4, <4>1, <4>2, <4>3
      <4>4. CASE j # id
        BY <1>1, <2>4, <3>2, <4>1, <4>2, <4>4 DEF ArenasOk
      <4>5. QED
        BY <4>3, <4>4
    <3>3. QED
      BY <3>1, <3>2 DEF ArenasOk
  <2>6. NLayer' = NLayer
    BY <2>1, SpansStay
  <2>7. ASSUME NEW v \in views'
        PROVE  /\ v.id \in DOMAIN buffers' /\ ViewIn(v, v.layer, v.id, ReadStart(BlockRange(v.layer)))'
               /\ IF v.id.kind = "slot" THEN v.layer \in pinned' .. NLayer' - 1 ELSE v.layer = LayerAt(v.id)
    <3>1. CASE v \in views
      <4>1. /\ v.id \in DOMAIN buffers /\ ViewIn(v, v.layer, v.id, ReadStart(BlockRange(v.layer)))
            /\ IF v.id.kind = "slot" THEN v.layer \in pinned .. NLayer - 1 ELSE v.layer = LayerAt(v.id)
        BY <1>1, <3>1 DEF ViewsOk
      <4>2. ViewIn(v, v.layer, v.id, ReadStart(BlockRange(v.layer)))'
        BY <2>1, <4>1, ViewStays
      <4>3. QED
        BY <2>1, <2>4, <2>6, <4>1, <4>2
    <3>2. CASE v \in ViewsOf(l, list, id, FileStart(range))
      <4>1. ViewIn(v, l, id, FileStart(range))
        BY <1>5, <1>7, <3>2, ViewsMade
      <4>2. v.id = id /\ v.layer = l
        BY <4>1 DEF ViewIn
      <4>3. ViewIn(v, v.layer, v.id, ReadStart(BlockRange(v.layer)))
        BY <4>1, <4>2 DEF FileStart
      <4>4. ViewIn(v, v.layer, v.id, ReadStart(BlockRange(v.layer)))'
        BY <2>1, <4>3, ViewStays
      <4>5. QED
        BY <2>4, <4>2, <4>4
    <3>3. QED
      BY <2>3, <3>1, <3>2
  <2>8. ViewsOk'
    BY <2>7 DEF ViewsOk
  <2>9. AtBlock'
    BY <2>1, <2>3 DEF AtBlock
  <2>10. phase' \in Filling
    BY <2>3 DEF Filling
  <2>11. QED
    BY <1>0, <2>3, <2>5, <2>8, <2>9, <2>10, LoadGoesOn
<1>8. QED
  BY <1>6, <1>7

LEMMA NonLayerPlace ==
  /\ NonLayerTensors = LayerTensors(NoLayer)
  /\ NonLayerRange = <<FirstByte(LayerTensors(NoLayer)), LastByte(LayerTensors(NoLayer))>>
  BY DEF NonLayerRange, NonLayerTensors

LEMMA LoadResidentStep == LoadInv /\ LoadResident => LoadInv'
<1> SUFFICES ASSUME LoadInv, LoadResident PROVE LoadInv'
  OBVIOUS
<1>1. phase = "accepted" /\ phase \in Loading /\ LoadFrame
  BY DEF LoadResident, Loading
<1>2. /\ HeaderInv /\ stage = "opened" /\ BlocksOf(config) /\ ArenasOk /\ ViewsOk /\ config.nLayer \in Nat
      /\ SpansOfBlocks /\ NLayer = config.nLayer
  BY <1>1, LoadingFacts DEF BlocksOf
<1>3. LayerTensors(NoLayer) # {}
  BY <1>2, NonLayerPlace DEF BlocksOf
<1>4. NonLayerRange = BlockRange(NoLayer)
  BY <1>2, <1>3, BlockPlace, NonLayerPlace
<1> DEFINE list == HeadLoad(config)
<1>5. IsList(list)
  BY Lists
<1>6. CASE IsOneRegion
  <2> DEFINE id == [kind |-> "non-layer", i |-> 0]
             then == [phase |-> "mtp", next |-> config.nLayer]
  <2>1. LoadArena(id, NoLayer, NonLayerRange, list, then)
    BY <1>6 DEF LoadResident
  <2>2. id.kind # "slot" /\ NoLayer = LayerAt(id)
    BY DEF LayerAt
  <2>3. then.phase = "mtp" /\ then.next = config.nLayer
    OBVIOUS
  <2>4. config.nLayer <= config.nLayer
    BY <1>2
  <2> HIDE DEF id, then, list
  <2>5. QED
    BY <1>1, <1>2, <1>3, <1>4, <1>5, <2>1, <2>2, <2>3, <2>4, LoadArenaStep
<1>7. CASE ~IsOneRegion
  <2> DEFINE err == LoadError(NoLayer, list, NoArena, 0)
  <2>1. err \in SourceErrors
    BY <1>5, LoadErrorFacts
  <2>2. \/ Fail(err) /\ UNCHANGED <<next, buffers, views, mem>>
        \/ phase' = "mtp" /\ next' = config.nLayer /\ UNCHANGED <<buffers, views, failure>>
    BY <1>7 DEF LoadResident
  <2> HIDE DEF err
  <2>3. CASE Fail(err) /\ UNCHANGED <<next, buffers, views, mem>>
    <3>1. err # "arena too small"
      BY <2>1 DEF SourceErrors
    <3>2. QED
      BY <1>1, <2>3, <3>1, FailStep DEF Fail, LoadFrame, input
  <2>4. CASE phase' = "mtp" /\ next' = config.nLayer /\ UNCHANGED <<buffers, views, failure>>
    <3>1. ArenasOk' /\ ViewsOk'
      BY <1>1, <1>2, <2>4, BuffersStay DEF LoadFrame, input, plan
    <3>2. config' = config /\ config.nLayer <= config.nLayer
      BY <1>1, <1>2 DEF LoadFrame
    <3>3. AtBlock'
      BY <1>2, <2>4, <3>2 DEF AtBlock
    <3>4. QED
      BY <1>1, <2>4, <3>1, <3>3, LoadGoesOn DEF Filling
  <2>5. QED
    BY <2>2, <2>3, <2>4
<1>8. QED
  BY <1>6, <1>7

LEMMA LoadMtpStep == LoadInv /\ LoadMtp => LoadInv'
<1> SUFFICES ASSUME LoadInv, LoadMtp PROVE LoadInv'
  OBVIOUS
<1>1. phase = "mtp" /\ phase \in Loading /\ LoadFrame /\ next \in config.mtp
  BY DEF LoadMtp, Loading
<1>2. HeaderInv /\ stage = "opened" /\ BlocksOf(config)
  BY <1>1, LoadingFacts
<1>3. next \in Nat /\ next + 1 \in Nat /\ config.nLayer <= next + 1 /\ next \in 0 .. config.blocks - 1
  BY <1>1, <1>2, MtpBlock
<1>4. LayerTensors(next) # {}
  BY <1>2, <1>3 DEF BlocksOf
<1> DEFINE id == [kind |-> "mtp", i |-> next]
           then == [phase |-> "mtp", next |-> next + 1]
           list == IF next = config.nLayer THEN MtpLoad(config) ELSE <<>>
<1>5. LoadArena(id, next, BlockRange(next), list, then)
  BY DEF LoadMtp
<1>6. IsList(list)
  BY Lists
<1>7. id.kind # "slot" /\ next = LayerAt(id)
  BY DEF LayerAt
<1>8. then.phase = "mtp" /\ then.next = next + 1
  OBVIOUS
<1> HIDE DEF id, then, list
<1>9. QED
  BY <1>1, <1>3, <1>4, <1>5, <1>6, <1>7, <1>8, LoadArenaStep

LEMMA LoadPinnedStep == LoadInv /\ LoadPinned => LoadInv'
<1> SUFFICES ASSUME LoadInv, LoadPinned PROVE LoadInv'
  OBVIOUS
<1>1. phase = "tier 1" /\ phase \in Loading /\ LoadFrame /\ next < pinned
  BY DEF LoadPinned, Loading
<1>2. /\ HeaderInv /\ stage = "opened" /\ BlocksOf(config) /\ SpansOfBlocks /\ NLayer = config.nLayer
      /\ SlotRoom /\ next \in 0 .. pinned
  BY <1>1, LoadingFacts DEF AtBlock
<1>3. next + 1 \in 0 .. pinned /\ next \in 0 .. NLayer - 1 /\ next \in 0 .. config.blocks - 1
  BY <1>1, <1>2, PinnedLayer DEF SlotRoom
<1>4. LayerTensors(next) # {} /\ span[next] = BlockRange(next)
  BY <1>2, <1>3, SpanOfLayer DEF BlocksOf
<1> DEFINE id == [kind |-> "arena", i |-> next]
           then == [phase |-> "tier 1", next |-> next + 1]
           list == LayerLoad(config, next)
<1>5. LoadArena(id, next, span[next], list, then)
  BY DEF LoadPinned
<1>6. IsList(list)
  BY Lists
<1>7. id.kind # "slot" /\ next = LayerAt(id)
  BY DEF LayerAt
<1>8. then.phase = "tier 1" /\ then.next = next + 1
  OBVIOUS
<1> HIDE DEF id, then, list
<1>9. QED
  BY <1>1, <1>3, <1>4, <1>5, <1>6, <1>7, <1>8, LoadArenaStep

\* A step that only goes on to the next phase.
LEMMA MovesOn ==
  ASSUME LoadInv, phase \in Loading, LoadFrame, UNCHANGED <<buffers, views, failure>>, phase' \in Filling, AtBlock'
  PROVE  LoadInv'
<1>1. ArenasOk /\ ViewsOk
  BY LoadingFacts
<1>2. ArenasOk' /\ ViewsOk'
  BY <1>1, BuffersStay DEF LoadFrame, input, plan
<1>3. QED
  BY <1>2, LoadGoesOn

LEMMA MtpLoadedStep == LoadInv /\ MtpLoaded => LoadInv'
<1> SUFFICES ASSUME LoadInv, MtpLoaded PROVE LoadInv'
  OBVIOUS
<1>1. phase \in Loading /\ LoadFrame /\ phase' = "tier 1" /\ next' = 0 /\ pinned' = pinned
  BY DEF MtpLoaded, Loading, LoadFrame, plan
<1>2. 0 \in 0 .. pinned
  <2>1. pinned \in 0 .. config.nLayer /\ config.nLayer \in Nat
    BY <1>1, LoadingFacts DEF SlotRoom, BlocksOf
  <2>2. QED
    BY <2>1
<1>3. AtBlock'
  BY <1>1, <1>2 DEF AtBlock
<1>4. QED
  BY <1>1, <1>3, MovesOn DEF MtpLoaded, Filling

LEMMA LoadedStep == LoadInv /\ Loaded => LoadInv'
<1> SUFFICES ASSUME LoadInv, Loaded PROVE LoadInv'
  OBVIOUS
<1>1. phase \in Loading /\ LoadFrame /\ phase' = "loaded"
  BY DEF Loaded, Loading
<1>2. AtBlock'
  BY <1>1 DEF AtBlock
<1>3. QED
  BY <1>1, <1>2, MovesOn DEF Loaded, Filling

LEMMA NewStateStep == LoadInv /\ NewState => LoadInv'
<1> SUFFICES ASSUME LoadInv, NewState PROVE LoadInv'
  OBVIOUS
<1>1. phase \in Loading /\ LoadFrame /\ UNCHANGED <<next, buffers, views>>
  BY DEF NewState, Loading
<1>2. Fail("NoMtp") \/ (phase' = "ready" /\ failure' = failure)
  BY DEF NewState
<1>3. CASE Fail("NoMtp")
  BY <1>1, <1>3, FailStep DEF Fail, LoadFrame, input
<1>4. CASE phase' = "ready" /\ failure' = failure
  <2>1. AtBlock'
    BY <1>4 DEF AtBlock
  <2>2. QED
    BY <1>1, <1>4, <2>1, MovesOn DEF Filling
<1>5. QED
  BY <1>2, <1>3, <1>4

LEMMA NextBlock ==
  ASSUME NEW n \in Nat, NEW p \in 0 .. n, NEW x \in p .. n, x < n
  PROVE  x + 1 \in p .. n /\ x \in p .. n - 1 /\ x \in 0 .. n - 1 /\ p < n /\ x - p \in Nat
  OBVIOUS

\* Ring::start finds every slot large enough.
LEMMA StartRingStep == LoadInv /\ StartRing => LoadInv'
<1> SUFFICES ASSUME LoadInv, StartRing PROVE LoadInv'
  OBVIOUS
<1>1. phase = "tier 1" /\ phase \in Loading /\ LoadFrame /\ next = pinned /\ pinned < NLayer
  BY DEF StartRing, Loading
<1>2. BlocksOf(config) /\ NLayer = config.nLayer /\ SlotRoom /\ ArenasOk /\ ViewsOk /\ next \in 0 .. pinned
  BY <1>1, LoadingFacts DEF AtBlock
<1>3. config.nLayer \in Nat /\ pinned \in 0 .. config.nLayer
  BY <1>2 DEF BlocksOf, SlotRoom
<1>4. \A l \in pinned .. NLayer - 1 : ~(ReadBytes(span[l]) > slotBytes)
  <2> SUFFICES ASSUME NEW l \in pinned .. NLayer - 1 PROVE ~(ReadBytes(span[l]) > slotBytes)
    OBVIOUS
  <2>1. slotBytes \in Int /\ ReadBytes(span[l]) <= slotBytes /\ l \in 0 .. NLayer - 1
    BY <1>2, <1>3, SlotLayer
  <2>2. ReadBytes(span[l]) \in Int
    BY <1>1, <2>1, SpanReadInt
  <2>3. QED
    BY <2>1, <2>2, NotAbove
<1> DEFINE new == [id \in {[kind |-> "slot", i |-> s] : s \in 0 .. nSlots - 1} |-> [bytes |-> slotBytes, from |-> 0, got |-> 0]]
<1>5. buffers' = With(new, buffers) /\ phase' = "tier 2" /\ UNCHANGED <<next, views, failure>>
  BY <1>4 DEF StartRing
<1>6. UNCHANGED ggufVars /\ span' = span /\ pinned' = pinned /\ slotBytes' = slotBytes /\ nSlots' = nSlots /\ config' = config
  BY <1>1 DEF LoadFrame, input, plan
<1>7. \A s \in 0 .. nSlots - 1 : [kind |-> "slot", i |-> s] \in DOMAIN new
  OBVIOUS
<1>8. \A id \in DOMAIN new : id.kind = "slot" /\ new[id].bytes = slotBytes
  OBVIOUS
<1> HIDE DEF new
<1>9. /\ DOMAIN buffers' = DOMAIN new \cup DOMAIN buffers
      /\ \A id \in DOMAIN buffers' : buffers'[id] = IF id \in DOMAIN new THEN new[id] ELSE buffers[id]
  BY <1>5 DEF With
<1>10. ArenasOk'
  <2>1. \A l : LayerTensors(l)' = LayerTensors(l)
    BY <1>6, PlacesStay
  <2>2. \A l : ArenaAt(l)' = ArenaAt(l)
    BY <1>6, ArenaAtStays
  <2>3. ASSUME NEW id \in DOMAIN buffers', id.kind = "slot" PROVE buffers'[id].bytes = slotBytes'
    <3>1. CASE id \in DOMAIN new
      BY <1>6, <1>8, <1>9, <3>1
    <3>2. CASE id \notin DOMAIN new
      BY <1>2, <1>6, <1>9, <2>3, <3>2 DEF ArenasOk
    <3>3. QED
      BY <3>1, <3>2
  <2>4. ASSUME NEW id \in DOMAIN buffers', id.kind # "slot"
        PROVE  LayerTensors(LayerAt(id))' # {} /\ buffers'[id] = ArenaAt(LayerAt(id))'
    <3>1. id \notin DOMAIN new /\ id \in DOMAIN buffers /\ buffers'[id] = buffers[id]
      BY <1>8, <1>9, <2>4
    <3>2. LayerTensors(LayerAt(id))' = LayerTensors(LayerAt(id)) /\ ArenaAt(LayerAt(id))' = ArenaAt(LayerAt(id))
      BY <1>6, PlacesStay, ArenaAtStays
    <3>3. QED
      BY <1>2, <2>4, <3>1, <3>2 DEF ArenasOk
  <2>5. QED
    BY <2>3, <2>4 DEF ArenasOk
<1>11. NLayer' = NLayer
  BY <1>6 DEF NLayer, Layers
<1>12. ViewsOk'
  <2>1. ASSUME NEW v \in views
        PROVE  /\ v.id \in DOMAIN buffers' /\ ViewIn(v, v.layer, v.id, ReadStart(BlockRange(v.layer)))'
               /\ IF v.id.kind = "slot" THEN v.layer \in pinned' .. NLayer' - 1 ELSE v.layer = LayerAt(v.id)
    <3>1. /\ v.id \in DOMAIN buffers /\ ViewIn(v, v.layer, v.id, ReadStart(BlockRange(v.layer)))
          /\ IF v.id.kind = "slot" THEN v.layer \in pinned .. NLayer - 1 ELSE v.layer = LayerAt(v.id)
      BY <1>2 DEF ViewsOk
    <3>2. ViewIn(v, v.layer, v.id, ReadStart(BlockRange(v.layer)))'
      BY <1>6, <3>1, ViewStays
    <3>3. QED
      BY <1>6, <1>9, <1>11, <3>1, <3>2
  <2>2. views' = views
    BY <1>5
  <2>3. QED
    BY <2>1, <2>2 DEF ViewsOk
<1>13. AtBlock'
  <2>1. next' \in pinned' .. config'.nLayer
    BY <1>1, <1>2, <1>3, <1>5, <1>6, AtPinned
  <2>2. \A s \in 0 .. nSlots' - 1 : [kind |-> "slot", i |-> s] \in DOMAIN buffers'
    BY <1>6, <1>7, <1>9
  <2>3. QED
    BY <1>1, <1>2, <1>5, <1>6, <2>1, <2>2 DEF AtBlock
<1>14. QED
  BY <1>1, <1>5, <1>10, <1>12, <1>13, LoadGoesOn DEF Filling

\* A layer that is streamed.
LEMMA LoadStreamedStep == LoadInv /\ LoadStreamed => LoadInv'
<1> SUFFICES ASSUME LoadInv, LoadStreamed PROVE LoadInv'
  OBVIOUS
<1>1. phase = "tier 2" /\ phase \in Loading /\ LoadFrame /\ next < NLayer
  BY DEF LoadStreamed, Loading
<1>2. /\ HeaderInv /\ stage = "opened" /\ BlocksOf(config) /\ SpansOfBlocks /\ NLayer = config.nLayer /\ SlotRoom
      /\ ArenasOk /\ ViewsOk /\ next \in pinned .. config.nLayer
      /\ \A s \in 0 .. nSlots - 1 : [kind |-> "slot", i |-> s] \in DOMAIN buffers
  BY <1>1, LoadingFacts DEF AtBlock
<1>3. config.nLayer \in Nat /\ pinned \in 0 .. config.nLayer
  BY <1>2 DEF BlocksOf, SlotRoom
<1>4. /\ next + 1 \in pinned .. config.nLayer /\ next \in pinned .. NLayer - 1 /\ next \in 0 .. NLayer - 1
      /\ pinned < config.nLayer /\ next - pinned \in Nat
  BY <1>1, <1>2, <1>3, NextBlock
<1> DEFINE list == LayerLoad(config, next)
           from == FileStart(span[next])
           err  == LoadError(next, list, from, slotBytes)
           id   == SlotOf(next)
<1>5. IsList(list)
  BY Lists
<1>6. err \in SourceErrors
  BY <1>5, LoadErrorFacts
<1>7. IF err # "" THEN Fail(err) /\ UNCHANGED <<next, buffers, views, mem>>
      ELSE /\ views' = views \cup ViewsOf(next, list, id, from)
           /\ next' = next + 1 /\ UNCHANGED <<phase, buffers, failure>>
  BY DEF LoadStreamed
<1>8. UNCHANGED ggufVars /\ UNCHANGED <<span, pinned, slotBytes>> /\ nSlots' = nSlots /\ config' = config
  BY <1>1 DEF LoadFrame, input, plan
<1>9. CASE err # ""
  <2>1. err # "arena too small"
    <3> HIDE DEF err
    <3>1. QED
      BY <1>6 DEF SourceErrors
  <2> HIDE DEF err
  <2>2. QED
    BY <1>7, <1>8, <1>9, <2>1, FailStep DEF Fail
<1>10. CASE err = ""
  <2>1. views' = views \cup ViewsOf(next, list, id, from) /\ next' = next + 1 /\ UNCHANGED <<phase, buffers, failure>>
    BY <1>7, <1>10
  <2>2. id.kind = "slot" /\ id \in DOMAIN buffers
    <3>1. nSlots \in Nat \ {0}
      BY <1>2, <1>4 DEF SlotRoom
    <3>2. (next - pinned) % nSlots \in 0 .. nSlots - 1
      BY <1>4, <3>1, SlotIndex
    <3>3. QED
      BY <1>2, <3>2 DEF SlotOf
  <2>3. from = ReadStart(BlockRange(next))
    BY <1>2, <1>4, SpanOfLayer DEF FileStart
  <2>4. ArenasOk'
    <3>1. \A l : LayerTensors(l)' = LayerTensors(l)
      BY <1>8, PlacesStay
    <3>2. \A l : ArenaAt(l)' = ArenaAt(l)
      BY <1>8, ArenaAtStays
    <3>3. QED
      BY <1>2, <1>8, <2>1, <3>1, <3>2 DEF ArenasOk
  <2>5. NLayer' = NLayer
    BY <1>8 DEF NLayer, Layers
  <2> HIDE DEF id, list, from
  <2>6. ASSUME NEW v \in views'
        PROVE  /\ v.id \in DOMAIN buffers' /\ ViewIn(v, v.layer, v.id, ReadStart(BlockRange(v.layer)))'
               /\ IF v.id.kind = "slot" THEN v.layer \in pinned' .. NLayer' - 1 ELSE v.layer = LayerAt(v.id)
    <3>1. CASE v \in views
      <4>1. /\ v.id \in DOMAIN buffers /\ ViewIn(v, v.layer, v.id, ReadStart(BlockRange(v.layer)))
            /\ IF v.id.kind = "slot" THEN v.layer \in pinned .. NLayer - 1 ELSE v.layer = LayerAt(v.id)
        BY <1>2, <3>1 DEF ViewsOk
      <4>2. ViewIn(v, v.layer, v.id, ReadStart(BlockRange(v.layer)))'
        BY <1>8, <4>1, ViewStays
      <4>3. QED
        BY <1>8, <2>1, <2>5, <4>1, <4>2
    <3>2. CASE v \in ViewsOf(next, list, id, from)
      <4>1. ViewIn(v, next, id, from)
        BY <1>5, <1>10, <3>2, ViewsMade
      <4>2. v.id = id /\ v.layer = next
        BY <4>1 DEF ViewIn
      <4>3. ViewIn(v, v.layer, v.id, ReadStart(BlockRange(v.layer)))
        BY <2>3, <4>1, <4>2
      <4>4. ViewIn(v, v.layer, v.id, ReadStart(BlockRange(v.layer)))'
        BY <1>8, <4>3, ViewStays
      <4>5. QED
        BY <1>4, <1>8, <2>1, <2>2, <2>5, <4>2, <4>4
    <3>3. QED
      BY <2>1, <3>1, <3>2
  <2>7. ViewsOk'
    BY <2>6 DEF ViewsOk
  <2>8. phase' = "tier 2"
    BY <1>1, <2>1
  <2>9. AtBlock'
    BY <1>2, <1>4, <1>8, <2>1, <2>8 DEF AtBlock
  <2>10. QED
    BY <1>1, <2>1, <2>4, <2>7, <2>8, <2>9, LoadGoesOn DEF Filling
<1>11. QED
  BY <1>9, <1>10

LEMMA LoadInvStays == LoadInv /\ UNCHANGED vars => LoadInv'
<1> SUFFICES ASSUME LoadInv, UNCHANGED vars PROVE LoadInv'
  OBVIOUS
<1>1. /\ UNCHANGED ggufVars /\ UNCHANGED planVars /\ UNCHANGED loadVars /\ UNCHANGED <<span, buffers, views>>
      /\ UNCHANGED <<span, pinned, slotBytes, buffers, views>> /\ UNCHANGED <<config, span, slots>>
      /\ UNCHANGED <<config, span, plan>> /\ UNCHANGED config
      /\ phase' = phase /\ failure' = failure /\ stage' = stage /\ k' = k /\ next' = next /\ nSlots' = nSlots
      /\ pinned' = pinned /\ views' = views /\ buffers' = buffers /\ config' = config
  BY DEF vars, ggufVars, planVars, loadVars, input, plan
<1>2. HeaderInv'
  BY <1>1, OpenStays DEF LoadInv
<1>3. phase = "failed" => ViewsHoldTheirTensor'
  BY <1>1, HeldStays DEF LoadInv
<1>4. phase # "failed" => Progress'
  <2> SUFFICES ASSUME Progress PROVE Progress'
    BY DEF LoadInv
  <2>1. BlocksOf(config)' = BlocksOf(config)
    BY <1>1, BlocksStay
  <2>2. SpansOfBlocks' = SpansOfBlocks /\ NLayer' = NLayer
    BY <1>1, SpansStay
  <2>3. SlotRoom' = SlotRoom
    BY <1>1, SlotRoomStays
  <2>4. ArenasOk' = ArenasOk /\ ViewsOk' = ViewsOk
    BY <1>1, BuffersStay
  <2>5. Searching' = Searching
    BY <1>1 DEF Searching
  <2>6. AtBlock' = AtBlock
    BY <1>1 DEF AtBlock
  <2>7. QED
    BY <1>1, <2>1, <2>2, <2>3, <2>4, <2>5, <2>6 DEF Progress
<1>5. QED
  BY <1>1, <1>2, <1>3, <1>4 DEF LoadInv

LEMMA LoadInvariance == Spec => []LoadInv
<1>1. LoadInv /\ [Next]_vars => LoadInv'
  BY ReadHeaderStep, OpenFailsStep, ConfigFailsStep, ConfigAcceptedStep, MakePlanInputStep, MakePlanStep,
     LoadResidentStep, LoadMtpStep, MtpLoadedStep, LoadPinnedStep, StartRingStep, LoadStreamedStep,
     LoadedStep, DriveFailedStep, NewStateStep, LoadInvStays DEF Next, Ended
<1>2. QED
  BY <1>1, LoadInvInit, PTL DEF Spec

\* Every matrix of a model, loaded or left half loaded by a failure, is a window of bytes
\* read from the file range of its very tensor, and nothing read is longer than what it is
\* read into (model.rs load_with and load_arena, os.rs LayerRead, ring.rs start).
THEOREM LoadViewsHoldTheirTensor == Spec => []ViewsHoldTheirTensor
BY LoadInvariance, LoadInvHolds, PTL

-----------------------------------------------------------------------------
(* Sums of vectors, written out.                                           *)

LEMMA SumNext ==
  ASSUME NEW n \in Nat, NEW f, \A i \in 1 .. n + 1 : f[i] \in Int
  PROVE  SumFunctionOnSet(f, 1 .. n + 1) = SumFunctionOnSet(f, 1 .. n) + f[n + 1] /\ SumFunctionOnSet(f, 1 .. n) \in Int
<1>1. IsFiniteSet(1 .. n)
  BY FS_Interval
<1>2. 1 .. n + 1 = (1 .. n) \cup {n + 1} /\ n + 1 \notin 1 .. n /\ \A i \in (1 .. n) \cup {n + 1} : f[i] \in Int
  OBVIOUS
<1>3. SumFunctionOnSet(f, (1 .. n) \cup {n + 1}) = f[n + 1] + SumFunctionOnSet(f, 1 .. n) /\ SumFunctionOnSet(f, 1 .. n) \in Int
  BY <1>1, <1>2, SumAdd
<1>4. f[n + 1] \in Int
  BY <1>2
<1> DEFINE all  == 1 .. n + 1
           sum1 == SumFunctionOnSet(f, all)
           sum  == SumFunctionOnSet(f, 1 .. n)
<1>5. all = (1 .. n) \cup {n + 1}
  BY <1>2
<1> HIDE DEF all
<1>6. sum1 = f[n + 1] + sum /\ sum \in Int
  BY <1>3, <1>5
<1> HIDE DEF sum, sum1
<1>7. sum1 = sum + f[n + 1] /\ sum \in Int
  BY <1>4, <1>6
<1>8. QED
  BY <1>7 DEF all, sum, sum1

\* The sum of the first numbers of a sequence.
FirstSum(f, n) == SumFunctionOnSet(f, 1 .. n)

LEMMA SumOfFirst ==
  ASSUME NEW f, NEW m \in Nat, \A i \in 1 .. m : f[i] \in Int
  PROVE  \A n \in 0 .. m : /\ FirstSum(f, n) \in Int
                           /\ n = 0 => FirstSum(f, n) = 0
                           /\ n > 0 => FirstSum(f, n) = FirstSum(f, n - 1) + f[n]
<1> SUFFICES ASSUME NEW n \in 0 .. m
             PROVE  /\ FirstSum(f, n) \in Int
                    /\ n = 0 => FirstSum(f, n) = 0
                    /\ n > 0 => FirstSum(f, n) = FirstSum(f, n - 1) + f[n]
  OBVIOUS
<1>1. CASE n = 0
  <2>1. 1 .. n = {} /\ IsFiniteSet({}) /\ \A y \in {} : f[y] \in Int
    BY <1>1, FS_EmptySet
  <2>2. SumFunctionOnSet(f, {}) = 0
    BY <2>1, SumFacts
  <2>3. QED
    BY <1>1, <2>1, <2>2 DEF FirstSum
<1>2. CASE n > 0
  <2>1. n - 1 \in Nat /\ (n - 1) + 1 = n /\ \A i \in 1 .. (n - 1) + 1 : f[i] \in Int
    BY <1>2
  <2>2. FirstSum(f, (n - 1) + 1) = FirstSum(f, n - 1) + f[(n - 1) + 1] /\ FirstSum(f, n - 1) \in Int
    BY <2>1, SumNext DEF FirstSum
  <2>3. f[n] \in Int
    BY <2>1, <1>2
  <2>4. QED
    BY <1>2, <2>1, <2>2, <2>3
<1>3. QED
  BY <1>1, <1>2

LEMMA Total4OfTwo ==
  ASSUME NEW f, DOMAIN f = 1 .. 2, \A i \in 1 .. 2 : f[i] \in Int
  PROVE  Total4(f) = 4 * (f[1] + f[2])
<1>1. \A n \in 0 .. 2 : /\ FirstSum(f, n) \in Int
                        /\ n = 0 => FirstSum(f, n) = 0
                        /\ n > 0 => FirstSum(f, n) = FirstSum(f, n - 1) + f[n]
  <2> DEFINE m == 2
  <2>1. m \in Nat /\ \A i \in 1 .. m : f[i] \in Int
    OBVIOUS
  <2> HIDE DEF m
  <2>2. \A n \in 0 .. m : /\ FirstSum(f, n) \in Int
                          /\ n = 0 => FirstSum(f, n) = 0
                          /\ n > 0 => FirstSum(f, n) = FirstSum(f, n - 1) + f[n]
    BY <2>1, SumOfFirst
  <2>3. QED
    BY <2>2 DEF m
<1>2. FirstSum(f, 0) = 0
  BY <1>1
<1>3. FirstSum(f, 1) = f[1]
  BY <1>1, <1>2
<1>4. FirstSum(f, 2) = f[1] + f[2]
  BY <1>1, <1>3
<1>5. QED
  BY <1>4 DEF Total4, FirstSum

LEMMA Total4OfThree ==
  ASSUME NEW f, DOMAIN f = 1 .. 3, \A i \in 1 .. 3 : f[i] \in Int
  PROVE  Total4(f) = 4 * (f[1] + f[2] + f[3])
<1>1. \A n \in 0 .. 3 : /\ FirstSum(f, n) \in Int
                        /\ n = 0 => FirstSum(f, n) = 0
                        /\ n > 0 => FirstSum(f, n) = FirstSum(f, n - 1) + f[n]
  <2> DEFINE m == 3
  <2>1. m \in Nat /\ \A i \in 1 .. m : f[i] \in Int
    OBVIOUS
  <2> HIDE DEF m
  <2>2. \A n \in 0 .. m : /\ FirstSum(f, n) \in Int
                          /\ n = 0 => FirstSum(f, n) = 0
                          /\ n > 0 => FirstSum(f, n) = FirstSum(f, n - 1) + f[n]
    BY <2>1, SumOfFirst
  <2>3. QED
    BY <2>2 DEF m
<1>2. FirstSum(f, 0) = 0
  BY <1>1
<1>3. FirstSum(f, 1) = f[1]
  BY <1>1, <1>2
<1>4. FirstSum(f, 2) = f[1] + f[2]
  BY <1>1, <1>3
<1>5. FirstSum(f, 3) = f[1] + f[2] + f[3]
  BY <1>1, <1>4
<1>6. QED
  BY <1>5 DEF Total4, FirstSum

LEMMA Total4OfSeven ==
  ASSUME NEW f, DOMAIN f = 1 .. 7, \A i \in 1 .. 7 : f[i] \in Int
  PROVE  Total4(f) = 4 * (f[1] + f[2] + f[3] + f[4] + f[5] + f[6] + f[7])
<1>1. \A n \in 0 .. 7 : /\ FirstSum(f, n) \in Int
                        /\ n = 0 => FirstSum(f, n) = 0
                        /\ n > 0 => FirstSum(f, n) = FirstSum(f, n - 1) + f[n]
  <2> DEFINE m == 7
  <2>1. m \in Nat /\ \A i \in 1 .. m : f[i] \in Int
    OBVIOUS
  <2> HIDE DEF m
  <2>2. \A n \in 0 .. m : /\ FirstSum(f, n) \in Int
                          /\ n = 0 => FirstSum(f, n) = 0
                          /\ n > 0 => FirstSum(f, n) = FirstSum(f, n - 1) + f[n]
    BY <2>1, SumOfFirst
  <2>3. QED
    BY <2>2 DEF m
<1>2. FirstSum(f, 0) = 0
  BY <1>1
<1>3. FirstSum(f, 1) = f[1]
  BY <1>1, <1>2
<1>4. FirstSum(f, 2) = f[1] + f[2]
  BY <1>1, <1>3
<1>5. FirstSum(f, 3) = f[1] + f[2] + f[3]
  BY <1>1, <1>4
<1>6. FirstSum(f, 4) = f[1] + f[2] + f[3] + f[4]
  BY <1>1, <1>5
<1>7. FirstSum(f, 5) = f[1] + f[2] + f[3] + f[4] + f[5]
  BY <1>1, <1>6
<1>8. FirstSum(f, 6) = f[1] + f[2] + f[3] + f[4] + f[5] + f[6]
  BY <1>1, <1>7
<1>9. FirstSum(f, 7) = f[1] + f[2] + f[3] + f[4] + f[5] + f[6] + f[7]
  BY <1>1, <1>8
<1>10. QED
  BY <1>9 DEF Total4, FirstSum

LEMMA Total4OfNine ==
  ASSUME NEW f, DOMAIN f = 1 .. 9, \A i \in 1 .. 9 : f[i] \in Int
  PROVE  Total4(f) = 4 * (f[1] + f[2] + f[3] + f[4] + f[5] + f[6] + f[7] + f[8] + f[9])
<1>1. \A n \in 0 .. 9 : /\ FirstSum(f, n) \in Int
                        /\ n = 0 => FirstSum(f, n) = 0
                        /\ n > 0 => FirstSum(f, n) = FirstSum(f, n - 1) + f[n]
  <2> DEFINE m == 9
  <2>1. m \in Nat /\ \A i \in 1 .. m : f[i] \in Int
    OBVIOUS
  <2> HIDE DEF m
  <2>2. \A n \in 0 .. m : /\ FirstSum(f, n) \in Int
                          /\ n = 0 => FirstSum(f, n) = 0
                          /\ n > 0 => FirstSum(f, n) = FirstSum(f, n - 1) + f[n]
    BY <2>1, SumOfFirst
  <2>3. QED
    BY <2>2 DEF m
<1>2. FirstSum(f, 0) = 0
  BY <1>1
<1>3. FirstSum(f, 1) = f[1]
  BY <1>1, <1>2
<1>4. FirstSum(f, 2) = f[1] + f[2]
  BY <1>1, <1>3
<1>5. FirstSum(f, 3) = f[1] + f[2] + f[3]
  BY <1>1, <1>4
<1>6. FirstSum(f, 4) = f[1] + f[2] + f[3] + f[4]
  BY <1>1, <1>5
<1>7. FirstSum(f, 5) = f[1] + f[2] + f[3] + f[4] + f[5]
  BY <1>1, <1>6
<1>8. FirstSum(f, 6) = f[1] + f[2] + f[3] + f[4] + f[5] + f[6]
  BY <1>1, <1>7
<1>9. FirstSum(f, 7) = f[1] + f[2] + f[3] + f[4] + f[5] + f[6] + f[7]
  BY <1>1, <1>8
<1>10. FirstSum(f, 8) = f[1] + f[2] + f[3] + f[4] + f[5] + f[6] + f[7] + f[8]
  BY <1>1, <1>9
<1>11. FirstSum(f, 9) = f[1] + f[2] + f[3] + f[4] + f[5] + f[6] + f[7] + f[8] + f[9]
  BY <1>1, <1>10
<1>12. QED
  BY <1>11 DEF Total4, FirstSum

LEMMA Total4OfEleven ==
  ASSUME NEW f, DOMAIN f = 1 .. 11, \A i \in 1 .. 11 : f[i] \in Int
  PROVE  Total4(f) = 4 * (f[1] + f[2] + f[3] + f[4] + f[5] + f[6] + f[7] + f[8] + f[9] + f[10] + f[11])
<1>1. \A n \in 0 .. 11 : /\ FirstSum(f, n) \in Int
                         /\ n = 0 => FirstSum(f, n) = 0
                         /\ n > 0 => FirstSum(f, n) = FirstSum(f, n - 1) + f[n]
  <2> DEFINE m == 11
  <2>1. m \in Nat /\ \A i \in 1 .. m : f[i] \in Int
    OBVIOUS
  <2> HIDE DEF m
  <2>2. \A n \in 0 .. m : /\ FirstSum(f, n) \in Int
                          /\ n = 0 => FirstSum(f, n) = 0
                          /\ n > 0 => FirstSum(f, n) = FirstSum(f, n - 1) + f[n]
    BY <2>1, SumOfFirst
  <2>3. QED
    BY <2>2 DEF m
<1>2. FirstSum(f, 0) = 0
  BY <1>1
<1>3. FirstSum(f, 1) = f[1]
  BY <1>1, <1>2
<1>4. FirstSum(f, 2) = f[1] + f[2]
  BY <1>1, <1>3
<1>5. FirstSum(f, 3) = f[1] + f[2] + f[3]
  BY <1>1, <1>4
<1>6. FirstSum(f, 4) = f[1] + f[2] + f[3] + f[4]
  BY <1>1, <1>5
<1>7. FirstSum(f, 5) = f[1] + f[2] + f[3] + f[4] + f[5]
  BY <1>1, <1>6
<1>8. FirstSum(f, 6) = f[1] + f[2] + f[3] + f[4] + f[5] + f[6]
  BY <1>1, <1>7
<1>9. FirstSum(f, 7) = f[1] + f[2] + f[3] + f[4] + f[5] + f[6] + f[7]
  BY <1>1, <1>8
<1>10. FirstSum(f, 8) = f[1] + f[2] + f[3] + f[4] + f[5] + f[6] + f[7] + f[8]
  BY <1>1, <1>9
<1>11. FirstSum(f, 9) = f[1] + f[2] + f[3] + f[4] + f[5] + f[6] + f[7] + f[8] + f[9]
  BY <1>1, <1>10
<1>12. FirstSum(f, 10) = f[1] + f[2] + f[3] + f[4] + f[5] + f[6] + f[7] + f[8] + f[9] + f[10]
  BY <1>1, <1>11
<1>13. FirstSum(f, 11) = f[1] + f[2] + f[3] + f[4] + f[5] + f[6] + f[7] + f[8] + f[9] + f[10] + f[11]
  BY <1>1, <1>12
<1>14. QED
  BY <1>13 DEF Total4, FirstSum

-----------------------------------------------------------------------------
(* The plan's formulas give the bytes of the live buffers.                 *)

\* What a model's sizes are.
SizesOf(c) ==
  /\ c.hidden \in Nat /\ c.inter \in Nat /\ c.vocab \in Nat
  /\ c.nHead \in Nat /\ c.nHeadKv \in Nat /\ c.headDim \in Nat /\ c.ropeDim \in Nat
  /\ c.nV \in Nat /\ c.dk \in Nat /\ c.dv \in Nat /\ c.qkvDim \in Nat /\ c.kernel \in Nat \ {0}
  /\ c.qDim = c.nHead * c.headDim /\ c.kvDim = c.nHeadKv * c.headDim /\ c.vDim = c.nV * c.dv
  /\ Cardinality(c.deltanet) \in Nat /\ Cardinality(c.attention) \in Nat /\ c.attention # {}

LEMMA ProductNat == \A x, y \in Nat : x * y \in Nat
  OBVIOUS

LEMMA ActBytes == ASSUME NEW n \in Nat PROVE ActBuf(n) = act_buf_bytes(n) /\ ActBuf(n) \in Nat
<1>1. n \div 32 \in Nat /\ n \div 256 \in Nat
  OBVIOUS
<1> DEFINE a == n \div 32
           b == n \div 256
<1> HIDE DEF a, b
<1>2. a \in Nat /\ b \in Nat
  BY <1>1 DEF a, b
<1>3. 2 * a + n + 4 * a + 4 * a + 4 * 8 * a + (4 * b + n + 2 * 16 * b + 2 * 8 * b) = n + a * (2 + 4 + 4 + 32) + n + b * (4 + 32 + 16)
  BY <1>2
<1>4. 2 * a + n + 4 * a + 4 * a + 4 * 8 * a + (4 * b + n + 2 * 16 * b + 2 * 8 * b) \in Nat
  BY <1>2
<1>5. QED
  BY <1>3, <1>4 DEF a, b, ActBuf, Q8RowBytes, Q8KRowBytes, act_buf_bytes

LEMMA MlpBytes ==
  ASSUME NEW c, SizesOf(c), NEW t \in Nat
  PROVE  /\ MlpScratch(c) = 3 * c.inter * 4 + act_buf_bytes(c.inter)
         /\ MlpBatch(c, t) = 3 * t * c.inter * 4 + t * act_buf_bytes(c.inter)
<1> DEFINE i == c.inter
           a == act_buf_bytes(c.inter)
           ti == t * c.inter
<1>1. i \in Nat /\ a \in Nat /\ ActBuf(c.inter) = a
  BY ActBytes DEF SizesOf
<1>2. ti \in Int
  BY <1>1, ProductNat
<1>3. Total4(<<i, i, i>>) = 4 * (i + i + i)
  <2> DEFINE f == <<i, i, i>>
  <2>1. DOMAIN f = 1 .. 3 /\ f[1] = i /\ f[2] = i /\ f[3] = i
    OBVIOUS
  <2> HIDE DEF f
  <2>2. \A j \in 1 .. 3 : f[j] \in Int
    BY <1>1, <2>1
  <2>3. Total4(f) = 4 * (f[1] + f[2] + f[3])
    BY <2>1, <2>2, Total4OfThree
  <2>4. QED
    BY <2>1, <2>3 DEF f
<1>4. Total4(<<ti, ti, ti>>) = 4 * (ti + ti + ti)
  <2> DEFINE f == <<ti, ti, ti>>
  <2>1. DOMAIN f = 1 .. 3 /\ f[1] = ti /\ f[2] = ti /\ f[3] = ti
    OBVIOUS
  <2> HIDE DEF f
  <2>2. \A j \in 1 .. 3 : f[j] \in Int
    BY <1>2, <2>1
  <2>3. Total4(f) = 4 * (f[1] + f[2] + f[3])
    BY <2>1, <2>2, Total4OfThree
  <2>4. QED
    BY <2>1, <2>3 DEF f
<1>5. MlpScratch(c) = 4 * (i + i + i) + a /\ MlpBatch(c, t) = 4 * (ti + ti + ti) + t * a
  BY <1>1, <1>3, <1>4 DEF MlpScratch, MlpBatch
<1> HIDE DEF i, a
<1>6. 4 * (i + i + i) + a = 3 * i * 4 + a /\ 4 * (t * i + t * i + t * i) + t * a = 3 * t * i * 4 + t * a
  BY <1>1
<1>7. QED
  BY <1>5, <1>6 DEF i, a

\* The buffers of a DeltaNet layer, with the terms of scratch_bytes and of `batch`.
LEMMA DeltaBytes ==
  ASSUME NEW c, SizesOf(c), NEW t \in Nat
  PROVE  /\ DeltaScratch(c) = (2 * c.qkvDim + 3 * (c.nV * c.dv) + 2 * c.nV + 2 * c.nV * c.dk) * 4 + act_buf_bytes(c.nV * c.dv)
         /\ DeltaBatch(c, t) = (2 * t * c.qkvDim + 2 * t * (c.nV * c.dv) + 2 * t * c.nV + 2 * c.nV * c.dk + c.nV * c.dv) * 4
                                 + t * act_buf_bytes(c.nV * c.dv)
         /\ DeltaState(c) = 4 * (c.qkvDim * (c.kernel - 1) + c.nV * c.dk * c.dv)
<1> DEFINE q == c.qkvDim
           v == c.vDim
           n == c.nV
           w == c.nV * c.dk
           a == act_buf_bytes(c.vDim)
           s == c.qkvDim * (c.kernel - 1)
           m == c.nV * c.dk * c.dv
<1>1. /\ q \in Nat /\ n \in Nat /\ w \in Nat /\ v \in Nat /\ c.vDim = c.nV * c.dv /\ c.kernel - 1 \in Nat /\ c.dv \in Nat
      /\ 2 * c.nV * c.dk = 2 * w
  BY ProductNat DEF SizesOf
<1>2. a \in Nat /\ ActBuf(c.vDim) = a
  BY <1>1, ActBytes
<1>3. s \in Nat /\ m \in Nat
  BY <1>1, ProductNat
<1>4. t * q \in Int /\ t * v \in Int /\ t * n \in Int
  BY <1>1, ProductNat
<1>5. Total4(<<q, v, n, n, q, v, w, w, v>>) = 4 * (q + v + n + n + q + v + w + w + v)
  <2>1. q \in Int /\ v \in Int /\ n \in Int /\ w \in Int
    BY <1>1
  <2> HIDE DEF q, v, n, w
  <2>2. QED
    BY <2>1, Total4OfNine
<1>6. Total4(<<t * q, t * v, t * n, t * n, t * q, t * v, w, w, v>>) = 4 * (t * q + t * v + t * n + t * n + t * q + t * v + w + w + v)
  <2> DEFINE tq == t * q
             tv == t * v
             tn == t * n
  <2>1. tq \in Int /\ tv \in Int /\ tn \in Int /\ w \in Int /\ v \in Int
    BY <1>1, <1>4
  <2> HIDE DEF q, v, n, w, tq, tv, tn
  <2>2. Total4(<<tq, tv, tn, tn, tq, tv, w, w, v>>) = 4 * (tq + tv + tn + tn + tq + tv + w + w + v)
    <3> DEFINE f == <<tq, tv, tn, tn, tq, tv, w, w, v>>
    <3>1. DOMAIN f = 1 .. 9 /\ f[1] = tq /\ f[2] = tv /\ f[3] = tn /\ f[4] = tn /\ f[5] = tq /\ f[6] = tv /\ f[7] = w /\ f[8] = w /\ f[9] = v
      OBVIOUS
    <3> HIDE DEF f
    <3>2. \A i \in 1 .. 9 : f[i] \in Int
      BY <2>1, <3>1
    <3>3. Total4(f) = 4 * (f[1] + f[2] + f[3] + f[4] + f[5] + f[6] + f[7] + f[8] + f[9])
      BY <3>1, <3>2, Total4OfNine
    <3>4. QED
      BY <3>1, <3>3 DEF f
  <2>3. QED
    BY <2>2 DEF tq, tv, tn
<1>7. Total4(<<s, m>>) = 4 * (s + m)
  <2> DEFINE f == <<s, m>>
  <2>1. DOMAIN f = 1 .. 2 /\ f[1] = s /\ f[2] = m
    OBVIOUS
  <2> HIDE DEF f
  <2>2. \A i \in 1 .. 2 : f[i] \in Int
    BY <1>3, <2>1
  <2>3. Total4(f) = 4 * (f[1] + f[2])
    BY <2>1, <2>2, Total4OfTwo
  <2>4. QED
    BY <2>1, <2>3 DEF f
<1>8. /\ DeltaScratch(c) = 4 * (q + v + n + n + q + v + w + w + v) + a
      /\ DeltaBatch(c, t) = 4 * (t * q + t * v + t * n + t * n + t * q + t * v + w + w + v) + t * a
      /\ DeltaState(c) = 4 * (s + m)
  BY <1>2, <1>5, <1>6, <1>7 DEF DeltaScratch, DeltaBatch, DeltaState
<1> HIDE DEF q, v, n, w, a
<1>9. /\ 4 * (q + v + n + n + q + v + w + w + v) + a = (2 * q + 3 * v + 2 * n + 2 * w) * 4 + a
      /\ 4 * (t * q + t * v + t * n + t * n + t * q + t * v + w + w + v) + t * a = (2 * t * q + 2 * t * v + 2 * t * n + 2 * w + v) * 4 + t * a
  BY <1>1, <1>2
<1>10. QED
  BY <1>1, <1>8, <1>9 DEF q, v, n, w, a

\* The buffers of an attention layer, with the terms of scratch_bytes and of `batch`.
LEMMA AttnBytes ==
  ASSUME NEW c, SizesOf(c), NEW t \in Nat, NEW pos \in Nat
  PROVE  /\ AttnScratch(c, pos) =
              (5 * (c.nHead * c.headDim) + 2 * c.nHeadKv * c.headDim + 2 * c.ropeDim + c.headDim) * 4
                + act_buf_bytes(c.nHead * c.headDim) + 2 * c.nHead * pos * 4
         /\ AttnBatch(c, t) =
              (t * 2 * (c.nHead * c.headDim) + 2 * t * c.nHeadKv * c.headDim + 3 * t * (c.nHead * c.headDim)
                 + 2 * c.ropeDim + c.headDim) * 4 + t * act_buf_bytes(c.nHead * c.headDim)
         /\ KvCache(c, pos) = 2 * c.nHeadKv * c.headDim * 4 * pos
<1> DEFINE q == c.qDim
           v == c.kvDim
           r == c.ropeDim
           d == c.headDim
           a == act_buf_bytes(c.qDim)
           p == c.nHead * pos
<1>1. /\ q \in Nat /\ v \in Nat /\ r \in Nat /\ d \in Nat /\ p \in Nat /\ c.nHead \in Nat /\ c.nHeadKv \in Nat
      /\ c.qDim = c.nHead * c.headDim /\ c.kvDim = c.nHeadKv * c.headDim
  BY ProductNat DEF SizesOf
<1>2. a \in Nat /\ ActBuf(c.qDim) = a
  BY <1>1, ActBytes
<1>3. /\ 2 * c.nHead * c.headDim = 2 * q /\ 2 * c.nHeadKv * c.headDim = 2 * v
      /\ 2 * t * c.nHeadKv * c.headDim = 2 * (t * v) /\ 2 * c.nHead * pos = 2 * p
      /\ 2 * c.nHeadKv * c.headDim * 4 * pos = 8 * (pos * v)
  BY <1>1
<1>4. t * q \in Int /\ t * v \in Int /\ pos * v \in Int /\ 2 * q \in Int /\ t * 2 * q = 2 * (t * q) /\ t * 2 * q \in Int
  BY <1>1, ProductNat
<1>5. Total4(<<2 * q, v, v, r, r, q, q, d, q, p, p>>) = 4 * (2 * q + v + v + r + r + q + q + d + q + p + p)
  <2> DEFINE g == 2 * q
  <2>1. g \in Int /\ q \in Int /\ v \in Int /\ r \in Int /\ d \in Int /\ p \in Int
    BY <1>1, <1>4
  <2> HIDE DEF g, q, v, r, d, p
  <2>2. Total4(<<g, v, v, r, r, q, q, d, q, p, p>>) = 4 * (g + v + v + r + r + q + q + d + q + p + p)
    <3> DEFINE f == <<g, v, v, r, r, q, q, d, q, p, p>>
    <3>1. DOMAIN f = 1 .. 11 /\ f[1] = g /\ f[2] = v /\ f[3] = v /\ f[4] = r /\ f[5] = r /\ f[6] = q /\ f[7] = q /\ f[8] = d /\ f[9] = q /\ f[10] = p /\ f[11] = p
      OBVIOUS
    <3> HIDE DEF f
    <3>2. \A i \in 1 .. 11 : f[i] \in Int
      BY <2>1, <3>1
    <3>3. Total4(f) = 4 * (f[1] + f[2] + f[3] + f[4] + f[5] + f[6] + f[7] + f[8] + f[9] + f[10] + f[11])
      BY <3>1, <3>2, Total4OfEleven
    <3>4. QED
      BY <3>1, <3>3 DEF f
  <2>3. QED
    BY <2>2 DEF g
<1>6. Total4(<<t * 2 * q, t * v, t * v, t * q, t * q, t * q, r, r, d>>) = 4 * (t * 2 * q + t * v + t * v + t * q + t * q + t * q + r + r + d)
  <2> DEFINE g == t * 2 * q
             x == t * v
             y == t * q
  <2>1. g \in Int /\ x \in Int /\ y \in Int /\ r \in Int /\ d \in Int
    BY <1>1, <1>4
  <2> HIDE DEF g, x, y, q, v, r, d
  <2>2. Total4(<<g, x, x, y, y, y, r, r, d>>) = 4 * (g + x + x + y + y + y + r + r + d)
    <3> DEFINE f == <<g, x, x, y, y, y, r, r, d>>
    <3>1. DOMAIN f = 1 .. 9 /\ f[1] = g /\ f[2] = x /\ f[3] = x /\ f[4] = y /\ f[5] = y /\ f[6] = y /\ f[7] = r /\ f[8] = r /\ f[9] = d
      OBVIOUS
    <3> HIDE DEF f
    <3>2. \A i \in 1 .. 9 : f[i] \in Int
      BY <2>1, <3>1
    <3>3. Total4(f) = 4 * (f[1] + f[2] + f[3] + f[4] + f[5] + f[6] + f[7] + f[8] + f[9])
      BY <3>1, <3>2, Total4OfNine
    <3>4. QED
      BY <3>1, <3>3 DEF f
  <2>3. QED
    BY <2>2 DEF g, x, y
<1>7. Total4(<<pos * v, pos * v>>) = 4 * (pos * v + pos * v)
  <2> DEFINE f == <<pos * v, pos * v>>
  <2>1. DOMAIN f = 1 .. 2 /\ f[1] = pos * v /\ f[2] = pos * v
    OBVIOUS
  <2> HIDE DEF f
  <2>2. \A i \in 1 .. 2 : f[i] \in Int
    BY <1>4, <2>1
  <2>3. Total4(f) = 4 * (f[1] + f[2])
    BY <2>1, <2>2, Total4OfTwo
  <2>4. QED
    BY <2>1, <2>3 DEF f
<1>8. /\ AttnScratch(c, pos) = 4 * (2 * q + v + v + r + r + q + q + d + q + p + p) + a
      /\ AttnBatch(c, t) = 4 * (t * 2 * q + t * v + t * v + t * q + t * q + t * q + r + r + d) + t * a
      /\ KvCache(c, pos) = 4 * (pos * v + pos * v)
  BY <1>2, <1>3, <1>5, <1>6, <1>7 DEF AttnScratch, AttnBatch, KvCache
<1>9. 3 * t * (c.nHead * c.headDim) = 3 * (t * q) /\ t * 2 * (c.nHead * c.headDim) = 2 * (t * q)
  BY <1>1, <1>4
<1> DEFINE tq == t * q
           tv == t * v
           ta == t * a
<1>10. ta \in Nat
  BY <1>2, ProductNat
<1> HIDE DEF q, v, r, d, a, p, tq, tv, ta
<1>11. /\ 4 * (2 * q + v + v + r + r + q + q + d + q + p + p) + a = (5 * q + 2 * v + 2 * r + d) * 4 + a + 2 * p * 4
  BY <1>1, <1>2
<1>12. 4 * (t * 2 * q + tv + tv + tq + tq + tq + r + r + d) + ta = (t * 2 * q + 2 * tv + 3 * tq + 2 * r + d) * 4 + ta
  BY <1>1, <1>4, <1>10 DEF tq, tv
<1>13. 4 * (pos * v + pos * v) = 8 * (pos * v)
  BY <1>4
<1>14. AttnScratch(c, pos) = (5 * q + 2 * v + 2 * r + d) * 4 + a + 2 * p * 4
  BY <1>8, <1>11
<1>15. AttnBatch(c, t) = (t * 2 * q + 2 * tv + 3 * tq + 2 * r + d) * 4 + ta
  BY <1>8, <1>12 DEF tq, tv, ta
<1>16. QED
  BY <1>1, <1>3, <1>8, <1>9, <1>13, <1>14, <1>15 DEF q, v, r, d, a, p, tq, tv, ta

\* Three rows of activations and their quantised form.
LEMMA RowBytes3 ==
  ASSUME NEW h \in Nat, NEW t \in Nat
  PROVE  /\ Total4(<<h, h, h>>) = 3 * h * 4
         /\ Total4(<<t * h, t * h, t * h>>) = 3 * t * h * 4
<1>1. Total4(<<h, h, h>>) = 4 * (h + h + h)
  <2> DEFINE f == <<h, h, h>>
  <2>1. DOMAIN f = 1 .. 3 /\ f[1] = h /\ f[2] = h /\ f[3] = h
    OBVIOUS
  <2> HIDE DEF f
  <2>2. \A i \in 1 .. 3 : f[i] \in Int
    BY <2>1
  <2>3. Total4(f) = 4 * (f[1] + f[2] + f[3])
    BY <2>1, <2>2, Total4OfThree
  <2>4. QED
    BY <2>1, <2>3 DEF f
<1>2. t * h \in Nat
  BY ProductNat
<1>3. Total4(<<t * h, t * h, t * h>>) = 4 * (t * h + t * h + t * h)
  <2> DEFINE f == <<t * h, t * h, t * h>>
  <2>1. DOMAIN f = 1 .. 3 /\ f[1] = t * h /\ f[2] = t * h /\ f[3] = t * h
    OBVIOUS
  <2> HIDE DEF f
  <2>2. \A j \in 1 .. 3 : f[j] \in Int
    BY <1>2, <2>1
  <2>3. Total4(f) = 4 * (f[1] + f[2] + f[3])
    BY <2>1, <2>2, Total4OfThree
  <2>4. QED
    BY <2>1, <2>3 DEF f
<1>4. 4 * (t * h + t * h + t * h) = 3 * t * h * 4 /\ 4 * (h + h + h) = 3 * h * 4
  BY <1>2
<1>5. QED
  BY <1>1, <1>3, <1>4

\* The terms of the plan's formulas, for the parts of a model.
PlannedMlp(c)       == 3 * c.inter * 4 + act_buf_bytes(c.inter)
PlannedRow(c)       == 3 * c.hidden * 4 + act_buf_bytes(c.hidden)
PlannedDelta(c)     == (2 * c.qkvDim + 3 * (c.nV * c.dv) + 2 * c.nV + 2 * c.nV * c.dk) * 4 + act_buf_bytes(c.nV * c.dv)
PlannedAttn(c, pos) ==
  (5 * (c.nHead * c.headDim) + 2 * c.nHeadKv * c.headDim + 2 * c.ropeDim + c.headDim) * 4
    + act_buf_bytes(c.nHead * c.headDim) + 2 * c.nHead * pos * 4

\* The live parts are as many bytes, and all of them are natural numbers.
LEMMA PartBytes ==
  ASSUME NEW c, SizesOf(c), NEW t \in Nat, NEW pos \in Nat
  PROVE  /\ MlpScratch(c) = PlannedMlp(c) /\ DeltaScratch(c) = PlannedDelta(c) /\ AttnScratch(c, pos) = PlannedAttn(c, pos)
         /\ PlannedMlp(c) \in Nat /\ PlannedDelta(c) \in Nat /\ PlannedAttn(c, pos) \in Nat /\ PlannedRow(c) \in Nat
         /\ DeltaBatch(c, t) \in Nat /\ AttnBatch(c, t) \in Nat /\ MlpBatch(c, t) \in Nat /\ KvCache(c, pos) \in Nat
         /\ DeltaState(c) \in Nat
<1>1. /\ c.hidden \in Nat /\ c.inter \in Nat /\ c.qkvDim \in Nat /\ c.nV \in Nat /\ c.dv \in Nat /\ c.dk \in Nat
      /\ c.nHead \in Nat /\ c.headDim \in Nat /\ c.nHeadKv \in Nat /\ c.ropeDim \in Nat /\ c.kernel - 1 \in Nat
  BY DEF SizesOf
<1>2. /\ c.nV * c.dv \in Nat /\ c.nHead * c.headDim \in Nat
      /\ act_buf_bytes(c.hidden) \in Nat /\ act_buf_bytes(c.inter) \in Nat
      /\ act_buf_bytes(c.nV * c.dv) \in Nat /\ act_buf_bytes(c.nHead * c.headDim) \in Nat
  <2>1. c.nV * c.dv \in Nat /\ c.nHead * c.headDim \in Nat
    BY <1>1, ProductNat
  <2>2. \A n \in Nat : act_buf_bytes(n) \in Nat
    BY ActBytes
  <2>3. QED
    BY <1>1, <2>1, <2>2
<1>3. MlpScratch(c) = PlannedMlp(c) /\ DeltaScratch(c) = PlannedDelta(c) /\ AttnScratch(c, pos) = PlannedAttn(c, pos)
  BY MlpBytes, DeltaBytes, AttnBytes DEF PlannedMlp, PlannedDelta, PlannedAttn
<1>4. PlannedMlp(c) \in Nat /\ PlannedRow(c) \in Nat
  BY <1>1, <1>2 DEF PlannedMlp, PlannedRow
<1>5. PlannedDelta(c) \in Nat
  <2>1. 2 * c.nV * c.dk \in Nat
    BY <1>1, ProductNat
  <2>2. QED
    BY <1>1, <1>2, <2>1 DEF PlannedDelta
<1>6. PlannedAttn(c, pos) \in Nat
  <2>1. 2 * c.nHeadKv * c.headDim \in Nat /\ 2 * c.nHead * pos \in Nat
    BY <1>1, ProductNat
  <2> DEFINE x == c.nHead * c.headDim
             y == 2 * c.nHeadKv * c.headDim
             z == 2 * c.nHead * pos
             b == act_buf_bytes(c.nHead * c.headDim)
  <2>2. x \in Nat /\ y \in Nat /\ z \in Nat /\ b \in Nat
    BY <1>2, <2>1
  <2>3. PlannedAttn(c, pos) = (5 * x + y + 2 * c.ropeDim + c.headDim) * 4 + b + z * 4
    BY DEF PlannedAttn
  <2> HIDE DEF x, y, z, b
  <2>4. QED
    BY <1>1, <2>2, <2>3
<1>7. MlpBatch(c, t) \in Nat
  <2>1. 3 * t * c.inter \in Nat /\ t * act_buf_bytes(c.inter) \in Nat
    BY <1>1, <1>2, ProductNat
  <2>2. QED
    BY <2>1, MlpBytes
<1>8. DeltaBatch(c, t) \in Nat
  <2>1. /\ 2 * t * c.qkvDim \in Nat /\ 2 * t * (c.nV * c.dv) \in Nat /\ 2 * t * c.nV \in Nat /\ 2 * c.nV * c.dk \in Nat
        /\ t * act_buf_bytes(c.nV * c.dv) \in Nat
    BY <1>1, <1>2, ProductNat
  <2>2. QED
    BY <1>2, <2>1, DeltaBytes
<1>9. AttnBatch(c, t) \in Nat
  <2>1. /\ t * 2 * (c.nHead * c.headDim) \in Nat /\ 2 * t * c.nHeadKv * c.headDim \in Nat /\ 3 * t * (c.nHead * c.headDim) \in Nat
        /\ t * act_buf_bytes(c.nHead * c.headDim) \in Nat
    BY <1>1, <1>2, ProductNat
  <2> DEFINE x == t * 2 * (c.nHead * c.headDim)
             y == 2 * t * c.nHeadKv * c.headDim
             z == 3 * t * (c.nHead * c.headDim)
             b == t * act_buf_bytes(c.nHead * c.headDim)
  <2>2. AttnBatch(c, t) = (x + y + z + 2 * c.ropeDim + c.headDim) * 4 + b
    BY AttnBytes
  <2>3. x \in Nat /\ y \in Nat /\ z \in Nat /\ b \in Nat
    BY <2>1
  <2> HIDE DEF x, y, z, b
  <2>4. QED
    BY <1>1, <2>2, <2>3
<1>10. KvCache(c, pos) \in Nat
  <2>1. 2 * c.nHeadKv * c.headDim * 4 * pos \in Nat
    BY <1>1, ProductNat
  <2>2. QED
    BY <2>1, AttnBytes
<1>11. DeltaState(c) \in Nat
  <2>1. c.qkvDim * (c.kernel - 1) \in Nat /\ c.nV * c.dk * c.dv \in Nat
    BY <1>1, ProductNat
  <2>2. QED
    BY <2>1, DeltaBytes
<1>12. QED
  BY <1>3, <1>4, <1>5, <1>6, <1>7, <1>8, <1>9, <1>10, <1>11

\* The state of a generation and its logits: the lines of the plan that are always there.
LEMMA CarriedBytes ==
  ASSUME NEW c, SizesOf(c), NEW pos \in Nat
  PROVE  /\ deltanet_state_bytes(c) + kv_bytes_per_pos(c) * pos + scratch_bytes(c, pos) = StateBytes(c, pos) + 4 * c.vocab
         /\ StateBytes(c, pos) \in Nat
<1> DEFINE nd == Cardinality(c.deltanet)
           na == Cardinality(c.attention)
           ds == DeltaState(c)
           kv == KvCache(c, pos)
           r  == PlannedRow(c)
           m  == PlannedMlp(c)
           d  == IF HasDn(c) THEN PlannedDelta(c) ELSE 0
           a  == IF HasAt(c) THEN PlannedAttn(c, pos) ELSE 0
<1>1. /\ nd \in Nat /\ na \in Nat /\ ds \in Nat /\ kv \in Nat /\ r \in Nat /\ m \in Nat /\ d \in Nat /\ a \in Nat
      /\ c.vocab \in Nat /\ c.hidden \in Nat
  BY PartBytes DEF SizesOf
<1>2. Total4(<<c.hidden, c.hidden, c.hidden>>) + ActBuf(c.hidden) = r
  BY <1>1, RowBytes3, ActBytes DEF PlannedRow
<1>3. Total4(<<c.hidden, c.hidden, c.hidden>>) \in Int /\ ActBuf(c.hidden) \in Int
  <2>1. 3 * c.hidden * 4 \in Int
    BY <1>1
  <2>2. Total4(<<c.hidden, c.hidden, c.hidden>>) = 3 * c.hidden * 4
    BY <1>1, RowBytes3
  <2>3. ActBuf(c.hidden) \in Int
    BY <1>1, ActBytes
  <2>4. QED
    BY <2>1, <2>2, <2>3
<1>4. Scratch(c, HasDn(c), HasAt(c), pos) = r + m + d + a
  <2>1. /\ MlpScratch(c) = m
        /\ (IF HasDn(c) THEN DeltaScratch(c) ELSE 0) = d /\ (IF HasAt(c) THEN AttnScratch(c, pos) ELSE 0) = a
    BY PartBytes
  <2>2. QED
    BY <1>2, <2>1 DEF Scratch
<1>5. StateBytes(c, pos) = nd * ds + na * kv + (r + m + d + a) + r
  <2> HIDE DEF r, m, d, a
  <2>1. StateBytes(c, pos) = nd * ds + na * kv + (r + m + d + a) + Total4(<<c.hidden, c.hidden, c.hidden>>) + ActBuf(c.hidden)
    BY <1>4 DEF StateBytes
  <2>2. nd * ds \in Int /\ na * kv \in Int
    BY <1>1, ProductNat
  <2>3. QED
    BY <1>1, <1>2, <1>3, <2>1, <2>2
<1>6. deltanet_state_bytes(c) = nd * ds
  <2>1. c.qkvDim \in Nat /\ c.kernel - 1 \in Nat /\ c.nV * c.dk * c.dv \in Nat /\ c.qkvDim * (c.kernel - 1) \in Nat
    BY ProductNat DEF SizesOf
  <2> DEFINE x == c.nV * c.dk * c.dv
             y == c.qkvDim * (c.kernel - 1)
  <2>2. ds = 4 * (y + x) /\ deltanet_state_bytes(c) = nd * (x + y) * 4
    BY DeltaBytes DEF deltanet_state_bytes
  <2> HIDE DEF x, y, nd, ds
  <2>3. x \in Nat /\ y \in Nat
    BY <2>1 DEF x, y
  <2>4. QED
    BY <1>1, <2>2, <2>3
<1>7. kv_bytes_per_pos(c) * pos = na * kv
  <2>1. c.nHeadKv \in Nat /\ c.headDim \in Nat
    BY DEF SizesOf
  <2>2. kv = 2 * c.nHeadKv * c.headDim * 4 * pos /\ kv_bytes_per_pos(c) = na * 2 * c.nHeadKv * c.headDim * 4
    BY AttnBytes DEF kv_bytes_per_pos
  <2> DEFINE x == c.nHeadKv
             y == c.headDim
  <2> HIDE DEF x, y, na, kv
  <2>3. na * 2 * x * y * 4 * pos = na * (2 * x * y * 4 * pos)
    <3>1. x \in Nat /\ y \in Nat /\ na \in Nat /\ pos \in Nat
      BY <1>1, <2>1 DEF x, y
    <3>2. QED
      BY <3>1
  <2>4. QED
    BY <2>2, <2>3 DEF x, y
<1>8. scratch_bytes(c, pos) = 2 * r + m + d + a + c.vocab * 4
  <2> DEFINE mi == 3 * c.inter * 4
             mb == act_buf_bytes(c.inter)
             cv == c.vocab * 4
  <2>1. m = mi + mb /\ r = 3 * c.hidden * 4 + act_buf_bytes(c.hidden)
    BY DEF PlannedMlp, PlannedRow
  <2>2. scratch_bytes(c, pos) = 2 * (3 * c.hidden * 4 + act_buf_bytes(c.hidden)) + mi + mb + d + a + cv
    BY DEF scratch_bytes, PlannedDelta, PlannedAttn
  <2>3. mi \in Int /\ mb \in Int /\ cv \in Int
    <3>1. c.inter \in Nat
      BY DEF SizesOf
    <3>2. QED
      BY <1>1, <3>1, ActBytes
  <2> HIDE DEF mi, mb, cv, r, m, d, a
  <2>4. scratch_bytes(c, pos) = 2 * r + mi + mb + d + a + cv
    BY <2>1, <2>2
  <2>5. scratch_bytes(c, pos) = 2 * r + m + d + a + cv
    BY <1>1, <2>1, <2>3, <2>4
  <2>6. QED
    BY <2>5 DEF cv
<1> HIDE DEF nd, na, ds, kv, r, m, d, a
<1>9. nd * ds \in Nat /\ na * kv \in Nat
  BY <1>1, ProductNat
<1>10. QED
  BY <1>1, <1>5, <1>6, <1>7, <1>8, <1>9

\* A batch of rows.
LEMMA BatchBytes ==
  ASSUME NEW c, SizesOf(c), NEW t \in Nat
  PROVE  /\ BatchScratch(c, HasDn(c), HasAt(c), t) = PlannedBatch(c, t, TRUE)
         /\ BatchScratch(c, FALSE, TRUE, t) = PlannedBatch(c, t, FALSE)
         /\ PlannedBatch(c, t, TRUE) \in Nat /\ PlannedBatch(c, t, FALSE) \in Nat
<1> DEFINE h  == 3 * t * c.hidden * 4
           ha == t * act_buf_bytes(c.hidden)
           i  == 3 * t * c.inter * 4
           ia == t * act_buf_bytes(c.inter)
           d  == DeltaBatch(c, t)
           a  == AttnBatch(c, t)
<1>1. c.hidden \in Nat /\ c.inter \in Nat /\ act_buf_bytes(c.hidden) \in Nat /\ act_buf_bytes(c.inter) \in Nat /\ HasAt(c)
  BY ActBytes DEF SizesOf, HasAt
<1>2. h \in Nat /\ ha \in Nat /\ i \in Nat /\ ia \in Nat
  BY <1>1, ProductNat
<1>3. d \in Nat /\ a \in Nat
  <2>1. 0 \in Nat
    OBVIOUS
  <2>2. QED
    BY <2>1, PartBytes
<1>4. PlannedBatch(c, t, TRUE) = h + ha + i + ia + (IF HasDn(c) THEN d ELSE 0) + a
  BY <1>1, DeltaBytes, AttnBytes DEF PlannedBatch
<1>5. PlannedBatch(c, t, FALSE) = h + ha + i + ia + 0 + a
  BY <1>1, AttnBytes DEF PlannedBatch
<1>6. /\ Total4(<<t * c.hidden, t * c.hidden, t * c.hidden>>) = h /\ t * ActBuf(c.hidden) = ha
      /\ MlpBatch(c, t) = i + ia
  BY <1>1, RowBytes3, MlpBytes, ActBytes
<1>7. \A dn \in BOOLEAN : BatchScratch(c, dn, TRUE, t) = h + ha + (i + ia) + (IF dn THEN d ELSE 0) + a
  BY <1>6 DEF BatchScratch
<1>8. HasDn(c) \in BOOLEAN /\ HasAt(c) = TRUE
  BY <1>1 DEF HasDn, HasAt
<1> HIDE DEF h, ha, i, ia, d, a
<1>9. BatchScratch(c, HasDn(c), HasAt(c), t) = h + ha + (i + ia) + (IF HasDn(c) THEN d ELSE 0) + a
  BY <1>7, <1>8
<1>10. BatchScratch(c, FALSE, TRUE, t) = h + ha + (i + ia) + 0 + a
  BY <1>7
<1> DEFINE all  == BatchScratch(c, HasDn(c), HasAt(c), t)
           part == BatchScratch(c, FALSE, TRUE, t)
           pall == PlannedBatch(c, t, TRUE)
           ppart == PlannedBatch(c, t, FALSE)
           dn   == IF HasDn(c) THEN d ELSE 0
<1>11. all = h + ha + (i + ia) + dn + a /\ part = h + ha + (i + ia) + 0 + a /\ dn \in Nat
  BY <1>3, <1>9, <1>10
<1>12. pall = h + ha + i + ia + dn + a /\ ppart = h + ha + i + ia + 0 + a
  BY <1>4, <1>5
<1> HIDE DEF all, part, pall, ppart, dn
<1>13. all = pall /\ part = ppart /\ pall \in Nat /\ ppart \in Nat
  BY <1>2, <1>3, <1>11, <1>12
<1>14. QED
  BY <1>13 DEF all, part, pall, ppart

\* The draft head's scratch, as spec_scratch_bytes counts it.
PlannedMtp(c, t, pos) ==
  (2 * c.hidden + t * 2 * c.hidden + 3 * t * c.hidden + c.vocab) * 4 + t * act_buf_bytes(2 * c.hidden)
    + act_buf_bytes(c.hidden) + 3 * c.hidden * 4 + act_buf_bytes(c.hidden) + 3 * c.inter * 4 + act_buf_bytes(c.inter)
    + (5 * (c.nHead * c.headDim) + 2 * c.nHeadKv * c.headDim + 2 * c.ropeDim + c.headDim) * 4
    + act_buf_bytes(c.nHead * c.headDim) + 2 * c.nHead * pos * 4 + PlannedBatch(c, t, FALSE)

LEMMA MtpBytes ==
  ASSUME NEW c, SizesOf(c), NEW t \in Nat, NEW pos \in Nat
  PROVE  MtpScratch(c, t, pos) = PlannedMtp(c, t, pos) /\ PlannedMtp(c, t, pos) \in Nat
<1> DEFINE h  == c.hidden
           th == t * c.hidden
           t2 == t * 2 * c.hidden
           v  == c.vocab
           a2 == t * act_buf_bytes(2 * c.hidden)
           ha == act_buf_bytes(c.hidden)
           h3 == 3 * c.hidden * 4
           i3 == 3 * c.inter * 4
           ia == act_buf_bytes(c.inter)
           x  == (5 * (c.nHead * c.headDim) + 2 * c.nHeadKv * c.headDim + 2 * c.ropeDim + c.headDim) * 4
           xa == act_buf_bytes(c.nHead * c.headDim)
           s  == 2 * c.nHead * pos * 4
           b  == PlannedBatch(c, t, FALSE)
<1>1. /\ h \in Nat /\ v \in Nat /\ c.inter \in Nat /\ c.nHead \in Nat /\ c.headDim \in Nat /\ c.nHeadKv \in Nat /\ c.ropeDim \in Nat
      /\ 2 * c.hidden \in Nat
  BY DEF SizesOf
<1>2. th \in Nat /\ t2 \in Nat /\ h3 \in Nat /\ i3 \in Nat /\ c.nHead * c.headDim \in Nat /\ s \in Nat /\ 2 * c.nHeadKv * c.headDim \in Nat
  BY <1>1, ProductNat
<1>3. x \in Nat
  <2> DEFINE y == c.nHead * c.headDim
             z == 2 * c.nHeadKv * c.headDim
  <2>1. y \in Nat /\ z \in Nat
    BY <1>2
  <2> HIDE DEF y, z
  <2>2. (5 * y + z + 2 * c.ropeDim + c.headDim) * 4 \in Nat
    BY <1>1, <2>1
  <2>3. QED
    BY <2>2 DEF y, z
<1>4. ha \in Nat /\ ia \in Nat /\ xa \in Nat /\ act_buf_bytes(2 * c.hidden) \in Nat
  <2>1. \A n \in Nat : act_buf_bytes(n) \in Nat
    BY ActBytes
  <2>2. QED
    BY <1>1, <1>2, <2>1
<1>5. a2 \in Nat /\ b \in Nat
  BY <1>4, ProductNat, BatchBytes
<1>6. Total4(<<h, h, t2, th, th, th, v>>) = 4 * (h + h + t2 + th + th + th + v)
  <2> DEFINE f == <<h, h, t2, th, th, th, v>>
  <2>1. DOMAIN f = 1 .. 7 /\ f[1] = h /\ f[2] = h /\ f[3] = t2 /\ f[4] = th /\ f[5] = th /\ f[6] = th /\ f[7] = v
    OBVIOUS
  <2> HIDE DEF f
  <2>2. \A j \in 1 .. 7 : f[j] \in Int
    BY <1>1, <1>2, <2>1
  <2>3. Total4(f) = 4 * (f[1] + f[2] + f[3] + f[4] + f[5] + f[6] + f[7])
    BY <2>1, <2>2, Total4OfSeven
  <2>4. QED
    BY <2>1, <2>3 DEF f
<1>7. Scratch(c, FALSE, TRUE, pos) = h3 + ha + (i3 + ia) + (x + xa + s)
  <2>1. AttnScratch(c, pos) = x + xa + s /\ MlpScratch(c) = i3 + ia
    BY AttnBytes, MlpBytes
  <2>2. Total4(<<c.hidden, c.hidden, c.hidden>>) = h3
    BY <1>1, RowBytes3
  <2>3. ActBuf(c.hidden) = ha
    BY <1>1, ActBytes
  <2>4. Scratch(c, FALSE, TRUE, pos) = h3 + ha + (i3 + ia) + 0 + (x + xa + s)
    BY <2>1, <2>2, <2>3 DEF Scratch
  <2> DEFINE sc == Scratch(c, FALSE, TRUE, pos)
  <2>5. sc = h3 + ha + (i3 + ia) + 0 + (x + xa + s)
    BY <2>4
  <2> HIDE DEF h3, ha, i3, ia, x, xa, s, sc
  <2>6. sc = h3 + ha + (i3 + ia) + (x + xa + s)
    BY <1>2, <1>3, <1>4, <2>5
  <2>7. QED
    BY <2>6 DEF sc
<1>8. MtpScratch(c, t, pos) = 4 * (h + h + t2 + th + th + th + v) + a2 + (h3 + ha + (i3 + ia) + (x + xa + s)) + b + ha
  <2>1. ActBuf(2 * c.hidden) = act_buf_bytes(2 * c.hidden) /\ ActBuf(c.hidden) = ha
    BY <1>1, ActBytes
  <2>2. BatchScratch(c, FALSE, TRUE, t) = b
    BY BatchBytes
  <2>3. QED
    BY <1>6, <1>7, <2>1, <2>2 DEF MtpScratch
<1>9. PlannedMtp(c, t, pos) = (2 * h + t2 + 3 * t * h + v) * 4 + a2 + ha + h3 + ha + i3 + ia + x + xa + s + b
  BY DEF PlannedMtp
<1>10. 3 * t * h = 3 * th
  BY <1>1
<1> HIDE DEF h, th, t2, v, a2, ha, h3, i3, ia, x, xa, s, b
<1>11. PlannedMtp(c, t, pos) = (2 * h + t2 + 3 * th + v) * 4 + a2 + ha + h3 + ha + i3 + ia + x + xa + s + b
  BY <1>9, <1>10
<1>12. QED
  BY <1>1, <1>2, <1>3, <1>4, <1>5, <1>8, <1>11

\* The state of speculative decoding, from the vectors of its own.
LEMMA SpecBytes ==
  ASSUME NEW c, SizesOf(c), NEW n \in Nat, n > 0, NEW pos \in Nat
  PROVE  SpecStateBytes(c, n, pos) = spec_bytes(c, n, pos) /\ spec_bytes(c, n, pos) \in Nat
<1> DEFINE t   == n + 1
           nd  == Cardinality(c.deltanet)
           sn  == nd * (c.nV * c.dk * c.dv + c.qkvDim * (c.kernel - 1))
           th  == t * c.hidden
           tv  == t * c.vocab
           q   == nd * t * c.qkvDim
           g   == nd * t * c.nV
           nv  == n * c.vocab
           ta  == t * act_buf_bytes(c.hidden)
           kv  == KvCache(c, pos)
           m   == PlannedMtp(c, t, pos)
           b   == PlannedBatch(c, t, TRUE)
<1>1. /\ t \in Nat /\ nd \in Nat /\ c.hidden \in Nat /\ c.vocab \in Nat /\ c.qkvDim \in Nat /\ c.nV \in Nat /\ c.dk \in Nat
      /\ c.dv \in Nat /\ c.kernel - 1 \in Nat
  BY DEF SizesOf
<1>2. ActBuf(c.hidden) = act_buf_bytes(c.hidden) /\ act_buf_bytes(c.hidden) \in Nat
  BY <1>1, ActBytes
<1>3. th \in Nat /\ tv \in Nat /\ q \in Nat /\ g \in Nat /\ nv \in Nat /\ ta \in Nat
  BY <1>1, <1>2, ProductNat
<1>4. sn \in Nat
  <2>1. c.nV * c.dk * c.dv \in Nat /\ c.qkvDim * (c.kernel - 1) \in Nat
    BY <1>1, ProductNat
  <2>2. c.nV * c.dk * c.dv + c.qkvDim * (c.kernel - 1) \in Nat
    BY <2>1
  <2>3. QED
    BY <1>1, <2>2, ProductNat
<1>5. kv \in Nat /\ m \in Nat /\ b \in Nat
  BY <1>1, PartBytes, MtpBytes, BatchBytes
<1>6. Total4(<<th, th, th, tv, sn, q, g, g, nv>>) = 4 * (th + th + th + tv + sn + q + g + g + nv)
  <2> DEFINE f == <<th, th, th, tv, sn, q, g, g, nv>>
  <2>1. DOMAIN f = 1 .. 9 /\ f[1] = th /\ f[2] = th /\ f[3] = th /\ f[4] = tv /\ f[5] = sn /\ f[6] = q /\ f[7] = g /\ f[8] = g /\ f[9] = nv
    OBVIOUS
  <2> HIDE DEF f, th, tv, sn, q, g, nv
  <2>2. \A j \in 1 .. 9 : f[j] \in Int
    BY <1>3, <1>4, <2>1
  <2>3. Total4(f) = 4 * (f[1] + f[2] + f[3] + f[4] + f[5] + f[6] + f[7] + f[8] + f[9])
    BY <2>1, <2>2, Total4OfNine
  <2>4. QED
    BY <2>1, <2>3 DEF f
<1>7. Total4(<<n, t, t>>) = 4 * (n + t + t)
  <2> DEFINE f == <<n, t, t>>
  <2>1. DOMAIN f = 1 .. 3 /\ f[1] = n /\ f[2] = t /\ f[3] = t
    OBVIOUS
  <2> HIDE DEF f
  <2>2. \A j \in 1 .. 3 : f[j] \in Int
    BY <1>1, <2>1
  <2>3. Total4(f) = 4 * (f[1] + f[2] + f[3])
    BY <2>1, <2>2, Total4OfThree
  <2>4. QED
    BY <2>1, <2>3 DEF f
<1>8. SpecStateBytes(c, n, pos) = b + 4 * (th + th + th + tv + sn + q + g + g + nv) + ta + kv + m + 4 * (n + t + t) + 8 * (n + t)
  <2>1. BatchScratch(c, HasDn(c), HasAt(c), t) = b
    BY <1>1, BatchBytes
  <2>2. MtpScratch(c, t, pos) = m
    BY <1>1, MtpBytes
  <2> HIDE DEF b, m, kv
  <2>3. SpecStateBytes(c, n, pos) =
          BatchScratch(c, HasDn(c), HasAt(c), t) + Total4(<<th, th, th, tv, sn, q, g, g, nv>>) + t * ActBuf(c.hidden)
            + KvCache(c, pos) + MtpScratch(c, t, pos) + Total4(<<n, t, t>>) + 8 * (n + t)
    BY DEF SpecStateBytes
  <2>4. QED
    BY <1>2, <1>6, <1>7, <2>1, <2>2, <2>3 DEF kv
<1>9. spec_scratch_bytes(c, n, pos) = b + 3 * t * c.hidden * 4 + ta + t * c.vocab * 4 + SavedInputs(c, t) + m + n * 4 + n * c.vocab * 4 + 2 * t * 4 + (n + t) * 8
  BY DEF spec_scratch_bytes, PlannedMtp
<1>10. SavedInputs(c, t) = (q + 2 * g) * 4
  <2>1. nd * t * (c.qkvDim + 2 * c.nV) = nd * t * c.qkvDim + 2 * (nd * t * c.nV)
    BY <1>1
  <2>2. QED
    BY <2>1 DEF SavedInputs
<1>11. 3 * t * c.hidden * 4 = 12 * th /\ t * c.vocab * 4 = 4 * tv /\ n * c.vocab * 4 = 4 * nv
  BY <1>1
<1>12. spec_snapshot_bytes(c) = sn * 4
  BY DEF spec_snapshot_bytes, deltanet_state_bytes
<1>13. spec_mtp_kv_bytes(c, pos) = kv
  <2>1. 0 \in Nat
    OBVIOUS
  <2>2. QED
    BY <2>1, AttnBytes DEF spec_mtp_kv_bytes
<1> DEFINE ss == spec_scratch_bytes(c, n, pos)
<1>14. spec_bytes(c, n, pos) = sn * 4 + kv + ss
  BY <1>12, <1>13 DEF spec_bytes
<1>15. t = n + 1
  OBVIOUS
<1> HIDE DEF th, tv, q, g, nv, ta, kv, m, b, sn, ss
<1>16. ss = b + 12 * th + ta + 4 * tv + (q + 2 * g) * 4 + m + n * 4 + 4 * nv + 2 * t * 4 + (n + t) * 8
  BY <1>9, <1>10, <1>11 DEF ss
<1> HIDE DEF t
<1>17. QED
  BY <1>1, <1>3, <1>4, <1>5, <1>8, <1>14, <1>16

\* What a plan counts for the state of a generation is what the generation allocates.
LEMMA StateAsPlanned ==
  ASSUME SizesOf(config), NEW pos \in Nat, NEW n \in Nat
  PROVE  /\ PlannedState(pos, n) \in Nat
         /\ PlannedState(pos, n) =
              StateBytes(config, pos) + 4 * config.vocab + (IF n > 0 THEN SpecStateBytes(config, n, pos) ELSE 0)
<1> DEFINE s == StateBytes(config, pos)
           v == 4 * config.vocab
           p == spec_bytes(config, n, pos)
           x == deltanet_state_bytes(config) + kv_bytes_per_pos(config) * pos + scratch_bytes(config, pos)
<1>1. x = s + v /\ s \in Nat /\ v \in Nat
  BY CarriedBytes DEF SizesOf
<1>2. PlannedState(pos, n) = x + p
  BY DEF PlannedState
<1>3. p \in Nat /\ p = IF n > 0 THEN SpecStateBytes(config, n, pos) ELSE 0
  <2>1. CASE n > 0
    BY <2>1, SpecBytes
  <2>2. CASE ~(n > 0)
    BY <2>2 DEF spec_bytes
  <2>3. QED
    BY <2>1, <2>2
<1> HIDE DEF s, v, p, x
<1>4. PlannedState(pos, n) = s + v + p /\ PlannedState(pos, n) \in Nat
  BY <1>1, <1>2, <1>3
<1>5. QED
  BY <1>3, <1>4 DEF s, v

-----------------------------------------------------------------------------
(* The sizes of an accepted configuration.                                 *)

\* The kernel of the convolution, of a file the plan can count.
LEMMA KernelVal ==
  ASSUME IsFile(file), IsCounted(file), GetError(file, "ssm.conv_kernel", "UINT32", "") = ""
  PROVE  Val("ssm.conv_kernel") \in Nat \ {0}
<1> DEFINE key == "ssm.conv_kernel"
<1>1. Val(key) \in Nat
  BY U32Val
<1>2. \E i \in DOMAIN file.kv : file.kv[i].key = key
  BY DEF GetError, Has
<1> DEFINE i == CHOOSE i \in DOMAIN file.kv : file.kv[i].key = key
<1>3. i \in DOMAIN file.kv /\ Kv(file, key) = file.kv[i] /\ file.kv[i].key = key
  BY <1>2 DEF Kv
<1> HIDE DEF i
<1>4. HasType(Kv(file, key), "UINT32")
  BY DEF GetError
<1>5. file.kv[i].val # 0
  BY <1>3, <1>4 DEF IsCounted
<1>6. QED
  BY <1>1, <1>3, <1>5 DEF Val

LEMMA PairParts == ASSUME NEW x, NEW a, NEW b, x = <<a, b>>, x \in Seq(Nat) PROVE a \in Nat /\ b \in Nat
<1>1. Len(x) = 2 /\ x[1] = a /\ x[2] = b
  OBVIOUS
<1>2. 1 \in 1 .. Len(x) /\ 2 \in 1 .. Len(x)
  BY <1>1
<1>3. \A i \in 1 .. Len(x) : x[i] \in Nat
  OBVIOUS
<1>4. QED
  BY <1>1, <1>2, <1>3

\* The size of the vocabulary is that of the embedding.
LEMMA VocabNat ==
  ASSUME HeaderInv, stage = "opened", EmbeddingErrors = "" PROVE Config.vocab \in Nat
<1> DEFINE name == <<NoLayer, "token_embd.weight">>
           x == Tensor(name).shape
<1>1. HasTensor(name) /\ x = <<Config.hidden, Config.vocab>>
  BY DEF EmbeddingErrors
<1>2. Tensor(name) \in index
  BY <1>1, FoundTensor
<1>3. x \in Seq(Nat)
  BY <1>2, IndexTensors DEF TensorInfo
<1> HIDE DEF x
<1>4. QED
  BY <1>1, <1>3, PairParts

LEMMA SizeNumbers ==
  ASSUME NEW n \in Nat, NEW v \in Nat \ {0}, NEW k1 \in Nat, NEW d \in Nat
  PROVE  n \div v \in Nat /\ 2 * k1 * d + v * (n \div v) \in Nat
<1>1. n \div v \in Nat
  OBVIOUS
<1> DEFINE q == n \div v
<1> HIDE DEF q
<1>2. k1 * d \in Nat
  OBVIOUS
<1>3. q \in Nat
  BY <1>1 DEF q
<1>4. v * q \in Nat
  BY <1>3
<1>5. 2 * k1 * d = 2 * (k1 * d)
  OBVIOUS
<1> DEFINE a == k1 * d
           b == v * q
<1>6. a \in Nat /\ b \in Nat
  BY <1>2, <1>4
<1> HIDE DEF a, b
<1>7. 2 * a + b \in Nat
  BY <1>6
<1>8. QED
  BY <1>1, <1>5, <1>7 DEF a, b, q

LEMMA LayerSetSize == ASSUME NEW n \in Nat, NEW S, S \subseteq 0 .. n - 1 PROVE IsFiniteSet(S) /\ Cardinality(S) \in Nat
<1>1. IsFiniteSet(0 .. n - 1)
  BY RangeCount
<1>2. IsFiniteSet(S)
  BY <1>1, FS_Subset
<1>3. QED
  BY <1>2, FS_CardinalityType

LEMMA TwoToSix == 2 \in 2 .. 6 /\ 3 \in 2 .. 6 /\ 4 \in 2 .. 6 /\ 5 \in 2 .. 6 /\ 6 \in 2 .. 6
  OBVIOUS

LEMMA OneToFive == 1 \in 1 .. 5 /\ 2 \in 1 .. 5 /\ 3 \in 1 .. 5 /\ 4 \in 1 .. 5 /\ 5 \in 1 .. 5
  OBVIOUS

LEMMA KeysOfSizes ==
  /\ "embedding_length" \in SizeKeys /\ "feed_forward_length" \in SizeKeys /\ "attention.head_count" \in SizeKeys
  /\ "attention.head_count_kv" \in SizeKeys /\ "attention.key_length" \in SizeKeys
  /\ "ssm.conv_kernel" \in SizeKeys /\ "ssm.state_size" \in SizeKeys /\ "ssm.group_count" \in SizeKeys
  /\ "ssm.time_step_rank" \in SizeKeys /\ "ssm.inner_size" \in SizeKeys
<1>1. /\ "embedding_length" \in SizeKeys /\ "feed_forward_length" \in SizeKeys /\ "attention.head_count" \in SizeKeys
      /\ "attention.head_count_kv" \in SizeKeys /\ "attention.key_length" \in SizeKeys
  <2>1. /\ SevenKeys[2] = "embedding_length" /\ SevenKeys[3] = "feed_forward_length" /\ SevenKeys[4] = "attention.head_count"
        /\ SevenKeys[5] = "attention.head_count_kv" /\ SevenKeys[6] = "attention.key_length"
    BY DEF SevenKeys
  <2>2. \A i \in 2 .. 6 : SevenKeys[i] \in SizeKeys
    BY DEF SizeKeys
  <2>3. QED
    BY <2>1, <2>2, TwoToSix
<1>2. /\ "ssm.conv_kernel" \in SizeKeys /\ "ssm.state_size" \in SizeKeys /\ "ssm.group_count" \in SizeKeys
      /\ "ssm.time_step_rank" \in SizeKeys /\ "ssm.inner_size" \in SizeKeys
  <2>1. /\ FiveKeys[1] = "ssm.conv_kernel" /\ FiveKeys[2] = "ssm.state_size" /\ FiveKeys[3] = "ssm.group_count"
        /\ FiveKeys[4] = "ssm.time_step_rank" /\ FiveKeys[5] = "ssm.inner_size"
    BY DEF FiveKeys
  <2>2. \A i \in 1 .. 5 : FiveKeys[i] \in SizeKeys
    BY DEF SizeKeys
  <2>3. QED
    BY <2>1, <2>2, OneToFive
<1>3. QED
  BY <1>1, <1>2

LEMMA AcceptedSizes ==
  ASSUME HeaderInv, stage = "opened", IsCounted(file), ConfigError = ""
  PROVE  SizesOf(Config)
<1>1. IsFile(file)
  BY DEF HeaderInv, ReaderType
<1>2. KeyErrors(RemainingKeys) = "" /\ HeadErrors = "" /\ EmbeddingErrors = "" /\ BlockErrors = ""
  BY DEF ConfigError
<1>3. \A key \in SizeKeys : GetError(file, key, "UINT32", "") = "" /\ Val(key) \in Nat
  <2> SUFFICES ASSUME NEW key \in SizeKeys PROVE GetError(file, key, "UINT32", "") = "" /\ Val(key) \in Nat
    OBVIOUS
  <2>1. GetError(file, key, "UINT32", "") = ""
    BY <1>2, RemainingKeysFacts, KeyErrorFacts
  <2>2. QED
    BY <1>1, <2>1, U32Val
<1>4. /\ "embedding_length" \in SizeKeys /\ "feed_forward_length" \in SizeKeys /\ "attention.head_count" \in SizeKeys
      /\ "attention.head_count_kv" \in SizeKeys /\ "attention.key_length" \in SizeKeys
  BY KeysOfSizes
<1>5. /\ "ssm.conv_kernel" \in SizeKeys /\ "ssm.state_size" \in SizeKeys /\ "ssm.group_count" \in SizeKeys
      /\ "ssm.time_step_rank" \in SizeKeys /\ "ssm.inner_size" \in SizeKeys
  BY KeysOfSizes
<1>6. "rope.dimension_count" \in SizeKeys
  BY DEF SizeKeys
<1> DEFINE h   == Val("embedding_length")
           i   == Val("feed_forward_length")
           nh  == Val("attention.head_count")
           nkv == Val("attention.head_count_kv")
           hd  == Val("attention.key_length")
           r   == Val("rope.dimension_count")
           nv  == Val("ssm.time_step_rank")
           nk  == Val("ssm.group_count")
           dk  == Val("ssm.state_size")
           is  == Val("ssm.inner_size")
           kn  == Val("ssm.conv_kernel")
           c   == Config
           n   == Config.nLayer
<1>7. /\ h \in Nat /\ i \in Nat /\ nh \in Nat /\ nkv \in Nat /\ hd \in Nat /\ r \in Nat /\ nv \in Nat /\ nk \in Nat
      /\ dk \in Nat /\ is \in Nat
  BY <1>3, <1>4, <1>5, <1>6
<1>8. kn \in Nat \ {0}
  BY <1>1, <1>3, <1>5, KernelVal
<1>9. nv \in Nat \ {0}
  <2>1. nv # 0
    BY <1>2 DEF HeadErrors, Unless
  <2>2. QED
    BY <1>7, <2>1
<1>10. c.vocab \in Nat
  BY <1>2, VocabNat
<1>11. n \in Nat
  BY <1>1, AcceptedBlocks DEF BlocksOf
<1>12. c.attention \subseteq 0 .. n - 1 /\ c.deltanet \subseteq 0 .. n - 1
  BY DEF Config
<1>13. c.attention # {}
  BY <1>2 DEF BlockErrors
<1>14. Cardinality(c.attention) \in Nat /\ Cardinality(c.deltanet) \in Nat
  BY <1>11, <1>12, LayerSetSize
<1>15. /\ c.hidden = h /\ c.inter = i /\ c.nHead = nh /\ c.nHeadKv = nkv /\ c.headDim = hd /\ c.ropeDim = r
       /\ c.nV = nv /\ c.dk = dk /\ c.dv = is \div nv /\ c.kernel = kn /\ c.qDim = nh * hd /\ c.kvDim = nkv * hd
       /\ c.vDim = nv * (is \div nv) /\ c.qkvDim = 2 * nk * dk + nv * (is \div nv)
  BY DEF Config
<1> HIDE DEF h, i, nh, nkv, hd, r, nv, nk, dk, is, kn, c, n
<1>16. is \div nv \in Nat /\ 2 * nk * dk + nv * (is \div nv) \in Nat
  BY <1>7, <1>9, SizeNumbers
<1>17. SizesOf(c)
  BY <1>7, <1>8, <1>10, <1>13, <1>14, <1>15, <1>16 DEF SizesOf
<1>18. QED
  BY <1>17 DEF c

-----------------------------------------------------------------------------
(* The resident copies of a block.                                         *)

TensorSuffixes == {"attn_q.weight", "attn_k.weight", "attn_v.weight", "attn_output.weight", "attn_q_norm.weight",
  "attn_k_norm.weight", "attn_qkv.weight", "attn_gate.weight", "ssm_alpha.weight", "ssm_beta.weight", "ssm_a",
  "ssm_dt.bias", "ssm_conv1d.weight", "ssm_norm.weight", "ssm_out.weight", "attn_norm.weight",
  "post_attention_norm.weight", "ffn_gate.weight", "ffn_up.weight", "ffn_down.weight", "nextn.eh_proj.weight",
  "nextn.enorm.weight", "nextn.hnorm.weight", "nextn.shared_head_norm.weight", "token_embd.weight",
  "output.weight", "output_norm.weight"}

Entries == {"mat", "vec"} \X TensorSuffixes \X Nat \X Nat

\* The sizes that tensors are made of are natural numbers.
LEMMA SizeProducts ==
  ASSUME NEW c, SizesOf(c)
  PROVE  /\ c.qDim \in Nat /\ c.kvDim \in Nat /\ c.vDim \in Nat /\ 2 * c.nHead * c.headDim \in Nat
         /\ c.qkvDim * c.kernel \in Nat /\ 2 * c.hidden \in Nat
<1> DEFINE nh == c.nHead
           nk == c.nHeadKv
           hd == c.headDim
           nv == c.nV
           dv == c.dv
           q  == c.qkvDim
           kn == c.kernel
           h  == c.hidden
<1>1. /\ nh \in Nat /\ nk \in Nat /\ hd \in Nat /\ nv \in Nat /\ dv \in Nat /\ q \in Nat /\ kn \in Nat /\ h \in Nat
      /\ c.qDim = nh * hd /\ c.kvDim = nk * hd /\ c.vDim = nv * dv
  BY DEF SizesOf
<1> HIDE DEF nh, nk, hd, nv, dv, q, kn, h
<1>2. nh * hd \in Nat /\ nk * hd \in Nat /\ nv * dv \in Nat /\ q * kn \in Nat /\ 2 * h \in Nat
  BY <1>1
<1>3. 2 * nh * hd = 2 * (nh * hd)
  BY <1>1
<1> DEFINE p == nh * hd
<1>4. p \in Nat
  BY <1>2
<1> HIDE DEF p
<1>5. 2 * p \in Nat
  BY <1>4
<1>6. 2 * nh * hd \in Nat
  BY <1>3, <1>5 DEF p
<1>7. QED
  BY <1>1, <1>2, <1>6 DEF nh, nk, hd, nv, dv, q, kn, h

LEMMA AttentionEntries ==
  ASSUME NEW c, SizesOf(c)
  PROVE  LET a == AttentionTensors(c)
         IN  /\ a \in Seq(Entries) /\ Len(a) = 6
             /\ a[1][1] = "mat" /\ a[2][1] = "mat" /\ a[3][1] = "mat" /\ a[4][1] = "mat"
             /\ a[5] = Vec("attn_q_norm.weight", c.headDim) /\ a[6] = Vec("attn_k_norm.weight", c.headDim)
<1> DEFINE a  == AttentionTensors(c)
           e1 == Mat("attn_q.weight", 2 * c.nHead * c.headDim, c.hidden)
           e2 == Mat("attn_k.weight", c.kvDim, c.hidden)
           e3 == Mat("attn_v.weight", c.kvDim, c.hidden)
           e4 == Mat("attn_output.weight", c.hidden, c.qDim)
           e5 == Vec("attn_q_norm.weight", c.headDim)
           e6 == Vec("attn_k_norm.weight", c.headDim)
<1>1. /\ c.hidden \in Nat /\ c.headDim \in Nat /\ c.qDim \in Nat /\ c.kvDim \in Nat
      /\ 2 * c.nHead * c.headDim \in Nat
  BY SizeProducts DEF SizesOf
<1>2. e1 \in Entries /\ e2 \in Entries /\ e3 \in Entries /\ e4 \in Entries /\ e5 \in Entries /\ e6 \in Entries
  BY <1>1 DEF Mat, Vec, Entries, TensorSuffixes
<1>3. e1[1] = "mat" /\ e2[1] = "mat" /\ e3[1] = "mat" /\ e4[1] = "mat"
  BY DEF Mat
<1>4. a = <<e1, e2, e3, e4, e5, e6>>
  BY DEF AttentionTensors
<1> HIDE DEF a, e1, e2, e3, e4, e5, e6
<1>5. a \in Seq(Entries) /\ Len(a) = 6 /\ a[1] = e1 /\ a[2] = e2 /\ a[3] = e3 /\ a[4] = e4 /\ a[5] = e5 /\ a[6] = e6
  BY <1>2, <1>4
<1>6. QED
  BY <1>3, <1>5 DEF a, e5, e6

LEMMA DeltaNetEntries ==
  ASSUME NEW c, SizesOf(c)
  PROVE  LET d == DeltaNetTensors(c)
         IN  /\ d \in Seq(Entries) /\ Len(d) = 9
             /\ d[1][1] = "mat" /\ d[2][1] = "mat" /\ d[3][1] = "mat" /\ d[4][1] = "mat" /\ d[9][1] = "mat"
             /\ d[5] = Vec("ssm_a", c.nV) /\ d[6] = Vec("ssm_dt.bias", c.nV)
             /\ d[7] = Vec("ssm_conv1d.weight", c.qkvDim * c.kernel) /\ d[8] = Vec("ssm_norm.weight", c.dv)
<1> DEFINE d  == DeltaNetTensors(c)
           e1 == Mat("attn_qkv.weight", c.qkvDim, c.hidden)
           e2 == Mat("attn_gate.weight", c.vDim, c.hidden)
           e3 == Mat("ssm_alpha.weight", c.nV, c.hidden)
           e4 == Mat("ssm_beta.weight", c.nV, c.hidden)
           e5 == Vec("ssm_a", c.nV)
           e6 == Vec("ssm_dt.bias", c.nV)
           e7 == Vec("ssm_conv1d.weight", c.qkvDim * c.kernel)
           e8 == Vec("ssm_norm.weight", c.dv)
           e9 == Mat("ssm_out.weight", c.hidden, c.vDim)
<1>1. /\ c.hidden \in Nat /\ c.qkvDim \in Nat /\ c.nV \in Nat /\ c.dv \in Nat /\ c.vDim \in Nat
      /\ c.qkvDim * c.kernel \in Nat
  BY SizeProducts DEF SizesOf
<1>2. /\ e1 \in Entries /\ e2 \in Entries /\ e3 \in Entries /\ e4 \in Entries /\ e5 \in Entries /\ e6 \in Entries
      /\ e7 \in Entries /\ e8 \in Entries /\ e9 \in Entries
  BY <1>1 DEF Mat, Vec, Entries, TensorSuffixes
<1>3. e1[1] = "mat" /\ e2[1] = "mat" /\ e3[1] = "mat" /\ e4[1] = "mat" /\ e9[1] = "mat"
  BY DEF Mat
<1>4. d = <<e1, e2, e3, e4, e5, e6, e7, e8, e9>>
  BY DEF DeltaNetTensors
<1> HIDE DEF d, e1, e2, e3, e4, e5, e6, e7, e8, e9
<1>5. /\ d \in Seq(Entries) /\ Len(d) = 9 /\ d[1] = e1 /\ d[2] = e2 /\ d[3] = e3 /\ d[4] = e4 /\ d[5] = e5 /\ d[6] = e6
      /\ d[7] = e7 /\ d[8] = e8 /\ d[9] = e9
  BY <1>2, <1>4
<1>6. QED
  BY <1>3, <1>5 DEF d, e5, e6, e7, e8

LEMMA NormAndMlpEntries ==
  ASSUME NEW c, SizesOf(c)
  PROVE  LET m == NormAndMlpTensors(c)
         IN  /\ m \in Seq(Entries) /\ Len(m) = 5
             /\ m[1] = Vec("attn_norm.weight", c.hidden) /\ m[2] = Vec("post_attention_norm.weight", c.hidden)
             /\ m[3][1] = "mat" /\ m[4][1] = "mat" /\ m[5][1] = "mat"
<1> DEFINE m  == NormAndMlpTensors(c)
           e1 == Vec("attn_norm.weight", c.hidden)
           e2 == Vec("post_attention_norm.weight", c.hidden)
           e3 == Mat("ffn_gate.weight", c.inter, c.hidden)
           e4 == Mat("ffn_up.weight", c.inter, c.hidden)
           e5 == Mat("ffn_down.weight", c.hidden, c.inter)
<1>1. c.hidden \in Nat /\ c.inter \in Nat
  BY SizeProducts DEF SizesOf
<1>2. e1 \in Entries /\ e2 \in Entries /\ e3 \in Entries /\ e4 \in Entries /\ e5 \in Entries
  BY <1>1 DEF Mat, Vec, Entries, TensorSuffixes
<1>3. e3[1] = "mat" /\ e4[1] = "mat" /\ e5[1] = "mat"
  BY DEF Mat
<1>4. m = <<e1, e2, e3, e4, e5>>
  BY DEF NormAndMlpTensors
<1> HIDE DEF m, e1, e2, e3, e4, e5
<1>5. m \in Seq(Entries) /\ Len(m) = 5 /\ m[1] = e1 /\ m[2] = e2 /\ m[3] = e3 /\ m[4] = e4 /\ m[5] = e5
  BY <1>2, <1>4
<1>6. QED
  BY <1>3, <1>5 DEF m, e1, e2

LEMMA MtpAndHeadEntries ==
  ASSUME NEW c, SizesOf(c) PROVE MtpLoad(c) \in Seq(Entries) /\ HeadLoad(c) \in Seq(Entries)
<1> DEFINE a == AttentionTensors(c)
           m == NormAndMlpTensors(c)
           e1 == Mat("nextn.eh_proj.weight", c.hidden, 2 * c.hidden)
           e2 == Vec("nextn.enorm.weight", c.hidden)
           e3 == Vec("nextn.hnorm.weight", c.hidden)
           e4 == Vec("nextn.shared_head_norm.weight", c.hidden)
           x  == <<e1, e2, e3, e4>>
           h1 == Mat("token_embd.weight", c.vocab, c.hidden)
           h2 == Mat("output.weight", c.vocab, c.hidden)
           h3 == Vec("output_norm.weight", c.hidden)
<1>1. c.hidden \in Nat /\ c.vocab \in Nat /\ 2 * c.hidden \in Nat
  BY SizeProducts DEF SizesOf
<1>2. e1 \in Entries /\ e2 \in Entries /\ e3 \in Entries /\ e4 \in Entries /\ h1 \in Entries /\ h2 \in Entries /\ h3 \in Entries
  BY <1>1 DEF Mat, Vec, Entries, TensorSuffixes
<1>3. MtpLoad(c) = a \o m \o x /\ HeadLoad(c) = <<h1, h2, h3>>
  BY DEF MtpLoad, HeadLoad
<1>4. a \in Seq(Entries) /\ m \in Seq(Entries)
  BY AttentionEntries, NormAndMlpEntries
<1> HIDE DEF a, m, e1, e2, e3, e4, h1, h2, h3
<1>5. x \in Seq(Entries) /\ <<h1, h2, h3>> \in Seq(Entries)
  BY <1>2
<1> HIDE DEF x
<1>6. a \o m \in Seq(Entries)
  BY <1>4, Concatenated
<1>7. (a \o m) \o x \in Seq(Entries)
  BY <1>5, <1>6, Concatenated
<1>8. QED
  BY <1>3, <1>5, <1>7

-----------------------------------------------------------------------------
(* The copies made of the small tensors of a block.                        *)

LEMMA EntryBytes == \A n \in Nat : 4 * n \in Nat
  OBVIOUS

\* The copies of a list are finitely many, of natural sizes.
LEMMA CopiedNat ==
  ASSUME NEW list \in Seq(Entries)
  PROVE  /\ IsFiniteSet(Copies(list)) /\ CopiedBytes(list) \in Nat
         /\ \A i \in Copies(list) : 4 * list[i][3] \in Nat
<1> DEFINE D == Copies(list)
           e == [i \in D |-> 4 * list[i][3]]
<1>1. DOMAIN list = 1 .. Len(list) /\ Len(list) \in Nat /\ \A i \in DOMAIN list : list[i] \in Entries
  OBVIOUS
<1>2. IsFiniteSet(1 .. Len(list))
  BY <1>1, FS_Interval
<1>3. IsFiniteSet(D)
  BY <1>1, <1>2, FS_Subset DEF Copies
<1>4. \A x \in Entries : x[3] \in Nat
  BY DEF Entries
<1>5. \A i \in D : list[i][3] \in Nat
  BY <1>1, <1>4 DEF Copies
<1>6. \A i \in D : 4 * list[i][3] \in Nat
  BY <1>5, EntryBytes
<1>7. \A i \in D : e[i] \in Nat
  BY <1>6
<1>8. D \in SUBSET D
  OBVIOUS
<1> HIDE DEF e
<1>9. SumFunctionOnSet(e, D) \in Nat
  BY <1>3, <1>7, <1>8, SumPart
<1>10. QED
  BY <1>3, <1>6, <1>9 DEF CopiedBytes, e

\* The resident copies of a list: each of a small tensor, no two of the same one.
OfSmall(list) ==
  /\ \A i \in Copies(list) : list[i][2] \in SmallSuffixes
  /\ \A i, j \in Copies(list) : list[i][2] = list[j][2] => i = j

LEMMA UpToEleven == \A i \in 1 .. 11 : i = 1 \/ i = 2 \/ i = 3 \/ i = 4 \/ i = 5 \/ i = 6 \/ i = 7 \/ i = 8 \/ i = 9 \/ i = 10 \/ i = 11
  OBVIOUS

LEMMA UpToFourteen ==
  \A i \in 1 .. 14 : i = 1 \/ i = 2 \/ i = 3 \/ i = 4 \/ i = 5 \/ i = 6 \/ i = 7 \/ i = 8 \/ i = 9 \/ i = 10 \/ i = 11
                       \/ i = 12 \/ i = 13 \/ i = 14
  OBVIOUS

LEMMA SixFive ==
  ASSUME NEW s, NEW a, NEW m,
         \A i \in 1 .. 6 : s[i] = a[i], \A i \in 1 .. 5 : s[6 + i] = m[i]
  PROVE  /\ s[1] = a[1] /\ s[2] = a[2] /\ s[3] = a[3] /\ s[4] = a[4] /\ s[5] = a[5] /\ s[6] = a[6]
         /\ s[7] = m[1] /\ s[8] = m[2] /\ s[9] = m[3] /\ s[10] = m[4] /\ s[11] = m[5]
<1>1. s[6 + 1] = m[1] /\ s[6 + 2] = m[2] /\ s[6 + 3] = m[3] /\ s[6 + 4] = m[4] /\ s[6 + 5] = m[5]
  OBVIOUS
<1>2. QED
  BY <1>1

LEMMA NineFive ==
  ASSUME NEW s, NEW a, NEW m,
         \A i \in 1 .. 9 : s[i] = a[i], \A i \in 1 .. 5 : s[9 + i] = m[i]
  PROVE  /\ s[1] = a[1] /\ s[2] = a[2] /\ s[3] = a[3] /\ s[4] = a[4] /\ s[5] = a[5] /\ s[6] = a[6] /\ s[7] = a[7] /\ s[8] = a[8] /\ s[9] = a[9]
         /\ s[10] = m[1] /\ s[11] = m[2] /\ s[12] = m[3] /\ s[13] = m[4] /\ s[14] = m[5]
<1>1. s[9 + 1] = m[1] /\ s[9 + 2] = m[2] /\ s[9 + 3] = m[3] /\ s[9 + 4] = m[4] /\ s[9 + 5] = m[5]
  OBVIOUS
<1>2. QED
  BY <1>1

LEMMA AttentionCopies ==
  ASSUME NEW c, SizesOf(c)
  PROVE  LET list == AttentionTensors(c) \o NormAndMlpTensors(c) IN list \in Seq(Entries) /\ OfSmall(list)
<1> DEFINE a == AttentionTensors(c)
           m == NormAndMlpTensors(c)
           list == a \o m
           n5 == "attn_q_norm.weight"
           n6 == "attn_k_norm.weight"
           n7 == "attn_norm.weight"
           n8 == "post_attention_norm.weight"
<1>1. /\ a \in Seq(Entries) /\ Len(a) = 6
      /\ a[1][1] = "mat" /\ a[2][1] = "mat" /\ a[3][1] = "mat" /\ a[4][1] = "mat" /\ a[5][2] = n5 /\ a[6][2] = n6
  BY AttentionEntries DEF Vec
<1>2. /\ m \in Seq(Entries) /\ Len(m) = 5
      /\ m[1][2] = n7 /\ m[2][2] = n8 /\ m[3][1] = "mat" /\ m[4][1] = "mat" /\ m[5][1] = "mat"
  BY NormAndMlpEntries DEF Vec
<1>3. /\ n5 # n6 /\ n5 # n7 /\ n5 # n8 /\ n6 # n7 /\ n6 # n8 /\ n7 # n8
      /\ n5 \in SmallSuffixes /\ n6 \in SmallSuffixes /\ n7 \in SmallSuffixes /\ n8 \in SmallSuffixes
  BY DEF SmallSuffixes
<1> HIDE DEF a, m, n5, n6, n7, n8
<1>4. /\ list \in Seq(Entries) /\ DOMAIN list = 1 .. 11
      /\ list[1] = a[1] /\ list[2] = a[2] /\ list[3] = a[3] /\ list[4] = a[4] /\ list[5] = a[5] /\ list[6] = a[6]
      /\ list[7] = m[1] /\ list[8] = m[2] /\ list[9] = m[3] /\ list[10] = m[4] /\ list[11] = m[5]
  <2> DEFINE p == Len(a)
             q == Len(m)
  <2>1. /\ list \in Seq(Entries) /\ Len(list) = p + q
        /\ \A i \in 1 .. p : list[i] = a[i]
        /\ \A i \in 1 .. q : list[p + i] = m[i]
    <3>1. a \in Seq(Entries) /\ m \in Seq(Entries)
      BY <1>1, <1>2
    <3>2. QED
      BY <3>1, Concatenated
  <2>2. p = 6 /\ q = 5
    BY <1>1, <1>2
  <2> HIDE DEF list, p, q
  <2>3. Len(list) = 6 + 5 /\ (\A i \in 1 .. 6 : list[i] = a[i]) /\ \A i \in 1 .. 5 : list[6 + i] = m[i]
    BY <2>1, <2>2
  <2>4. /\ list[1] = a[1] /\ list[2] = a[2] /\ list[3] = a[3] /\ list[4] = a[4] /\ list[5] = a[5] /\ list[6] = a[6]
        /\ list[7] = m[1] /\ list[8] = m[2] /\ list[9] = m[3] /\ list[10] = m[4] /\ list[11] = m[5]
    BY <2>3, SixFive
  <2>5. DOMAIN list = 1 .. 11
    <3>1. DOMAIN list = 1 .. Len(list)
      BY <2>1
    <3>2. Len(list) = 11
      BY <2>3
    <3>3. QED
      BY <3>1, <3>2
  <2>6. QED
    BY <2>1, <2>4, <2>5
<1> HIDE DEF list
<1>5. /\ list[1][1] = "mat" /\ list[2][1] = "mat" /\ list[3][1] = "mat" /\ list[4][1] = "mat" /\ list[9][1] = "mat"
      /\ list[10][1] = "mat" /\ list[11][1] = "mat"
      /\ list[5][2] = n5 /\ list[6][2] = n6 /\ list[7][2] = n7 /\ list[8][2] = n8
  BY <1>1, <1>2, <1>4
<1>6. \A i \in Copies(list) : i = 5 \/ i = 6 \/ i = 7 \/ i = 8
  <2> SUFFICES ASSUME NEW i \in Copies(list) PROVE i = 5 \/ i = 6 \/ i = 7 \/ i = 8
    OBVIOUS
  <2>1. i \in 1 .. 11 /\ list[i][1] # "mat"
    BY <1>4 DEF Copies
  <2>2. QED
    BY <1>5, <2>1, UpToEleven
<1>7. OfSmall(list)
  <2>1. \A i \in Copies(list) : list[i][2] \in SmallSuffixes
    BY <1>3, <1>5, <1>6
  <2>2. \A i, j \in Copies(list) : list[i][2] = list[j][2] => i = j
    BY <1>3, <1>5, <1>6
  <2>3. QED
    BY <2>1, <2>2 DEF OfSmall
<1>8. QED
  BY <1>4, <1>7 DEF list, a, m

LEMMA DeltaNetCopies ==
  ASSUME NEW c, SizesOf(c)
  PROVE  LET list == DeltaNetTensors(c) \o NormAndMlpTensors(c) IN list \in Seq(Entries) /\ OfSmall(list)
<1> DEFINE a == DeltaNetTensors(c)
           m == NormAndMlpTensors(c)
           list == a \o m
           n5 == "ssm_a"
           n6 == "ssm_dt.bias"
           n7 == "ssm_conv1d.weight"
           n8 == "ssm_norm.weight"
           n10 == "attn_norm.weight"
           n11 == "post_attention_norm.weight"
<1>1. /\ a \in Seq(Entries) /\ Len(a) = 9
      /\ a[1][1] = "mat" /\ a[2][1] = "mat" /\ a[3][1] = "mat" /\ a[4][1] = "mat" /\ a[9][1] = "mat"
      /\ a[5][2] = n5 /\ a[6][2] = n6 /\ a[7][2] = n7 /\ a[8][2] = n8
  BY DeltaNetEntries DEF Vec
<1>2. /\ m \in Seq(Entries) /\ Len(m) = 5
      /\ m[1][2] = n10 /\ m[2][2] = n11 /\ m[3][1] = "mat" /\ m[4][1] = "mat" /\ m[5][1] = "mat"
  BY NormAndMlpEntries DEF Vec
<1>3. /\ n5 # n6 /\ n5 # n7 /\ n5 # n8 /\ n5 # n10 /\ n5 # n11 /\ n6 # n7 /\ n6 # n8 /\ n6 # n10 /\ n6 # n11
      /\ n7 # n8 /\ n7 # n10 /\ n7 # n11 /\ n8 # n10 /\ n8 # n11 /\ n10 # n11
      /\ n5 \in SmallSuffixes /\ n6 \in SmallSuffixes /\ n7 \in SmallSuffixes /\ n8 \in SmallSuffixes
      /\ n10 \in SmallSuffixes /\ n11 \in SmallSuffixes
  BY DEF SmallSuffixes
<1> HIDE DEF a, m, n5, n6, n7, n8, n10, n11
<1>4. /\ list \in Seq(Entries) /\ DOMAIN list = 1 .. 14
      /\ list[1] = a[1] /\ list[2] = a[2] /\ list[3] = a[3] /\ list[4] = a[4] /\ list[5] = a[5] /\ list[6] = a[6]
      /\ list[7] = a[7] /\ list[8] = a[8] /\ list[9] = a[9]
      /\ list[10] = m[1] /\ list[11] = m[2] /\ list[12] = m[3] /\ list[13] = m[4] /\ list[14] = m[5]
  <2> DEFINE p == Len(a)
             q == Len(m)
  <2>1. /\ list \in Seq(Entries) /\ Len(list) = p + q
        /\ \A i \in 1 .. p : list[i] = a[i]
        /\ \A i \in 1 .. q : list[p + i] = m[i]
    <3>1. a \in Seq(Entries) /\ m \in Seq(Entries)
      BY <1>1, <1>2
    <3>2. QED
      BY <3>1, Concatenated
  <2>2. p = 9 /\ q = 5
    BY <1>1, <1>2
  <2> HIDE DEF list, p, q
  <2>3. Len(list) = 9 + 5 /\ (\A i \in 1 .. 9 : list[i] = a[i]) /\ \A i \in 1 .. 5 : list[9 + i] = m[i]
    BY <2>1, <2>2
  <2>4. /\ list[1] = a[1] /\ list[2] = a[2] /\ list[3] = a[3] /\ list[4] = a[4] /\ list[5] = a[5] /\ list[6] = a[6] /\ list[7] = a[7] /\ list[8] = a[8] /\ list[9] = a[9]
        /\ list[10] = m[1] /\ list[11] = m[2] /\ list[12] = m[3] /\ list[13] = m[4] /\ list[14] = m[5]
    BY <2>3, NineFive
  <2>5. DOMAIN list = 1 .. 14
    <3>1. DOMAIN list = 1 .. Len(list)
      BY <2>1
    <3>2. Len(list) = 14
      BY <2>3
    <3>3. QED
      BY <3>1, <3>2
  <2>6. QED
    BY <2>1, <2>4, <2>5
<1> HIDE DEF list
<1>5. /\ list[1][1] = "mat" /\ list[2][1] = "mat" /\ list[3][1] = "mat" /\ list[4][1] = "mat" /\ list[9][1] = "mat"
      /\ list[12][1] = "mat" /\ list[13][1] = "mat" /\ list[14][1] = "mat"
      /\ list[5][2] = n5 /\ list[6][2] = n6 /\ list[7][2] = n7 /\ list[8][2] = n8 /\ list[10][2] = n10 /\ list[11][2] = n11
  BY <1>1, <1>2, <1>4
<1>6. \A i \in Copies(list) : i = 5 \/ i = 6 \/ i = 7 \/ i = 8 \/ i = 10 \/ i = 11
  <2> SUFFICES ASSUME NEW i \in Copies(list) PROVE i = 5 \/ i = 6 \/ i = 7 \/ i = 8 \/ i = 10 \/ i = 11
    OBVIOUS
  <2>1. i \in 1 .. 14 /\ list[i][1] # "mat"
    BY <1>4 DEF Copies
  <2>2. QED
    BY <1>5, <2>1, UpToFourteen
<1>7. OfSmall(list)
  <2>1. \A i \in Copies(list) : list[i][2] \in SmallSuffixes
    BY <1>3, <1>5, <1>6
  <2>2. \A i, j \in Copies(list) : list[i][2] = list[j][2] => i = j
    BY <1>3, <1>5, <1>6
  <2>3. QED
    BY <2>1, <2>2 DEF OfSmall
<1>8. QED
  BY <1>4, <1>7 DEF list, a, m

LEMMA LayerCopies ==
  ASSUME NEW c, SizesOf(c), NEW l PROVE LayerLoad(c, l) \in Seq(Entries) /\ OfSmall(LayerLoad(c, l))
<1>1. CASE l \in c.attention
  <2>1. LayerLoad(c, l) = AttentionTensors(c) \o NormAndMlpTensors(c)
    BY <1>1 DEF LayerLoad
  <2>2. QED
    BY <2>1, AttentionCopies
<1>2. CASE l \notin c.attention
  <2>1. LayerLoad(c, l) = DeltaNetTensors(c) \o NormAndMlpTensors(c)
    BY <1>2 DEF LayerLoad
  <2>2. QED
    BY <2>1, DeltaNetCopies
<1>3. QED
  BY <1>1, <1>2

LEMMA FourTimes == \A n \in Nat : (n \div 1) * 4 = 4 * n
  OBVIOUS

\* A small tensor of a counted file: four bytes an element.
LEMMA SmallTensorBytes ==
  ASSUME HeaderInv, stage = "opened", IsCounted(file), NEW t \in index, IsResidentSmall(t.name)
  PROVE  t.size = 4 * t.elems
<1>1. PICK i \in DOMAIN file.infos : t = TensorOf(i)
  BY DEF HeaderInv, Indexed
<1>2. /\ TensorOf(i) \in TensorInfo /\ TensorOf(i).name = file.infos[i].name
      /\ TensorOf(i).size = (TensorOf(i).elems \div GgmlTypes[file.infos[i].type][2]) * GgmlTypes[file.infos[i].type][3]
  BY TensorOfFacts DEF HeaderInv
<1>3. IsResidentSmall(file.infos[i].name)
  BY <1>1, <1>2
<1>4. file.infos[i].type = 0
  BY <1>3 DEF IsCounted
<1>5. GgmlTypes[0][2] = 1 /\ GgmlTypes[0][3] = 4
  BY DEF GgmlTypes
<1>6. t.size = (t.elems \div 1) * 4
  BY <1>1, <1>2, <1>4, <1>5
<1>7. t.elems \in Nat
  BY <1>1, <1>2 DEF TensorInfo
<1>8. QED
  BY <1>6, <1>7, FourTimes

\* The tensors of an opened file are finitely many.
LEMMA IndexFinite == ASSUME HeaderInv, stage = "opened" PROVE IsFiniteSet(index)
<1> DEFINE D == DOMAIN file.infos
           b == [i \in D |-> TensorOf(i)]
<1>1. D = 1 .. Len(file.infos) /\ Len(file.infos) \in Nat
  BY DEF HeaderInv, ReaderType, IsFile
<1>2. IsFiniteSet(D)
  BY <1>1, FS_Interval
<1>3. index = {TensorOf(i) : i \in D}
  BY DEF HeaderInv, Indexed
<1>4. index = {b[i] : i \in D}
  BY <1>3
<1> HIDE DEF b, D
<1>5. QED
  BY <1>2, <1>4, ImageFinite

LEMMA EntriesAreList == ASSUME NEW list \in Seq(Entries) PROVE IsList(list)
<1>1. Len(list) \in Nat /\ DOMAIN list = 1 .. Len(list)
  OBVIOUS
<1>2. QED
  BY <1>1 DEF IsList

\* Summed over some of a set, each counted once.
LEMMA SumInto ==
  ASSUME NEW D, IsFiniteSet(D), NEW S, IsFiniteSet(S), NEW b, \A i, j \in D : b[i] = b[j] => i = j,
         NEW f, \A t \in S : f[t] \in Nat, NEW e, \A i \in D : b[i] \in S /\ f[b[i]] = e[i]
  PROVE  SumFunctionOnSet(e, D) <= SumFunctionOnSet(f, S) /\ SumFunctionOnSet(f, S) \in Nat
<1> DEFINE T == {b[i] : i \in D}
<1>1. \A i \in D : f[b[i]] \in Int /\ e[i] = f[b[i]]
  OBVIOUS
<1>2. SumFunctionOnSet(e, D) = SumFunctionOnSet(f, T)
  BY <1>1, SumReindex
<1>3. T \in SUBSET S
  OBVIOUS
<1> HIDE DEF T
<1>4. SumFunctionOnSet(f, T) <= SumFunctionOnSet(f, S) /\ SumFunctionOnSet(f, S) \in Nat
  BY <1>3, SumPart
<1>5. QED
  BY <1>2, <1>4

\* Where a block was loaded from: a resident copy is of a small tensor of the block.
SmallOfBlock(l) == {t \in LayerTensors(l) : IsResidentSmall(t.name)}

CopiesOf(l, list) ==
  \A i \in Copies(list) :
    LET t == Tensor(<<l, list[i][2]>>)
    IN  t \in SmallOfBlock(l) /\ t.name = <<l, list[i][2]>> /\ t.size = 4 * list[i][3]

LEMMA CopiesAreSmall ==
  ASSUME HeaderInv, stage = "opened", IsCounted(file), NEW l, l # NoLayer,
         NEW list \in Seq(Entries), OfSmall(list), NEW from, NEW bytes, LoadError(l, list, from, bytes) = ""
  PROVE  CopiesOf(l, list)
<1> SUFFICES ASSUME NEW i \in Copies(list)
             PROVE  LET t == Tensor(<<l, list[i][2]>>)
                    IN  t \in SmallOfBlock(l) /\ t.name = <<l, list[i][2]>> /\ t.size = 4 * list[i][3]
  BY DEF CopiesOf
<1> DEFINE name == <<l, list[i][2]>>
           t == Tensor(name)
<1>1. IsList(list)
  BY EntriesAreList
<1>2. i \in DOMAIN list /\ list[i][1] = "vec"
  BY DEF Copies
<1>3. SourceError(l, list[i], from, bytes) = ""
  BY <1>1, <1>2, LoadErrorFacts
<1>4. HasTensor(name)
  BY <1>3 DEF SourceError
<1>5. VecError(t, list[i][3]) = ""
  BY <1>2, <1>3, <1>4 DEF SourceError
<1>6. t.elems = list[i][3]
  BY <1>5 DEF VecError
<1>7. t \in index /\ t.name = name
  BY <1>4, FoundTensor
<1>8. name[1] = l /\ name[2] = list[i][2]
  OBVIOUS
<1>9. list[i][2] \in SmallSuffixes
  BY DEF OfSmall
<1> HIDE DEF t, name
<1>10. t \in LayerTensors(l) /\ IsResidentSmall(t.name)
  BY <1>7, <1>8, <1>9 DEF LayerTensors, IsResidentSmall, LayerOf
<1>11. t.size = 4 * t.elems
  BY <1>7, <1>10, SmallTensorBytes
<1>12. QED
  BY <1>6, <1>7, <1>10, <1>11 DEF SmallOfBlock, t, name

\* The copies of small tensors take what the tensors do.
LEMMA CopiesCounted ==
  ASSUME NEW l, NEW list \in Seq(Entries), OfSmall(list), CopiesOf(l, list),
         IsFiniteSet(SmallOfBlock(l)), \A t \in SmallOfBlock(l) : t.size \in Nat
  PROVE  CopiedBytes(list) <= LayerSmall(l) /\ LayerSmall(l) \in Nat
<1> DEFINE D == Copies(list)
           b == [i \in D |-> Tensor(<<l, list[i][2]>>)]
           e == [i \in D |-> 4 * list[i][3]]
           S == SmallOfBlock(l)
           f == [t \in S |-> t.size]
<1>1. IsFiniteSet(D)
  BY CopiedNat
<1>2. \A i \in D : b[i] \in S /\ b[i].name = <<l, list[i][2]>> /\ b[i].size = e[i]
  BY DEF CopiesOf
<1>3. \A i \in D : b[i] \in S /\ f[b[i]] = e[i]
  BY <1>2
<1>4. \A i, j \in D : b[i] = b[j] => i = j
  <2> SUFFICES ASSUME NEW i \in D, NEW j \in D, b[i] = b[j] PROVE i = j
    OBVIOUS
  <2>0. b[i].name = <<l, list[i][2]>> /\ b[j].name = <<l, list[j][2]>>
    BY <1>2
  <2>1. <<l, list[i][2]>> = <<l, list[j][2]>>
    <3> HIDE DEF b
    <3>1. QED
      BY <2>0
  <2>2. list[i][2] = list[j][2]
    BY <2>1
  <2>3. QED
    BY <2>2 DEF OfSmall
<1>5. \A t \in S : f[t] \in Nat
  OBVIOUS
<1>6. CopiedBytes(list) = SumFunctionOnSet(e, D) /\ LayerSmall(l) = SumFunctionOnSet(f, S)
  BY DEF CopiedBytes, LayerSmall, SumSizes, SmallOfBlock
<1>7. IsFiniteSet(S)
  OBVIOUS
<1> HIDE DEF D, b, e, S, f
<1>8. SumFunctionOnSet(e, D) <= SumFunctionOnSet(f, S) /\ SumFunctionOnSet(f, S) \in Nat
  BY <1>1, <1>3, <1>4, <1>5, <1>7, SumInto
<1>9. QED
  BY <1>6, <1>8

LEMMA SmallFinite ==
  ASSUME HeaderInv, stage = "opened", NEW l
  PROVE  /\ IsFiniteSet(SmallOfBlock(l)) /\ (\A t \in SmallOfBlock(l) : t.size \in Nat)
         /\ LayerSmall(l) \in Nat
<1> DEFINE S == SmallOfBlock(l)
           f == [t \in S |-> t.size]
<1>1. S \in SUBSET index
  BY DEF LayerTensors, SmallOfBlock
<1>2. IsFiniteSet(S)
  BY <1>1, IndexFinite, FS_Subset
<1>3. \A t \in S : t.size \in Nat
  BY <1>1, IndexTensors
<1>4. \A t \in S : f[t] \in Nat
  BY <1>3
<1>5. LayerSmall(l) = SumFunctionOnSet(f, S)
  BY DEF LayerSmall, SumSizes, SmallOfBlock
<1>6. S \in SUBSET S
  OBVIOUS
<1> HIDE DEF S, f
<1>7. SumFunctionOnSet(f, S) \in Nat
  BY <1>2, <1>4, <1>6, SumPart
<1>8. QED
  BY <1>2, <1>3, <1>5, <1>7 DEF S

\* The resident copies of a block that was loaded take no more than the plan counts for it.
LEMMA SmallCopies ==
  ASSUME HeaderInv, stage = "opened", IsCounted(file), NEW l, l # NoLayer, NEW c, SizesOf(c),
         NEW from, NEW bytes, LoadError(l, LayerLoad(c, l), from, bytes) = ""
  PROVE  CopiedBytes(LayerLoad(c, l)) <= LayerSmall(l)
<1> DEFINE list == LayerLoad(c, l)
<1>1. list \in Seq(Entries) /\ OfSmall(list)
  BY LayerCopies
<1>2. LoadError(l, list, from, bytes) = ""
  OBVIOUS
<1> HIDE DEF list
<1>3. CopiesOf(l, list)
  BY <1>1, <1>2, CopiesAreSmall
<1>4. IsFiniteSet(SmallOfBlock(l)) /\ (\A t \in SmallOfBlock(l) : t.size \in Nat)
  BY SmallFinite
<1>5. CopiedBytes(list) <= LayerSmall(l)
  BY <1>1, <1>3, <1>4, CopiesCounted
<1>6. QED
  BY <1>5 DEF list

-----------------------------------------------------------------------------
(* What a load allocates, in the order it allocates it: the figures of the *)
(* plan, and the copies the plan has no line for.                          *)

MtpArena == [m \in config.mtp |-> ArenaBytes(BlockRange(m)[2] - BlockRange(m)[1])]
SmallOf  == [l \in 0 .. config.nLayer - 1 |-> LayerSmall(l)]

MtpUpTo(n)   == SumFunctionOnSet(MtpArena, config.nLayer .. n - 1)
SmallUpTo(n) == SumFunctionOnSet(SmallOf, 0 .. n - 1)

UnplannedMtp == IF config.mtp = {} THEN 0 ELSE CopiedBytes(MtpLoad(config))
HeadBytesOf  == NonLayerArenaBytes + CopiedBytes(HeadLoad(config))
MtpBytesOf   == MtpUpTo(config.blocks) + UnplannedMtp

LEMMA FiguresStay ==
  ASSUME UNCHANGED ggufVars, UNCHANGED config
  PROVE  /\ \A n : MtpUpTo(n)' = MtpUpTo(n) /\ SmallUpTo(n)' = SmallUpTo(n)
         /\ UnplannedMtp' = UnplannedMtp /\ HeadBytesOf' = HeadBytesOf /\ MtpBytesOf' = MtpBytesOf
         /\ Unplanned' = Unplanned
         /\ \A p, n : PlannedState(p, n)' = PlannedState(p, n) /\ ResidentBytes(p, n)' = ResidentBytes(p, n)
<1>1. \A l : BlockRange(l)' = BlockRange(l) /\ LayerTensors(l)' = LayerTensors(l)
  BY PlacesStay
<1>2. NonLayerTensors' = NonLayerTensors
  BY PlacesStay
<1>3. \A l : LayerSmall(l)' = LayerSmall(l)
  BY <1>1 DEF LayerSmall, SumSizes
<1>4. MtpArena' = MtpArena /\ SmallOf' = SmallOf
  BY <1>1, <1>3 DEF MtpArena, SmallOf, ArenaBytes, AlignUp, AlignDown
<1>5. \A n : MtpUpTo(n)' = MtpUpTo(n) /\ SmallUpTo(n)' = SmallUpTo(n)
  BY <1>4 DEF MtpUpTo, SmallUpTo
<1>6. UnplannedMtp' = UnplannedMtp /\ Unplanned' = Unplanned
  BY DEF UnplannedMtp, Unplanned
<1>7. NonLayerArenaBytes' = NonLayerArenaBytes
  <2>1. NonLayerRange' = NonLayerRange
    BY <1>2 DEF NonLayerRange, FirstByte, LastByte, TensorEnd
  <2>2. SumSizes(NonLayerTensors)' = SumSizes(NonLayerTensors)
    BY <1>2 DEF SumSizes
  <2>3. IsOneRegion' = IsOneRegion
    BY <2>1, <2>2 DEF IsOneRegion
  <2>4. QED
    BY <2>1, <2>2, <2>3 DEF NonLayerArenaBytes, ArenaBytes, AlignUp, AlignDown
<1>8. HeadBytesOf' = HeadBytesOf
  BY <1>7 DEF HeadBytesOf
<1>9. MtpBytesOf' = MtpBytesOf
  BY <1>5, <1>6 DEF MtpBytesOf
<1>10. \A p, n : PlannedState(p, n)' = PlannedState(p, n)
  BY DEF PlannedState
<1>11. \A p, n : ResidentBytes(p, n)' = ResidentBytes(p, n)
  BY <1>1, <1>3, <1>7, <1>10 DEF ResidentBytes, SumOver, ArenaBytes, AlignUp, AlignDown
<1>12. QED
  BY <1>5, <1>6, <1>8, <1>9, <1>10, <1>11

LEMMA NatSums == \A a, b \in Nat : a + b \in Nat
  OBVIOUS

LEMMA ArenaBytesNat == ASSUME NEW n \in Nat PROVE ArenaBytes(n) \in Nat
<1>1. Sector \in Nat \ {0} /\ n + Sector - 1 \in Nat
  BY PlanAssumption
<1>2. PICK q \in Nat : AlignDown(n + Sector - 1) = q * Sector
  BY <1>1, AlignFacts
<1>3. q * Sector \in Nat
  BY <1>1
<1>4. QED
  BY <1>1, <1>2, <1>3 DEF ArenaBytes, AlignUp

\* A sum up to a number, step by step.
LEMMA SumUpTo ==
  ASSUME NEW a \in Nat, NEW b \in Nat, a <= b, NEW f, \A i \in a .. b - 1 : f[i] \in Nat
  PROVE  /\ SumFunctionOnSet(f, a .. a - 1) = 0
         /\ \A n \in a .. b : SumFunctionOnSet(f, a .. n - 1) \in Nat
         /\ \A n \in a .. b - 1 : SumFunctionOnSet(f, a .. (n + 1) - 1) = SumFunctionOnSet(f, a .. n - 1) + f[n]
         /\ \A n \in a .. b : SumFunctionOnSet(f, a .. n - 1) <= SumFunctionOnSet(f, a .. b - 1)
<1> DEFINE S == a .. b - 1
<1>1. IsFiniteSet(S)
  BY FS_Interval
<1>2. \A i \in S : f[i] \in Int
  OBVIOUS
<1>3. \A i \in S : f[i] \in Nat
  OBVIOUS
<1>4. a .. a - 1 = {}
  OBVIOUS
<1>5. SumFunctionOnSet(f, {}) = 0
  BY <1>1, <1>2, SumFacts
<1>6. ASSUME NEW n \in a .. b
      PROVE  SumFunctionOnSet(f, a .. n - 1) \in Nat /\ SumFunctionOnSet(f, a .. n - 1) <= SumFunctionOnSet(f, a .. b - 1)
  <2> DEFINE T == a .. n - 1
  <2>1. T \in SUBSET S
    OBVIOUS
  <2> HIDE DEF T, S
  <2>2. SumFunctionOnSet(f, T) \in Nat /\ SumFunctionOnSet(f, T) <= SumFunctionOnSet(f, S)
    BY <1>1, <1>3, <2>1, SumPart
  <2>3. QED
    BY <2>2 DEF T, S
<1>7. ASSUME NEW n \in a .. b - 1
      PROVE  SumFunctionOnSet(f, a .. (n + 1) - 1) = SumFunctionOnSet(f, a .. n - 1) + f[n]
  <2> DEFINE T == a .. n - 1
  <2>1. T \in SUBSET S /\ n \in S \ T
    OBVIOUS
  <2>2. a .. (n + 1) - 1 = T \cup {n}
    OBVIOUS
  <2>3. \A U \in SUBSET S : SumFunctionOnSet(f, U) \in Int /\ \A x \in S \ U : SumFunctionOnSet(f, U \cup {x}) = f[x] + SumFunctionOnSet(f, U)
    <3> HIDE DEF S
    <3>1. QED
      BY <1>1, <1>2, SumFacts
  <2> HIDE DEF T, S
  <2>4. SumFunctionOnSet(f, T \cup {n}) = f[n] + SumFunctionOnSet(f, T) /\ SumFunctionOnSet(f, T) \in Int
    BY <2>1, <2>3
  <2>5. f[n] \in Int
    BY <1>2, <2>1
  <2>6. SumFunctionOnSet(f, T \cup {n}) = SumFunctionOnSet(f, T) + f[n]
    BY <2>4, <2>5
  <2>7. QED
    BY <2>2, <2>6 DEF T
<1>8. QED
  BY <1>4, <1>5, <1>6, <1>7

LEMMA MtpFigures ==
  ASSUME HeaderInv, stage = "opened", BlocksOf(config)
  PROVE  /\ MtpUpTo(config.nLayer) = 0 /\ MtpUpTo(config.blocks) \in Nat
         /\ \A n \in config.nLayer .. config.blocks : MtpUpTo(n) \in Nat /\ MtpUpTo(n) <= MtpUpTo(config.blocks)
         /\ \A n \in config.mtp : MtpUpTo(n + 1) = MtpUpTo(n) + ArenaBytes(BlockRange(n)[2] - BlockRange(n)[1])
<1> DEFINE a == config.nLayer
           b == config.blocks
           f == MtpArena
<1>1. a \in Nat /\ b \in Nat /\ a <= b /\ config.mtp = a .. b - 1
  BY DEF BlocksOf
<1>2. \A m \in config.mtp : f[m] = ArenaBytes(BlockRange(m)[2] - BlockRange(m)[1])
  BY DEF MtpArena
<1>3. \A m \in config.mtp : f[m] \in Nat
  <2> SUFFICES ASSUME NEW m \in config.mtp PROVE f[m] \in Nat
    OBVIOUS
  <2>1. LayerTensors(m) # {}
    BY MtpBlock DEF BlocksOf
  <2>2. BlockRange(m)[2] - BlockRange(m)[1] \in Nat
    BY <2>1, BlockLength
  <2>3. QED
    BY <1>2, <2>2, ArenaBytesNat
<1>4. \A n : MtpUpTo(n) = SumFunctionOnSet(f, a .. n - 1)
  BY DEF MtpUpTo
<1> HIDE DEF a, b, f
<1>5. /\ SumFunctionOnSet(f, a .. a - 1) = 0
      /\ \A n \in a .. b : SumFunctionOnSet(f, a .. n - 1) \in Nat
      /\ \A n \in a .. b - 1 : SumFunctionOnSet(f, a .. (n + 1) - 1) = SumFunctionOnSet(f, a .. n - 1) + f[n]
      /\ \A n \in a .. b : SumFunctionOnSet(f, a .. n - 1) <= SumFunctionOnSet(f, a .. b - 1)
  <2>1. \A i \in a .. b - 1 : f[i] \in Nat
    BY <1>1, <1>3
  <2>2. QED
    BY <1>1, <2>1, SumUpTo
<1>6. MtpUpTo(a) = 0 /\ \A n \in a .. b : MtpUpTo(n) \in Nat /\ MtpUpTo(n) <= MtpUpTo(b)
  BY <1>4, <1>5
<1>7. \A n \in config.mtp : MtpUpTo(n + 1) = MtpUpTo(n) + f[n]
  BY <1>1, <1>4, <1>5
<1>8. b \in a .. b
  BY <1>1
<1>9. QED
  BY <1>2, <1>6, <1>7, <1>8 DEF a, b

LEMMA SmallFigures ==
  ASSUME HeaderInv, stage = "opened", BlocksOf(config)
  PROVE  /\ SmallUpTo(0) = 0 /\ SmallUpTo(config.nLayer) \in Nat
         /\ \A n \in 0 .. config.nLayer : SmallUpTo(n) \in Nat /\ SmallUpTo(n) <= SmallUpTo(config.nLayer)
         /\ \A n \in 0 .. config.nLayer - 1 : SmallUpTo(n + 1) = SmallUpTo(n) + LayerSmall(n) /\ LayerSmall(n) \in Nat
<1> DEFINE b == config.nLayer
           f == SmallOf
<1>1. b \in Nat /\ 0 \in Nat /\ 0 <= b
  BY DEF BlocksOf
<1>2. \A l \in 0 .. b - 1 : f[l] = LayerSmall(l)
  BY DEF SmallOf
<1>3. \A l \in 0 .. b - 1 : f[l] \in Nat
  BY <1>2, SmallFinite
<1>4. \A n : SmallUpTo(n) = SumFunctionOnSet(f, 0 .. n - 1)
  BY DEF SmallUpTo
<1> HIDE DEF b, f
<1>5. /\ SumFunctionOnSet(f, 0 .. 0 - 1) = 0
      /\ \A n \in 0 .. b : SumFunctionOnSet(f, 0 .. n - 1) \in Nat
      /\ \A n \in 0 .. b - 1 : SumFunctionOnSet(f, 0 .. (n + 1) - 1) = SumFunctionOnSet(f, 0 .. n - 1) + f[n]
      /\ \A n \in 0 .. b : SumFunctionOnSet(f, 0 .. n - 1) <= SumFunctionOnSet(f, 0 .. b - 1)
  BY <1>1, <1>3, SumUpTo
<1>6. SmallUpTo(0) = 0 /\ \A n \in 0 .. b : SmallUpTo(n) \in Nat /\ SmallUpTo(n) <= SmallUpTo(b)
  BY <1>4, <1>5
<1>7. \A n \in 0 .. b - 1 : SmallUpTo(n + 1) = SmallUpTo(n) + f[n]
  BY <1>1, <1>4, <1>5
<1>8. b \in 0 .. b
  BY <1>1
<1>9. QED
  BY <1>2, <1>3, <1>6, <1>7, <1>8 DEF b

LEMMA PrefixFigures ==
  ASSUME SpansOk
  PROVE  /\ Prefix(0) = 0
         /\ \A n \in 0 .. NLayer : Prefix(n) \in Nat /\ Prefix(n) <= Prefix(NLayer)
         /\ \A n \in 0 .. NLayer - 1 : Prefix(n + 1) = Prefix(n) + ArenaBytes(SpanLen(n))
         /\ \A m \in 0 .. NLayer : \A n \in 0 .. m : Prefix(n) <= Prefix(m)
<1> DEFINE b == NLayer
           f == [l \in Layers |-> ArenaBytes(SpanLen(l))]
<1>1. b \in Nat /\ 0 \in Nat /\ 0 <= b /\ Layers = 0 .. b - 1
  BY DEF SpansOk, Layers
<1>2. \A l \in 0 .. b - 1 : f[l] = ArenaBytes(SpanLen(l))
  BY <1>1
<1>3. \A l \in 0 .. b - 1 : f[l] \in Nat
  <2> SUFFICES ASSUME NEW l \in 0 .. b - 1 PROVE ArenaBytes(SpanLen(l)) \in Nat
    BY <1>2
  <2>1. span[l] \in Nat \X Nat /\ span[l][1] <= span[l][2]
    BY <1>1 DEF SpansOk
  <2>2. SpanLen(l) \in Nat
    BY <2>1 DEF SpanLen
  <2>3. QED
    BY <2>2, ArenaBytesNat
<1>4. \A n : Prefix(n) = SumFunctionOnSet(f, 0 .. n - 1)
  BY DEF Prefix
<1> HIDE DEF b, f
<1>5. ASSUME NEW m \in 0 .. b
      PROVE  /\ SumFunctionOnSet(f, 0 .. 0 - 1) = 0
             /\ \A n \in 0 .. m : SumFunctionOnSet(f, 0 .. n - 1) \in Nat
             /\ \A n \in 0 .. m - 1 : SumFunctionOnSet(f, 0 .. (n + 1) - 1) = SumFunctionOnSet(f, 0 .. n - 1) + f[n]
             /\ \A n \in 0 .. m : SumFunctionOnSet(f, 0 .. n - 1) <= SumFunctionOnSet(f, 0 .. m - 1)
  <2>1. m \in Nat /\ 0 <= m /\ \A l \in 0 .. m - 1 : f[l] \in Nat
    BY <1>1, <1>3
  <2>2. QED
    BY <1>1, <2>1, SumUpTo
<1>6. b \in 0 .. b
  BY <1>1
<1>7. Prefix(0) = 0 /\ \A m \in 0 .. b : Prefix(m) \in Nat /\ \A n \in 0 .. m : Prefix(n) <= Prefix(m)
  <2>1. \A m \in 0 .. b : m \in 0 .. m
    BY <1>1
  <2>2. QED
    BY <1>4, <1>5, <1>6, <2>1
<1>8. \A n \in 0 .. b - 1 : Prefix(n + 1) = Prefix(n) + f[n]
  BY <1>4, <1>5, <1>6
<1>9. QED
  BY <1>2, <1>6, <1>7, <1>8 DEF b

\* The arena of the tensors of no layer, and the copies of the head and of the first MTP block.
LEMMA NonLayerFinite ==
  ASSUME HeaderInv, stage = "opened"
  PROVE  IsFiniteSet(NonLayerTensors) /\ \A t \in NonLayerTensors : t.size \in Nat
<1>1. NonLayerTensors \in SUBSET index
  BY DEF NonLayerTensors, LayerTensors
<1>2. QED
  BY <1>1, IndexFinite, IndexTensors, FS_Subset

LEMMA HeadFigures ==
  ASSUME HeaderInv, stage = "opened", BlocksOf(config), SizesOf(config)
  PROVE  /\ NonLayerArenaBytes \in Nat /\ CopiedBytes(HeadLoad(config)) \in Nat /\ UnplannedMtp \in Nat
         /\ HeadBytesOf \in Nat
<1>1. NonLayerRange = BlockRange(NoLayer) /\ LayerTensors(NoLayer) # {}
  BY BlockPlace, NonLayerPlace DEF BlocksOf
<1>2. NonLayerRange[2] - NonLayerRange[1] \in Nat
  BY <1>1, BlockLength
<1>3. SumSizes(NonLayerTensors) \in Nat
  <2> DEFINE S == NonLayerTensors
             f == [t \in S |-> t.size]
  <2>1. IsFiniteSet(S) /\ S \in SUBSET S /\ \A t \in S : f[t] \in Nat
    BY NonLayerFinite
  <2>2. SumSizes(S) = SumFunctionOnSet(f, S)
    BY DEF SumSizes
  <2> HIDE DEF S, f
  <2>3. SumFunctionOnSet(f, S) \in Nat
    BY <2>1, SumPart
  <2>4. QED
    BY <2>2, <2>3 DEF S
<1>4. NonLayerArenaBytes \in Nat
  BY <1>2, <1>3, ArenaBytesNat DEF NonLayerArenaBytes
<1>5. CopiedBytes(HeadLoad(config)) \in Nat /\ CopiedBytes(MtpLoad(config)) \in Nat
  <2>1. MtpLoad(config) \in Seq(Entries) /\ HeadLoad(config) \in Seq(Entries)
    BY MtpAndHeadEntries
  <2>2. QED
    BY <2>1, CopiedNat
<1>6. UnplannedMtp \in Nat
  BY <1>5 DEF UnplannedMtp
<1>7. HeadBytesOf \in Nat
  BY <1>4, <1>5, NatSums DEF HeadBytesOf
<1>8. QED
  BY <1>4, <1>5, <1>6, <1>7

\* The always-resident lines, by name.
LEMMA ResidentLines ==
  ASSUME HeaderInv, stage = "opened", BlocksOf(config), SizesOf(config), NEW p \in Nat, NEW n \in Nat
  PROVE  /\ ResidentBytes(p, n) = NonLayerArenaBytes + MtpUpTo(config.blocks) + SmallUpTo(config.nLayer)
                                    + PlannedState(p, n) + Baseline
         /\ ResidentBytes(p, n) \in Nat
<1>1. config.mtp = config.nLayer .. config.blocks - 1
  BY DEF BlocksOf
<1>2. SumOver(config.mtp, LAMBDA m : ArenaBytes(BlockRange(m)[2] - BlockRange(m)[1])) = MtpUpTo(config.blocks)
  BY <1>1 DEF SumOver, MtpUpTo, MtpArena
<1>3. SumOver(0 .. config.nLayer - 1, LayerSmall) = SmallUpTo(config.nLayer)
  BY DEF SumOver, SmallUpTo, SmallOf
<1> DEFINE a == NonLayerArenaBytes
           b == MtpUpTo(config.blocks)
           c == SmallUpTo(config.nLayer)
           d == PlannedState(p, n)
           r == ResidentBytes(p, n)
<1>4. a \in Nat /\ b \in Nat /\ c \in Nat /\ d \in Nat /\ Baseline \in Nat
  BY HeadFigures, MtpFigures, SmallFigures, StateAsPlanned, LoadAssumption
<1>5. r = a + b + c + d + Baseline
  BY <1>2, <1>3 DEF ResidentBytes
<1> HIDE DEF a, b, c, d, r
<1>6. a + b + c + d + Baseline \in Nat
  BY <1>4
<1>7. QED
  BY <1>5, <1>6 DEF a, b, c, d, r

-----------------------------------------------------------------------------
(* The inductive invariant of what a load allocates.                       *)

\* Nothing is allocated before the plan is accepted.
NothingYet ==
  /\ stage # "opened" => mem = 0
  /\ phase \in {"file", "config"} \cup Deciding => mem = 0

\* Before its computation there is no plan.
NoPlanYet ==
  /\ phase \in {"file", "config"} => pinned = 0 /\ nSlots = 0 /\ slotBytes = 0 /\ budget = NoBudget
  /\ nSlots \in Nat /\ slotBytes \in Nat

\* What the planner is given is what the lines of the plan add up to.
Given ==
  /\ phase # "file" => SizesOf(config)
  /\ phase \in Deciding => PlanInv
  /\ phase \in Deciding \cup Loading =>
       maxPos \in Nat /\ drafts \in Nat /\ resident = ResidentBytes(maxPos, drafts)

RingBytes == slotBytes * nSlots

\* The copies of the draft head, made with its block.
DraftUpTo(n) == IF n > config.nLayer THEN UnplannedMtp ELSE 0

\* What the phases up to this one have allocated at most.
Allocated ==
  /\ mem \in Nat
  /\ phase = "mtp"    => next \in config.nLayer .. config.blocks /\ mem <= HeadBytesOf + MtpUpTo(next) + DraftUpTo(next)
  /\ phase = "tier 1" => mem <= HeadBytesOf + MtpBytesOf + Prefix(next) + SmallUpTo(next)
  /\ phase = "tier 2" => mem <= HeadBytesOf + MtpBytesOf + Prefix(pinned) + RingBytes + SmallUpTo(next)
  /\ phase = "loaded" => mem <= HeadBytesOf + MtpBytesOf + Prefix(pinned) + RingBytes + SmallUpTo(config.nLayer)
  /\ phase = "ready"  => mem <= HeadBytesOf + MtpBytesOf + Prefix(pinned) + RingBytes + SmallUpTo(config.nLayer)
                                  + PlannedState(maxPos, drafts)

\* A load that failed has allocated no more than was planned.
MemInv ==
  /\ IsCounted(file) /\ NothingYet /\ NoPlanYet /\ LongestPrefix
  /\ IF phase = "failed" THEN PlanCoversMemory ELSE Given /\ Allocated

-----------------------------------------------------------------------------
(* The invariant bounds the memory by the plan.                            *)

\* Everything the plan counts, and the copies it does not.
LEMMA PlanLines ==
  ASSUME LoadInv, MemInv, phase \in Loading
  PROVE  /\ HeadBytesOf \in Nat /\ MtpBytesOf \in Nat /\ UnplannedMtp \in Nat /\ RingBytes \in Nat
         /\ PlannedState(maxPos, drafts) \in Nat /\ Prefix(pinned) \in Nat /\ SmallUpTo(config.nLayer) \in Nat
         /\ Total - Baseline + Unplanned =
              HeadBytesOf + MtpBytesOf + Prefix(pinned) + RingBytes + SmallUpTo(config.nLayer) + PlannedState(maxPos, drafts)
<1>1. /\ HeaderInv /\ stage = "opened" /\ BlocksOf(config) /\ SpansOfBlocks /\ NLayer = config.nLayer /\ SlotRoom
  BY LoadingFacts
<1>2. /\ SizesOf(config) /\ maxPos \in Nat /\ drafts \in Nat /\ resident = ResidentBytes(maxPos, drafts)
      /\ nSlots \in Nat /\ slotBytes \in Nat
  BY DEF MemInv, Given, NoPlanYet, Loading
<1>3. SpansOk
  BY <1>1, SpansAreOk
<1> DEFINE arena == NonLayerArenaBytes
           head  == CopiedBytes(HeadLoad(config))
           mtp   == MtpUpTo(config.blocks)
           draft == UnplannedMtp
           small == SmallUpTo(config.nLayer)
           state == PlannedState(maxPos, drafts)
           ring  == RingBytes
           tiers == Prefix(pinned)
           base  == Baseline
<1>4. /\ arena \in Nat /\ head \in Nat /\ mtp \in Nat /\ draft \in Nat /\ small \in Nat /\ state \in Nat /\ base \in Nat
  BY <1>1, <1>2, HeadFigures, MtpFigures, SmallFigures, StateAsPlanned, LoadAssumption
<1>5. resident = arena + mtp + small + state + base
  BY <1>1, <1>2, ResidentLines
<1>6. ring \in Nat
  BY <1>2, ProductNat DEF RingBytes
<1>7. tiers \in Nat
  BY <1>1, <1>3, PrefixFigures DEF SlotRoom
<1>8. Total = resident + ring + tiers
  BY DEF Total, RingBytes
<1>9. Unplanned = head + draft
  BY DEF Unplanned, UnplannedMtp
<1>10. HeadBytesOf = arena + head /\ MtpBytesOf = mtp + draft
  BY DEF HeadBytesOf, MtpBytesOf
<1> HIDE DEF arena, head, mtp, draft, small, state, ring, tiers, base
<1>11. Total - base + Unplanned = (arena + head) + (mtp + draft) + tiers + ring + small + state
  BY <1>4, <1>5, <1>6, <1>7, <1>8, <1>9
<1>12. HeadBytesOf \in Nat /\ MtpBytesOf \in Nat
  BY <1>4, <1>10, NatSums
<1>13. Total - base + Unplanned = HeadBytesOf + MtpBytesOf + tiers + ring + small + state
  BY <1>10, <1>11
<1>14. QED
  BY <1>4, <1>6, <1>7, <1>12, <1>13 DEF draft, small, state, ring, tiers, base

\* Sums of what is allocated against sums of what is planned.
LEMMA BelowAtMtp ==
  ASSUME NEW h \in Nat, NEW a \in Nat, NEW d \in Nat, NEW b, b = a + d, NEW t \in Nat, NEW r \in Nat, NEW s \in Nat, NEW p \in Nat,
         NEW x \in Nat, NEW n \in Nat, NEW e \in Nat, n <= a, e <= d, x <= h + n + e
  PROVE  x <= h + b + t + r + s + p
  OBVIOUS

LEMMA BelowAtTier1 ==
  ASSUME NEW h \in Nat, NEW b \in Nat, NEW t \in Nat, NEW r \in Nat, NEW s \in Nat, NEW p \in Nat,
         NEW x \in Nat, NEW u \in Nat, NEW v \in Nat, u <= t, v <= s, x <= h + b + u + v
  PROVE  x <= h + b + t + r + s + p
  OBVIOUS

LEMMA BelowAtTier2 ==
  ASSUME NEW h \in Nat, NEW b \in Nat, NEW t \in Nat, NEW r \in Nat, NEW s \in Nat, NEW p \in Nat,
         NEW x \in Nat, NEW v \in Nat, v <= s, x <= h + b + t + r + v
  PROVE  x <= h + b + t + r + s + p
  OBVIOUS

LEMMA WhileLoading ==
  ASSUME LoadInv, MemInv, phase \in Loading
  PROVE  mem \in Nat /\ mem <= Total - Baseline + Unplanned
<1>1. /\ HeaderInv /\ stage = "opened" /\ BlocksOf(config) /\ SpansOfBlocks /\ NLayer = config.nLayer /\ SlotRoom /\ AtBlock
  BY LoadingFacts
<1>2. SpansOk
  BY <1>1, SpansAreOk
<1>3. Allocated /\ SizesOf(config) /\ NothingYet
  BY DEF MemInv, Given, Loading
<1> DEFINE h == HeadBytesOf
           a == MtpUpTo(config.blocks)
           d == UnplannedMtp
           b == MtpBytesOf
           t == Prefix(pinned)
           r == RingBytes
           s == SmallUpTo(config.nLayer)
           p == PlannedState(maxPos, drafts)
           sum == Total - Baseline + Unplanned
<1>4. /\ h \in Nat /\ b \in Nat /\ t \in Nat /\ r \in Nat /\ s \in Nat /\ p \in Nat /\ d \in Nat
      /\ sum = h + b + t + r + s + p
  BY PlanLines
<1>5. a \in Nat /\ b = a + d
  BY <1>1, MtpFigures DEF MtpBytesOf
<1>6. mem \in Nat
  BY <1>3 DEF Allocated
<1>7. CASE phase = "accepted"
  <2>1. mem = 0
    BY <1>3, <1>7 DEF NothingYet, Deciding
  <2> HIDE DEF h, b, t, r, s, p, sum
  <2>2. 0 <= h + b + t + r + s + p
    BY <1>4
  <2>3. QED
    BY <1>4, <1>6, <2>1, <2>2 DEF sum
<1>8. CASE phase = "mtp"
  <2> DEFINE n == MtpUpTo(next)
             e == DraftUpTo(next)
  <2>1. next \in config.nLayer .. config.blocks /\ mem <= h + n + e
    BY <1>3, <1>8 DEF Allocated
  <2>2. n \in Nat /\ n <= a
    BY <1>1, <2>1, MtpFigures
  <2>3. e \in Nat /\ e <= d
    <3>1. e = d \/ e = 0
      BY DEF DraftUpTo
    <3> HIDE DEF d, e
    <3>2. QED
      BY <1>4, <3>1
  <2> HIDE DEF h, a, d, b, t, r, s, p, n, e, sum
  <2>4. mem <= h + b + t + r + s + p
    BY <1>4, <1>5, <1>6, <2>1, <2>2, <2>3, BelowAtMtp
  <2>5. QED
    BY <1>4, <1>6, <2>4 DEF sum
<1>9. CASE phase = "tier 1"
  <2> DEFINE u == Prefix(next)
             v == SmallUpTo(next)
  <2>1. mem <= h + b + u + v
    BY <1>3, <1>9 DEF Allocated
  <2>2. next \in 0 .. pinned /\ pinned \in 0 .. NLayer /\ next \in 0 .. config.nLayer
    <3>1. next \in 0 .. pinned /\ pinned \in 0 .. config.nLayer /\ config.nLayer \in Nat
      BY <1>1, <1>9 DEF AtBlock, SlotRoom, BlocksOf
    <3>2. next \in 0 .. config.nLayer
      BY <3>1
    <3>3. QED
      BY <1>1, <3>1, <3>2
  <2>3. u \in Nat /\ u <= t
    <3>1. next \in 0 .. NLayer
      BY <1>1, <2>2
    <3>2. QED
      BY <1>2, <2>2, <3>1, PrefixFigures
  <2>4. v \in Nat /\ v <= s
    BY <1>1, <2>2, SmallFigures
  <2> HIDE DEF h, a, d, b, t, r, s, p, u, v, sum
  <2>5. mem <= h + b + t + r + s + p
    BY <1>4, <1>6, <2>1, <2>3, <2>4, BelowAtTier1
  <2>6. QED
    BY <1>4, <1>6, <2>5 DEF sum
<1>10. CASE phase = "tier 2"
  <2> DEFINE v == SmallUpTo(next)
  <2>1. mem <= h + b + t + r + v
    BY <1>3, <1>10 DEF Allocated
  <2>2. next \in 0 .. config.nLayer
    <3>1. next \in pinned .. config.nLayer /\ pinned \in 0 .. config.nLayer /\ config.nLayer \in Nat
      BY <1>1, <1>10 DEF AtBlock, SlotRoom, BlocksOf
    <3>2. QED
      BY <3>1
  <2>3. v \in Nat /\ v <= s
    BY <1>1, <2>2, SmallFigures
  <2> HIDE DEF h, a, d, b, t, r, s, p, v, sum
  <2>4. mem <= h + b + t + r + s + p
    BY <1>4, <1>6, <2>1, <2>3, BelowAtTier2
  <2>5. QED
    BY <1>4, <1>6, <2>4 DEF sum
<1>11. CASE phase = "loaded"
  <2>1. mem <= h + b + t + r + s
    BY <1>3, <1>11 DEF Allocated
  <2> HIDE DEF h, a, d, b, t, r, s, p, sum
  <2>2. s <= s
    BY <1>4
  <2>3. mem <= h + b + t + r + s + p
    BY <1>4, <1>6, <2>1, <2>2, BelowAtTier2
  <2>4. QED
    BY <1>4, <1>6, <2>3 DEF sum
<1>12. CASE phase = "ready"
  <2>1. mem <= h + b + t + r + s + p
    BY <1>3, <1>12 DEF Allocated
  <2> HIDE DEF h, a, d, b, t, r, s, p, sum
  <2>2. QED
    BY <1>4, <1>6, <2>1 DEF sum
<1>13. QED
  BY <1>7, <1>8, <1>9, <1>10, <1>11, <1>12 DEF Loading

\* The invariant says what is promised of the memory.
LEMMA MemInvHolds == LoadInv /\ MemInv => PlanCoversMemory
<1> SUFFICES ASSUME LoadInv, MemInv, phase # "failed" PROVE PlanCoversMemory
  BY DEF MemInv
<1>1. Given /\ Allocated /\ NothingYet
  BY DEF MemInv
<1>2. phase = "resident" => PlanInput
  BY <1>1 DEF Given, Deciding, PlanInv
<1>3. mem > 0 => mem <= Total - Baseline + Unplanned
  <2>1. CASE phase \in Loading
    BY <2>1, WhileLoading
  <2>2. CASE phase \notin Loading
    <3>1. phase \in {"file", "config"} \cup Deciding
      BY <2>2 DEF LoadInv, Progress
    <3>2. mem = 0
      BY <1>1, <3>1 DEF NothingYet
    <3>3. QED
      BY <3>2
  <2>3. QED
    BY <2>1, <2>2
<1>4. phase = "ready" =>
        PlannedState(maxPos, drafts) =
          StateBytes(config, maxPos) + 4 * config.vocab
            + (IF drafts > 0 THEN SpecStateBytes(config, drafts, maxPos) ELSE 0)
  BY <1>1, StateAsPlanned DEF Given, Loading
<1>5. QED
  BY <1>2, <1>3, <1>4 DEF PlanCoversMemory

-----------------------------------------------------------------------------
(* Every step keeps it.                                                    *)

LEMMA PlanFiguresStay ==
  ASSUME UNCHANGED input
  PROVE  /\ \A n : Prefix(n)' = Prefix(n) /\ TotalOf(n)' = TotalOf(n)
         /\ Feasible' = Feasible
         /\ UNCHANGED plan => Total' = Total /\ (LongestPrefix /\ Planned => LongestPrefix')
<1>1. (\A n : Prefix(n)' = Prefix(n)) /\ Feasible' = Feasible /\ (\A n : TotalOf(n)' = TotalOf(n))
  BY PrefixUnchanged, FeasibleUnchanged, TotalOfUnchanged
<1>2. ASSUME UNCHANGED plan PROVE Total' = Total
  <2>1. Prefix(pinned)' = Prefix(pinned)
    BY <1>2 DEF Prefix, plan, input, SpanLen, ArenaBytes, AlignUp, AlignDown, Layers
  <2>2. QED
    BY <1>2, <2>1 DEF Total, plan, input
<1>3. ASSUME UNCHANGED plan, LongestPrefix, Planned PROVE LongestPrefix'
  BY <1>1, <1>3 DEF LongestPrefix, plan, input
<1>4. QED
  BY <1>1, <1>2, <1>3

LEMMA NoneIsNat == \A x : x = 0 => x \in Nat
  OBVIOUS

LEMMA CountedStays == ASSUME UNCHANGED file, IsCounted(file) PROVE IsCounted(file)'
  BY DEF IsCounted

LEMMA MemInvInit == Init => MemInv
<1> SUFFICES ASSUME Init PROVE MemInv
  OBVIOUS
<1>1. IsCounted(file)
  <2>1. PICK n \in DOMAIN Files : OpeningOf(Files[n], n \in ShortReads)
    BY DEF Init, GgufInit
  <2>2. file.infos = Files[n].infos /\ file.kv = Files[n].kv
    BY <2>1 DEF OpeningOf, Opening
  <2>3. IsCounted(Files[n])
    BY CountedAssumption
  <2>4. QED
    BY <2>2, <2>3 DEF IsCounted
<1>2. NothingYet /\ NoPlanYet /\ LongestPrefix
  BY DEF Init, NothingYet, NoPlanYet, LongestPrefix, Planned
<1>3. Given /\ Allocated
  BY DEF Init, Given, Allocated, Deciding, Loading
<1>4. QED
  BY <1>1, <1>2, <1>3 DEF MemInv, Init

\* Nothing is allocated while the file is read.
LEMMA MemReadHeader == LoadInv /\ MemInv /\ ReadHeader => MemInv'
<1> SUFFICES ASSUME LoadInv, MemInv, ReadHeader PROVE MemInv'
  OBVIOUS
<1>1. stage # "opened" /\ phase \in {"file", "failed"} /\ phase' = phase /\ mem = 0 /\ mem' = 0
  BY OpenedIsOver DEF LoadInv, MemInv, NothingYet, ReadHeader, planVars, loadVars
<1>2. IsCounted(file)'
  <2>1. file' = file
    BY DEF ReadHeader, Open, StartRefill, OsRead, OsReadNothing, Take, HeaderRead, BuildIndex
  <2>2. QED
    BY <2>1, CountedStays DEF MemInv
<1>3. NothingYet' /\ NoPlanYet' /\ LongestPrefix'
  <2>1. UNCHANGED input /\ UNCHANGED plan /\ UNCHANGED phase
    BY DEF ReadHeader, planVars
  <2>2. NothingYet'
    BY <1>1 DEF NothingYet
  <2>3. NoPlanYet'
    BY <2>1 DEF MemInv, NoPlanYet, plan, input
  <2>4. Feasible' = Feasible
    BY <2>1, PlanFiguresStay
  <2>5. LongestPrefix'
    BY <2>1, <2>4 DEF MemInv, LongestPrefix, Planned, plan, input
  <2>6. QED
    BY <2>2, <2>3, <2>5
<1>4. PlanCoversMemory'
  BY <1>1 DEF PlanCoversMemory
<1>5. phase = "file" => Given' /\ Allocated'
  BY <1>1 DEF Given, Allocated, Deciding, Loading
<1>6. QED
  BY <1>1, <1>2, <1>3, <1>4, <1>5 DEF MemInv

\* A load that fails keeps what it allocated.
LEMMA MemFails ==
  ASSUME LoadInv, MemInv, phase \in {"file"} \cup Loading, UNCHANGED ggufVars, UNCHANGED input, UNCHANGED plan,
         UNCHANGED config, UNCHANGED mem, phase' = "failed"
  PROVE  MemInv'
<1>1. NothingYet'
  BY DEF MemInv, NothingYet, ggufVars, Deciding
<1>2. NoPlanYet'
  BY DEF MemInv, NoPlanYet, plan, input
<1>3. IsCounted(file)'
  BY CountedStays DEF MemInv, ggufVars
<1>4. LongestPrefix'
  <2>1. CASE phase = "file"
    BY <2>1 DEF MemInv, NoPlanYet, LongestPrefix, input
  <2>2. CASE phase \in Loading
    <3>1. Planned
      BY <2>2 DEF Planned, Loading
    <3>2. QED
      BY <3>1, PlanFiguresStay DEF MemInv
  <2>3. QED
    BY <2>1, <2>2
<1>5. PlanCoversMemory'
  <2>1. mem > 0 => mem <= Total - Baseline + Unplanned
    BY MemInvHolds DEF PlanCoversMemory
  <2>2. Total' = Total /\ Unplanned' = Unplanned
    BY PlanFiguresStay, FiguresStay
  <2>3. QED
    BY <2>1, <2>2 DEF PlanCoversMemory
<1>6. QED
  BY <1>1, <1>2, <1>3, <1>4, <1>5 DEF MemInv

LEMMA MemOpenFails == LoadInv /\ MemInv /\ OpenFails => MemInv'
  BY MemFails DEF OpenFails, Fail

LEMMA MemConfigFails == LoadInv /\ MemInv /\ ConfigFails => MemInv'
  BY MemFails DEF ConfigFails, Fail

LEMMA MemDriveFailed == LoadInv /\ MemInv /\ DriveFailed => MemInv'
  BY MemFails DEF DriveFailed, Fail, LoadFrame, Loading

LEMMA MemConfigAccepted == LoadInv /\ MemInv /\ ConfigAccepted => MemInv'
<1> SUFFICES ASSUME LoadInv, MemInv, ConfigAccepted PROVE MemInv'
  OBVIOUS
<1> USE DEF ConfigAccepted
<1>1. /\ stage = "opened" /\ phase = "file" /\ phase' = "config" /\ UNCHANGED ggufVars /\ UNCHANGED input /\ UNCHANGED plan
      /\ mem' = mem /\ mem = 0 /\ HeaderInv /\ IsCounted(file)
  BY DEF LoadInv, MemInv, NothingYet
<1>2. SizesOf(Config)
  BY <1>1, AcceptedSizes
<1>3. NothingYet' /\ NoPlanYet' /\ LongestPrefix'
  BY <1>1 DEF MemInv, NothingYet, NoPlanYet, LongestPrefix, Planned, plan, input, ggufVars
<1>4. IsCounted(file)'
  BY <1>1, CountedStays DEF ggufVars
<1>5. SizesOf(config)'
  BY <1>2 DEF SizesOf
<1>6. Given'
  BY <1>1, <1>5 DEF Given, Deciding, Loading
<1>7. Allocated'
  <2>1. mem' = 0
    BY <1>1
  <2>2. mem' \in Nat
    BY <2>1, NoneIsNat
  <2>3. phase' \notin {"mtp", "tier 1", "tier 2", "loaded", "ready"}
    BY <1>1
  <2>4. QED
    BY <2>2, <2>3 DEF Allocated
<1>8. QED
  BY <1>1, <1>3, <1>4, <1>6, <1>7 DEF MemInv

LEMMA StillLongest == PlanInv' => LongestPrefix'
  BY BestIsLongest, PTL

\* The spans the planner is given are those of the blocks, and none is backwards.
LEMMA SpansGiven ==
  ASSUME HeaderInv, stage = "opened", BlocksOf(config)
  PROVE  \A l \in 0 .. config.nLayer - 1 : BlockRange(l) \in Nat \X Nat /\ BlockRange(l)[1] <= BlockRange(l)[2]
<1> SUFFICES ASSUME NEW l \in 0 .. config.nLayer - 1
             PROVE  BlockRange(l) \in Nat \X Nat /\ BlockRange(l)[1] <= BlockRange(l)[2]
  OBVIOUS
<1>1. config.blocks \in Nat /\ config.nLayer \in Nat /\ config.nLayer <= config.blocks
  BY DEF BlocksOf
<1>2. l \in 0 .. config.blocks - 1
  BY <1>1
<1>3. LayerTensors(l) # {}
  BY <1>2 DEF BlocksOf
<1>4. QED
  BY <1>3, BlockPlace

LEMMA SizesStay == ASSUME UNCHANGED config, SizesOf(config) PROVE SizesOf(config)'
  BY DEF SizesOf

LEMMA InRange == \A n \in Nat : n \in -1 .. n /\ 0 \in 0 .. n
  OBVIOUS

\* What the planner is given is a plan's input.
LEMMA MemMakePlanInput == LoadInv /\ MemInv /\ MakePlanInput => MemInv'
<1> SUFFICES ASSUME LoadInv, MemInv, MakePlanInput PROVE MemInv'
  OBVIOUS
<1> USE DEF MakePlanInput
<1>1. /\ stage = "opened" /\ phase = "config" /\ phase' = "resident" /\ config' = config /\ mem' = mem
      /\ BlocksOf(config) /\ HeaderInv /\ UNCHANGED ggufVars /\ UNCHANGED config /\ UNCHANGED plan
  BY DEF LoadInv, Progress
<1>2. /\ SizesOf(config) /\ mem = 0 /\ IsCounted(file)
      /\ pinned = 0 /\ nSlots = 0 /\ slotBytes = 0 /\ nSlots \in Nat /\ slotBytes \in Nat
  BY <1>1 DEF MemInv, Given, NothingYet, NoPlanYet
<1>3. pinned' = 0 /\ nSlots' \in Nat /\ slotBytes' \in Nat
  BY <1>1, <1>2 DEF plan
<1> DEFINE n == config.nLayer
<1>4. n \in Nat \ {0} /\ k' = n
  BY <1>1 DEF BlocksOf
<1>5. maxPos' \in Nat /\ drafts' \in Nat /\ slots' \in SlotCounts /\ budget' \in Budgets
  BY LoadAssumption
<1>6. resident' \in Nat /\ resident' = ResidentBytes(maxPos, drafts)'
  <2>1. PICK p \in Nat, d \in Nat : p = maxPos' /\ d = drafts'
    BY <1>5
  <2>2. ResidentBytes(p, d) \in Nat
    BY <1>1, <1>2, ResidentLines
  <2>3. ResidentBytes(p, d)' = ResidentBytes(p, d)
    BY <1>1, FiguresStay
  <2>4. resident' = ResidentBytes(p, d)
    BY <2>1
  <2>5. ResidentBytes(maxPos, drafts)' = ResidentBytes(p, d)'
    BY <2>1
  <2>6. QED
    BY <2>2, <2>3, <2>4, <2>5
<1>7. \A l \in 0 .. n - 1 : BlockRange(l) \in Nat \X Nat /\ BlockRange(l)[1] <= BlockRange(l)[2]
  BY <1>1, SpansGiven
<1>8. span' = [l \in 0 .. n - 1 |-> BlockRange(l)]
  OBVIOUS
<1> HIDE DEF n
<1>9. Layers' = 0 .. n - 1
  BY <1>8 DEF Layers
<1>10. NLayer' = n
  BY <1>4, <1>9, RangeCount DEF NLayer
<1>11. span' \in [0 .. n - 1 -> Nat \X Nat] /\ \A l \in 0 .. n - 1 : span'[l][1] <= span'[l][2]
  BY <1>7, <1>8
<1>12. PlanInput'
  BY <1>4, <1>5, <1>6, <1>9, <1>10, <1>11 DEF PlanInput
<1>13. PlanTypeOK'
  <2>1. k' \in -1 .. n /\ pinned' \in 0 .. n
    BY <1>3, <1>4, InRange
  <2>2. QED
    BY <1>1, <1>10, <2>1 DEF PlanTypeOK
<1>14. PlanInv'
  BY <1>1, <1>12, <1>13 DEF PlanInv, SearchPassed, PlanIsBest, StreamedPlan, AcceptedIsChecked, Planned
<1>15. Given'
  BY <1>1, <1>2, <1>5, <1>6, <1>14, SizesStay DEF Given, Deciding, Loading
<1>16. NothingYet' /\ NoPlanYet'
  BY <1>1, <1>2, <1>3 DEF NothingYet, NoPlanYet
<1>17. LongestPrefix' /\ IsCounted(file)'
  BY <1>1, <1>2, <1>14, StillLongest, CountedStays DEF ggufVars
<1>18. Allocated'
  <2>1. mem' \in Nat
    BY <1>1, <1>2, NoneIsNat
  <2>2. QED
    BY <1>1, <2>1 DEF Allocated
<1>19. QED
  BY <1>1, <1>15, <1>16, <1>17, <1>18 DEF MemInv

LEMMA GivenStays ==
  ASSUME UNCHANGED ggufVars, UNCHANGED config, UNCHANGED maxPos, UNCHANGED drafts, maxPos \in Nat, drafts \in Nat
  PROVE  /\ ResidentBytes(maxPos, drafts)' = ResidentBytes(maxPos, drafts)
         /\ PlannedState(maxPos, drafts)' = PlannedState(maxPos, drafts)
<1>1. PICK p \in Nat, d \in Nat : p = maxPos /\ d = drafts
  OBVIOUS
<1>2. p = maxPos' /\ d = drafts'
  BY <1>1
<1>3. ResidentBytes(p, d)' = ResidentBytes(p, d) /\ PlannedState(p, d)' = PlannedState(p, d)
  BY FiguresStay
<1>4. ResidentBytes(maxPos, drafts)' = ResidentBytes(p, d)' /\ PlannedState(maxPos, drafts)' = PlannedState(p, d)'
  BY <1>2
<1>5. QED
  BY <1>1, <1>3, <1>4

\* The slots of a plan are sized by a natural number of bytes.
LEMMA SlotForNat == ASSUME SpansOk, NEW n \in 0 .. NLayer - 1 PROVE SlotFor(n) \in Nat
<1>1. LargestFrom(n) \in Nat
  BY LargestOfSuffix
<1>2. SlotFor(n) = ArenaBytes(LargestFrom(n))
  BY SlotHoldsSuffix
<1>3. QED
  BY <1>1, <1>2, ArenaBytesNat

LEMMA SearchRange == \A n \in Nat \ {0} : \A x \in -1 .. n : x >= 0 /\ x < n => x \in 0 .. n - 1
  OBVIOUS

LEMMA FirstLayer == \A n \in Nat \ {0} : 0 \in 0 .. n - 1
  OBVIOUS

LEMMA PlanNumbers ==
  ASSUME PlanInv, nSlots \in Nat, slotBytes \in Nat, PlanNext
  PROVE  nSlots' \in Nat /\ slotBytes' \in Nat
<1>1. SpansOk /\ NLayer \in Nat \ {0} /\ slots \in Nat /\ k \in -1 .. NLayer /\ (phase = "search" => k < NLayer)
  BY PlanAssumption DEF PlanInv, PlanInput, PlanTypeOK, SpansOk
<1>2. CASE EverythingResident
  BY <1>2, NoneIsNat DEF EverythingResident
<1>3. CASE StartSearch \/ SkipK \/ Check
  BY <1>3 DEF StartSearch, SkipK, Check, plan
<1>4. CASE TakeK
  <2>1. k \in 0 .. NLayer - 1
    <3>1. k >= 0 /\ k < NLayer
      BY <1>1, <1>4 DEF TakeK
    <3>2. QED
      BY <1>1, <3>1, SearchRange
  <2>2. SlotFor(k) \in Nat
    BY <1>1, <2>1, SlotForNat
  <2>3. QED
    BY <1>1, <1>4, <2>2 DEF TakeK
<1>5. CASE NothingFits
  <2>1. SlotFor(0) \in Nat
    BY <1>1, FirstLayer, SlotForNat
  <2>2. QED
    BY <1>1, <1>5, <2>1 DEF NothingFits
<1>6. QED
  BY <1>2, <1>3, <1>4, <1>5 DEF PlanNext, Compute

LEMMA MemMakePlan == LoadInv /\ MemInv /\ MakePlan => MemInv'
<1> SUFFICES ASSUME LoadInv, MemInv, MakePlan PROVE MemInv'
  OBVIOUS
<1>1. /\ UNCHANGED ggufVars /\ UNCHANGED config /\ UNCHANGED maxPos /\ UNCHANGED drafts /\ mem' = mem /\ UNCHANGED input
      /\ phase \in Deciding /\ phase' \in Deciding /\ resident' = resident /\ PlanNext
  BY DEF MakePlan, PlanNext, Compute, EverythingResident, StartSearch, TakeK, SkipK, NothingFits, Check,
         Deciding, loadVars, input
<1>2. phase # "file" /\ phase # "failed" /\ phase' # "file" /\ phase' # "failed" /\ phase' # "config"
  BY <1>1 DEF Deciding
<1>3. /\ SizesOf(config) /\ PlanInv /\ mem = 0 /\ IsCounted(file) /\ nSlots \in Nat /\ slotBytes \in Nat
      /\ maxPos \in Nat /\ drafts \in Nat /\ resident = ResidentBytes(maxPos, drafts)
  BY <1>1, <1>2 DEF MemInv, Given, NothingYet, NoPlanYet
<1>4. PlanInv'
  BY <1>1, <1>3, PlanInvStep
<1>5. nSlots' \in Nat /\ slotBytes' \in Nat
  BY <1>1, <1>3, PlanNumbers
<1>6. Given'
  <2>1. maxPos' \in Nat /\ drafts' \in Nat
    BY <1>1, <1>3
  <2>2. resident' = ResidentBytes(maxPos, drafts)'
    BY <1>1, <1>3, GivenStays
  <2>3. SizesOf(config)'
    BY <1>1, <1>3, SizesStay
  <2>4. QED
    BY <1>4, <2>1, <2>2, <2>3 DEF Given
<1>7. NothingYet' /\ NoPlanYet'
  BY <1>1, <1>2, <1>3, <1>5 DEF NothingYet, NoPlanYet
<1>8. LongestPrefix' /\ IsCounted(file)'
  BY <1>1, <1>3, <1>4, StillLongest, CountedStays DEF ggufVars
<1>9. Allocated'
  <2>1. mem' \in Nat
    BY <1>1, <1>3, NoneIsNat
  <2>2. phase' \notin {"mtp", "tier 1", "tier 2", "loaded", "ready"}
    BY <1>1 DEF Deciding
  <2>3. QED
    BY <2>1, <2>2 DEF Allocated
<1>10. QED
  BY <1>2, <1>6, <1>7, <1>8, <1>9 DEF MemInv

\* Once the plan stands, a step is judged by what it allocates.
LEMMA MemStep ==
  ASSUME LoadInv, MemInv, phase \in Loading, LoadFrame, phase' \in Filling, NEW x, x = next', mem' \in Nat,
         phase' = "mtp"    => x \in config.nLayer .. config.blocks /\ mem' <= HeadBytesOf + MtpUpTo(x) + DraftUpTo(x),
         phase' = "tier 1" => mem' <= HeadBytesOf + MtpBytesOf + Prefix(x) + SmallUpTo(x),
         phase' = "tier 2" => mem' <= HeadBytesOf + MtpBytesOf + Prefix(pinned) + RingBytes + SmallUpTo(x),
         phase' = "loaded" => mem' <= HeadBytesOf + MtpBytesOf + Prefix(pinned) + RingBytes + SmallUpTo(config.nLayer),
         phase' = "ready"  => mem' <= HeadBytesOf + MtpBytesOf + Prefix(pinned) + RingBytes + SmallUpTo(config.nLayer)
                                        + PlannedState(maxPos, drafts)
  PROVE  MemInv'
<1>1. /\ UNCHANGED ggufVars /\ UNCHANGED config /\ UNCHANGED maxPos /\ UNCHANGED drafts /\ UNCHANGED input /\ UNCHANGED plan
      /\ resident' = resident /\ pinned' = pinned /\ nSlots' = nSlots /\ slotBytes' = slotBytes /\ stage' = stage /\ config' = config
  BY DEF LoadFrame, input, plan, ggufVars
<1>2. phase \notin {"file", "config", "failed"} /\ phase' \notin {"file", "config", "failed"} /\ phase' \notin Deciding
  BY DEF Loading, Filling, Deciding
<1>3. /\ SizesOf(config) /\ IsCounted(file) /\ nSlots \in Nat /\ slotBytes \in Nat /\ LongestPrefix /\ stage = "opened"
      /\ maxPos \in Nat /\ drafts \in Nat /\ resident = ResidentBytes(maxPos, drafts)
  BY <1>2, LoadingFacts DEF MemInv, Given, NoPlanYet
<1>4. Given'
  <2>1. maxPos' \in Nat /\ drafts' \in Nat
    BY <1>1, <1>3
  <2>2. resident' = ResidentBytes(maxPos, drafts)'
    BY <1>1, <1>3, GivenStays
  <2>3. SizesOf(config)'
    BY <1>1, <1>3, SizesStay
  <2>4. QED
    BY <1>2, <2>1, <2>2, <2>3 DEF Given
<1>5. NothingYet' /\ NoPlanYet'
  BY <1>1, <1>2, <1>3 DEF NothingYet, NoPlanYet
<1>6. LongestPrefix' /\ IsCounted(file)'
  <2>1. Planned
    BY DEF Planned, Loading
  <2>2. QED
    BY <1>1, <1>3, <2>1, PlanFiguresStay, CountedStays DEF ggufVars
<1>7. Allocated'
  <2>1. /\ HeadBytesOf' = HeadBytesOf /\ MtpBytesOf' = MtpBytesOf /\ UnplannedMtp' = UnplannedMtp
        /\ MtpUpTo(x)' = MtpUpTo(x) /\ SmallUpTo(x)' = SmallUpTo(x)
        /\ Prefix(x)' = Prefix(x)
    BY <1>1, FiguresStay, PlanFiguresStay
  <2>2. MtpUpTo(next)' = MtpUpTo(x) /\ SmallUpTo(next)' = SmallUpTo(x) /\ Prefix(next)' = Prefix(x)
    BY <2>1
  <2>3. DraftUpTo(next)' = DraftUpTo(x)
    BY <1>1, <2>1 DEF DraftUpTo
  <2>4. RingBytes' = RingBytes
    BY <1>1 DEF RingBytes
  <2>5. Prefix(pinned)' = Prefix(pinned) /\ SmallUpTo(config.nLayer)' = SmallUpTo(config.nLayer)
    <3>1. \A n : Prefix(n)' = Prefix(n) /\ SmallUpTo(n)' = SmallUpTo(n)
      BY <1>1, FiguresStay, PlanFiguresStay
    <3>2. PICK a, b : a = pinned /\ b = config.nLayer
      OBVIOUS
    <3>3. a = pinned' /\ b = config'.nLayer
      BY <1>1, <3>2
    <3>4. Prefix(a)' = Prefix(a) /\ SmallUpTo(b)' = SmallUpTo(b)
      BY <3>1
    <3>5. Prefix(pinned)' = Prefix(a)' /\ SmallUpTo(config.nLayer)' = SmallUpTo(b)'
      BY <3>3
    <3>6. QED
      BY <3>2, <3>4, <3>5
  <2>6. PlannedState(maxPos, drafts)' = PlannedState(maxPos, drafts)
    BY <1>1, <1>3, GivenStays
  <2> HIDE DEF Allocated
  <2>7. mem' \in Nat
    OBVIOUS
  <2>8. QED
    BY <1>1, <2>1, <2>2, <2>3, <2>4, <2>5, <2>6, <2>7 DEF Allocated
<1>8. QED
  BY <1>2, <1>4, <1>5, <1>6, <1>7 DEF MemInv

\* An arena is counted with the copies made of its block.
LEMMA ArenaMem ==
  ASSUME LoadInv, MemInv, phase \in {"accepted", "mtp", "tier 1"}, LoadFrame,
         NEW id, NEW l, NEW range, NEW list, NEW then, LoadArena(id, l, range, list, then)
  PROVE  \/ MemInv'
         \/ /\ \E from, bytes : LoadError(l, list, from, bytes) = ""
            /\ mem' = mem + ArenaBytes(range[2] - range[1]) + CopiedBytes(list)
            /\ phase' = then.phase /\ next' = then.next
<1> DEFINE bytes == ArenaBytes(range[2] - range[1])
           got   == Filled(range)
           tried == LoadError(l, list, FileStart(range), bytes)
           err   == IF ReadBytes(range) > bytes THEN "arena too small"
                    ELSE IF got < HeadBytes(range) + (range[2] - range[1]) THEN "short read"
                    ELSE tried
<1>1. /\ UNCHANGED ggufVars /\ UNCHANGED input /\ UNCHANGED plan /\ UNCHANGED config /\ phase \in {"file"} \cup Loading
  BY DEF LoadFrame, Loading
<1>2. IF err # "" THEN Fail(err) /\ UNCHANGED mem
      ELSE mem' = mem + bytes + CopiedBytes(list) /\ phase' = then.phase /\ next' = then.next
  BY DEF LoadArena
<1>3. err = "" => tried = ""
  <2> HIDE DEF tried, got, bytes
  <2>1. QED
    OBVIOUS
<1> HIDE DEF err
<1>4. CASE err # ""
  BY <1>1, <1>2, <1>4, MemFails DEF Fail
<1>5. CASE err = ""
  BY <1>2, <1>3, <1>5
<1>6. QED
  BY <1>4, <1>5

\* What every step of loading finds of the figures.
LEMMA StepFacts ==
  ASSUME LoadInv, MemInv, phase \in Loading
  PROVE  /\ SizesOf(config) /\ IsCounted(file) /\ Allocated /\ mem \in Nat /\ SpansOk
         /\ HeadBytesOf \in Nat /\ MtpBytesOf \in Nat /\ UnplannedMtp \in Nat /\ RingBytes \in Nat
         /\ HeadBytesOf = NonLayerArenaBytes + CopiedBytes(HeadLoad(config))
         /\ NonLayerArenaBytes \in Nat /\ CopiedBytes(HeadLoad(config)) \in Nat
<1>1. phase # "file" /\ phase # "failed"
  BY DEF Loading
<1>2. HeaderInv /\ stage = "opened" /\ BlocksOf(config) /\ SpansOfBlocks /\ NLayer = config.nLayer
  BY LoadingFacts
<1>3. SizesOf(config) /\ IsCounted(file) /\ Allocated
  BY <1>1 DEF MemInv, Given
<1>4. SpansOk
  BY <1>2, SpansAreOk
<1>5. mem \in Nat
  BY <1>3 DEF Allocated
<1>6. HeadBytesOf \in Nat /\ MtpBytesOf \in Nat /\ UnplannedMtp \in Nat /\ RingBytes \in Nat
  BY PlanLines
<1>7. NonLayerArenaBytes \in Nat /\ CopiedBytes(HeadLoad(config)) \in Nat
  BY <1>2, <1>3, HeadFigures
<1>8. QED
  BY <1>3, <1>4, <1>5, <1>6, <1>7 DEF HeadBytesOf

LEMMA ThreeOf ==
  ASSUME NEW a, NEW b, NEW c, NEW list, list = <<a, b, c>>
  PROVE  list[1] = a /\ list[2] = b /\ 1 \in DOMAIN list /\ 2 \in DOMAIN list
  OBVIOUS

\* The embedding and the head, copied one by one, are among the tensors of no layer.
LEMMA HeadCopies ==
  ASSUME HeaderInv, stage = "opened", NEW c, LoadError(NoLayer, HeadLoad(c), NoArena, 0) = ""
  PROVE  LET mats == {Tensor(<<NoLayer, s>>) : s \in {"token_embd.weight", "output.weight"}}
         IN  SumSizes(mats) \in Nat /\ SumSizes(mats) <= SumSizes(NonLayerTensors)
<1> DEFINE list == HeadLoad(c)
           n1 == "token_embd.weight"
           n2 == "output.weight"
           t1 == Tensor(<<NoLayer, n1>>)
           t2 == Tensor(<<NoLayer, n2>>)
           M == {t1, t2}
           S == NonLayerTensors
           f == [t \in S |-> t.size]
           g == [t \in M |-> t.size]
<1>1. list[1][2] = n1 /\ list[2][2] = n2 /\ 1 \in DOMAIN list /\ 2 \in DOMAIN list
  <2> DEFINE e1 == Mat(n1, c.vocab, c.hidden)
             e2 == Mat(n2, c.vocab, c.hidden)
             e3 == Vec("output_norm.weight", c.hidden)
  <2>1. e1[2] = n1 /\ e2[2] = n2
    BY DEF Mat
  <2>2. list = <<e1, e2, e3>>
    BY DEF HeadLoad
  <2> HIDE DEF e1, e2, e3, list
  <2>3. list[1] = e1 /\ list[2] = e2 /\ 1 \in DOMAIN list /\ 2 \in DOMAIN list
    BY <2>2, ThreeOf
  <2>4. QED
    BY <2>1, <2>3
<1>2. SourceError(NoLayer, list[1], NoArena, 0) = "" /\ SourceError(NoLayer, list[2], NoArena, 0) = ""
  BY <1>1, Lists, LoadErrorFacts
<1>3. HasTensor(<<NoLayer, n1>>) /\ HasTensor(<<NoLayer, n2>>)
  BY <1>1, <1>2 DEF SourceError
<1> HIDE DEF n1, n2
<1>4. ASSUME NEW n, HasTensor(<<NoLayer, n>>) PROVE Tensor(<<NoLayer, n>>) \in S
  <2> DEFINE name == <<NoLayer, n>>
  <2>1. name[1] = NoLayer
    OBVIOUS
  <2>2. HasTensor(name)
    BY <1>4
  <2> HIDE DEF name
  <2>3. Tensor(name) \in index /\ Tensor(name).name = name
    BY <2>2, FoundTensor
  <2>4. LayerOf(Tensor(name).name) = NoLayer
    BY <2>1, <2>3 DEF LayerOf
  <2>5. QED
    BY <2>3, <2>4 DEF NonLayerTensors, LayerTensors, name
<1>5. t1 \in S /\ t2 \in S
  BY <1>3, <1>4
<1> HIDE DEF t1, t2
<1>6. M \in SUBSET S
  BY <1>5
<1>7. IsFiniteSet(S) /\ \A t \in S : f[t] \in Nat
  BY NonLayerFinite
<1>8. \A t \in M : g[t] = f[t]
  BY <1>6
<1>9. IsFiniteSet(M)
  BY <1>6, <1>7, FS_Subset
<1>10. SumSizes(S) = SumFunctionOnSet(f, S) /\ SumSizes(M) = SumFunctionOnSet(g, M)
  BY DEF SumSizes
<1>11. {Tensor(<<NoLayer, s>>) : s \in {"token_embd.weight", "output.weight"}} = M
  BY DEF t1, t2, n1, n2
<1> DEFINE b == [t \in M |-> t]
<1>12. \A t \in M : b[t] \in S /\ f[b[t]] = g[t]
  BY <1>6, <1>8
<1>13. \A i, j \in M : b[i] = b[j] => i = j
  OBVIOUS
<1>17. M \in SUBSET M /\ \A t \in M : g[t] \in Nat
  BY <1>6, <1>7, <1>8
<1> HIDE DEF M, S, f, g, b
<1>14. SumFunctionOnSet(g, M) <= SumFunctionOnSet(f, S)
  BY <1>7, <1>9, <1>12, <1>13, SumInto
<1>15. SumFunctionOnSet(g, M) \in Nat
  BY <1>9, <1>17, SumPart
<1>16. QED
  BY <1>10, <1>11, <1>14, <1>15 DEF S

LEMMA StartOfSums ==
  ASSUME NEW a \in Nat, NEW c \in Nat, NEW h, h = a + c, NEW m, m = 0, NEW x, x = m + a + c, NEW u, u = 0, NEW v, v = 0
  PROVE  x \in Nat /\ x <= h + u + v
  OBVIOUS

LEMMA StartOfParts ==
  ASSUME NEW a \in Nat, NEW c \in Nat, NEW h, h = a + c, NEW m, m = 0, NEW y \in Nat, y <= a, NEW x, x = m + y + c,
         NEW u, u = 0, NEW v, v = 0
  PROVE  x \in Nat /\ x <= h + u + v
  OBVIOUS

LEMMA SelfRange == \A n \in Nat, b \in Nat : n <= b => n \in n .. b /\ ~(n > n)
  OBVIOUS

\* The tensors of no layer take their arena, or less, and their copies.
LEMMA MemLoadResident == LoadInv /\ MemInv /\ LoadResident => MemInv'
<1> SUFFICES ASSUME LoadInv, MemInv, LoadResident PROVE MemInv'
  OBVIOUS
<1>1. phase = "accepted" /\ phase \in Loading /\ LoadFrame
  BY DEF LoadResident, Loading
<1>2. HeaderInv /\ stage = "opened" /\ BlocksOf(config)
  BY <1>1, LoadingFacts
<1>3. mem = 0
  BY <1>1 DEF MemInv, NothingYet, Deciding
<1> DEFINE a == NonLayerArenaBytes
           c == CopiedBytes(HeadLoad(config))
           h == HeadBytesOf
           n == config.nLayer
           u == MtpUpTo(n)
           v == DraftUpTo(n)
<1>4. a \in Nat /\ c \in Nat /\ h = a + c
  BY <1>1, StepFacts
<1>5. n \in Nat /\ n \in n .. config.blocks /\ ~(n > n)
  <2>1. n \in Nat /\ config.blocks \in Nat /\ n <= config.blocks
    BY <1>2 DEF BlocksOf
  <2> HIDE DEF n
  <2>2. QED
    BY <2>1, SelfRange
<1>6. u = 0 /\ v = 0
  BY <1>2, <1>5, MtpFigures DEF DraftUpTo
<1> HIDE DEF a, c, h, u, v, n
<1>7. ASSUME phase' = "mtp", next' = n, mem' \in Nat, mem' <= h + u + v PROVE MemInv'
  BY <1>1, <1>5, <1>7, MemStep DEF h, u, v, n, Filling
<1>8. CASE IsOneRegion
  <2> DEFINE id == [kind |-> "non-layer", i |-> 0]
             then == [phase |-> "mtp", next |-> config.nLayer]
  <2>1. LoadArena(id, NoLayer, NonLayerRange, HeadLoad(config), then)
    BY <1>8 DEF LoadResident
  <2>2. then.phase = "mtp" /\ then.next = n
    BY DEF n
  <2>3. a = ArenaBytes(NonLayerRange[2] - NonLayerRange[1])
    BY <1>8 DEF a, NonLayerArenaBytes
  <2> HIDE DEF id, then
  <2>4. MemInv' \/ (phase' = "mtp" /\ next' = n /\ mem' = mem + a + c)
    BY <1>1, <2>1, <2>2, <2>3, ArenaMem DEF c
  <2>5. mem' = mem + a + c => mem' \in Nat /\ mem' <= h + u + v
    BY <1>3, <1>4, <1>6, StartOfSums
  <2>6. QED
    BY <1>7, <2>4, <2>5
<1>9. CASE ~IsOneRegion
  <2> DEFINE err == LoadError(NoLayer, HeadLoad(config), NoArena, 0)
             y   == SumSizes({Tensor(<<NoLayer, s>>) : s \in {"token_embd.weight", "output.weight"}})
  <2>1. IF err # "" THEN Fail(err) /\ UNCHANGED mem ELSE mem' = mem + y + c /\ phase' = "mtp" /\ next' = n
    BY <1>9 DEF LoadResident, c, n
  <2>2. err = "" => y \in Nat /\ y <= SumSizes(NonLayerTensors)
    BY <1>2, HeadCopies
  <2>3. a = SumSizes(NonLayerTensors)
    BY <1>9 DEF a, NonLayerArenaBytes
  <2> HIDE DEF err, y
  <2>4. CASE err # ""
    BY <1>1, <2>1, <2>4, MemFails DEF Fail, LoadFrame
  <2>5. CASE err = ""
    <3>1. y \in Nat /\ y <= a
      BY <2>2, <2>3, <2>5
    <3>2. mem' = mem + y + c /\ phase' = "mtp" /\ next' = n
      BY <2>1, <2>5
    <3>3. mem' \in Nat /\ mem' <= h + u + v
      BY <1>3, <1>4, <1>6, <3>1, <3>2, StartOfParts
    <3>4. QED
      BY <1>7, <3>2, <3>3
  <2>6. QED
    BY <2>4, <2>5
<1>10. QED
  BY <1>8, <1>9

LEMMA NoCopies == CopiedBytes(<<>>) = 0
<1> DEFINE f == [i \in Copies(<<>>) |-> 4 * <<>>[i][3]]
<1>1. Copies(<<>>) = {}
  BY DEF Copies
<1>2. CopiedBytes(<<>>) = SumFunctionOnSet(f, {})
  BY <1>1 DEF CopiedBytes
<1> HIDE DEF f
<1>3. IsFiniteSet({}) /\ \A x \in {} : f[x] \in Int
  BY FS_EmptySet
<1>4. SumFunctionOnSet(f, {}) = 0
  BY <1>3, SumFacts
<1>5. QED
  BY <1>2, <1>4

LEMMA AddFirst ==
  ASSUME NEW h \in Nat, NEW u \in Nat, NEW a \in Nat, NEW d \in Nat, NEW m \in Nat, NEW e, e = 0, m <= h + u + e,
         NEW w, w = u + a, NEW x, x = m + a + d
  PROVE  x \in Nat /\ x <= h + w + d
  OBVIOUS

LEMMA AddOther ==
  ASSUME NEW h \in Nat, NEW u \in Nat, NEW a \in Nat, NEW d \in Nat, NEW m \in Nat, NEW e, e = 0, m <= h + u + d,
         NEW w, w = u + a, NEW x, x = m + a + e
  PROVE  x \in Nat /\ x <= h + w + d
  OBVIOUS

LEMMA MtpRange ==
  ASSUME NEW n \in Nat, NEW b \in Nat, NEW x \in n .. b - 1
  PROVE  x + 1 \in n .. b /\ x + 1 > n /\ x \in n .. b /\ (x # n => x > n) /\ (x = n => ~(x > n))
  OBVIOUS

\* An MTP block takes its arena, the first one its copies with it.
LEMMA MemLoadMtp == LoadInv /\ MemInv /\ LoadMtp => MemInv'
<1> SUFFICES ASSUME LoadInv, MemInv, LoadMtp PROVE MemInv'
  OBVIOUS
<1>1. phase = "mtp" /\ phase \in Loading /\ LoadFrame /\ next \in config.mtp
  BY DEF LoadMtp, Loading
<1>2. HeaderInv /\ stage = "opened" /\ BlocksOf(config)
  BY <1>1, LoadingFacts
<1> DEFINE n == config.nLayer
           h == HeadBytesOf
           u == MtpUpTo(next)
           w == MtpUpTo(next + 1)
           a == ArenaBytes(BlockRange(next)[2] - BlockRange(next)[1])
           d == UnplannedMtp
           list == IF next = n THEN MtpLoad(config) ELSE <<>>
           c == CopiedBytes(list)
<1>3. h \in Nat /\ d \in Nat /\ mem \in Nat /\ mem <= h + u + DraftUpTo(next)
  BY <1>1, StepFacts DEF Allocated
<1>4. /\ next + 1 \in n .. config.blocks /\ next + 1 > n /\ next \in n .. config.blocks
      /\ (next # n => next > n) /\ (next = n => ~(next > n))
  <2>1. n \in Nat /\ config.blocks \in Nat /\ next \in n .. config.blocks - 1
    BY <1>1, <1>2 DEF BlocksOf
  <2> HIDE DEF n
  <2>2. QED
    BY <2>1, MtpRange
<1>5. u \in Nat /\ w = u + a
  BY <1>1, <1>2, <1>4, MtpFigures
<1>6. a \in Nat
  <2>1. next \in 0 .. config.blocks - 1
    BY <1>1, <1>2, MtpBlock
  <2>2. LayerTensors(next) # {}
    BY <1>2, <2>1 DEF BlocksOf
  <2>3. QED
    BY <1>2, <2>2, BlockLength, ArenaBytesNat
<1>7. next = n => c = d
  BY <1>1 DEF UnplannedMtp
<1>8. next # n => c = 0
  BY NoCopies
<1>9. DraftUpTo(next + 1) = d /\ (next = n => DraftUpTo(next) = 0) /\ (next # n => DraftUpTo(next) = d)
  BY <1>4 DEF DraftUpTo
<1> DEFINE id == [kind |-> "mtp", i |-> next]
           then == [phase |-> "mtp", next |-> next + 1]
<1>10. LoadArena(id, next, BlockRange(next), list, then)
  BY DEF LoadMtp
<1>11. then.phase = "mtp" /\ then.next = next + 1
  OBVIOUS
<1> HIDE DEF id, then, n, h, u, w, a, d, list, c
<1>12. MemInv' \/ (phase' = "mtp" /\ next' = next + 1 /\ mem' = mem + a + c)
  BY <1>1, <1>10, <1>11, ArenaMem DEF a, c
<1>13. mem' = mem + a + c => mem' \in Nat /\ mem' <= h + w + d
  <2>1. CASE next = n
    BY <1>3, <1>5, <1>6, <1>7, <1>9, <2>1, AddFirst
  <2>2. CASE next # n
    BY <1>3, <1>5, <1>6, <1>8, <1>9, <2>2, AddOther
  <2>3. QED
    BY <2>1, <2>2
<1>14. ASSUME phase' = "mtp", next' = next + 1, mem' \in Nat, mem' <= h + w + d PROVE MemInv'
  <2>1. PICK x : x = next + 1
    OBVIOUS
  <2>2. x \in n .. config.blocks /\ w = MtpUpTo(x) /\ DraftUpTo(x) = d /\ x = next'
    BY <1>4, <1>9, <1>14, <2>1 DEF w
  <2>3. QED
    BY <1>1, <1>14, <2>2, MemStep DEF h, n, Filling
<1>15. QED
  BY <1>12, <1>13, <1>14

LEMMA AllMtp ==
  ASSUME NEW h \in Nat, NEW u \in Nat, NEW d \in Nat, NEW b, b = u + d, NEW e \in {0, d}, NEW m \in Nat, m <= h + u + e,
         NEW p, p = 0, NEW s, s = 0
  PROVE  m <= h + b + p + s
  OBVIOUS

LEMMA LastBlock == \A n \in Nat, b \in Nat : \A x \in n .. b : x \notin n .. b - 1 => x = b
  OBVIOUS

LEMMA MemMtpLoaded == LoadInv /\ MemInv /\ MtpLoaded => MemInv'
<1> SUFFICES ASSUME LoadInv, MemInv, MtpLoaded PROVE MemInv'
  OBVIOUS
<1>1. phase = "mtp" /\ phase \in Loading /\ LoadFrame /\ next \notin config.mtp /\ phase' = "tier 1" /\ next' = 0 /\ mem' = mem
  BY DEF MtpLoaded, Loading
<1>2. HeaderInv /\ stage = "opened" /\ BlocksOf(config)
  BY <1>1, LoadingFacts
<1> DEFINE h == HeadBytesOf
           u == MtpUpTo(config.blocks)
           d == UnplannedMtp
           b == MtpBytesOf
           e == DraftUpTo(config.blocks)
<1>3. h \in Nat /\ d \in Nat /\ mem \in Nat /\ next \in config.nLayer .. config.blocks /\ SpansOk
      /\ mem <= h + MtpUpTo(next) + DraftUpTo(next)
  BY <1>1, StepFacts DEF Allocated
<1>4. next = config.blocks
  <2>1. config.nLayer \in Nat /\ config.blocks \in Nat /\ next \notin config.nLayer .. config.blocks - 1
    BY <1>1, <1>2 DEF BlocksOf
  <2>2. QED
    BY <1>3, <2>1, LastBlock
<1>5. u \in Nat /\ b = u + d /\ e \in {0, d} /\ mem <= h + u + e
  BY <1>2, <1>3, <1>4, MtpFigures DEF MtpBytesOf, DraftUpTo
<1>6. Prefix(0) = 0 /\ SmallUpTo(0) = 0
  BY <1>2, <1>3, PrefixFigures, SmallFigures
<1> HIDE DEF h, u, d, b, e
<1>7. mem <= h + b + Prefix(0) + SmallUpTo(0)
  BY <1>3, <1>5, <1>6, AllMtp
<1>8. mem' \in Nat /\ mem' <= h + b + Prefix(0) + SmallUpTo(0) /\ 0 = next'
  BY <1>1, <1>3, <1>7
<1>9. QED
  BY <1>1, <1>8, MemStep DEF h, b, Filling

LEMMA AddLayer ==
  ASSUME NEW h \in Nat, NEW b \in Nat, NEW p \in Nat, NEW s \in Nat, NEW a \in Nat, NEW l \in Nat, NEW c \in Nat, c <= l,
         NEW m \in Nat, m <= h + b + p + s, NEW q, q = p + a, NEW t, t = s + l, NEW x, x = m + a + c
  PROVE  x \in Nat /\ x <= h + b + q + t
  OBVIOUS

LEMMA RealLayer == \A m \in Nat : \A n \in 0 .. m - 1 : n # NoLayer /\ n \in 0 .. m
  BY DEF NoLayer

\* The copies of a layer fit in the line of its small tensors.
LEMMA LayerMem ==
  ASSUME LoadInv, MemInv, phase \in Loading, NEW n \in 0 .. config.nLayer - 1,
         \E from, bytes : LoadError(n, LayerLoad(config, n), from, bytes) = ""
  PROVE  /\ CopiedBytes(LayerLoad(config, n)) \in Nat /\ CopiedBytes(LayerLoad(config, n)) <= LayerSmall(n)
         /\ LayerSmall(n) \in Nat /\ SmallUpTo(n) \in Nat /\ SmallUpTo(n + 1) = SmallUpTo(n) + LayerSmall(n)
<1>1. HeaderInv /\ stage = "opened" /\ BlocksOf(config)
  BY LoadingFacts
<1>2. SizesOf(config) /\ IsCounted(file)
  BY StepFacts
<1>3. n # NoLayer /\ n \in 0 .. config.nLayer
  <2>1. config.nLayer \in Nat
    BY <1>1 DEF BlocksOf
  <2>2. QED
    BY <2>1, RealLayer
<1>4. CopiedBytes(LayerLoad(config, n)) <= LayerSmall(n)
  BY <1>1, <1>2, <1>3, SmallCopies
<1>5. CopiedBytes(LayerLoad(config, n)) \in Nat
  BY <1>2, LayerCopies, CopiedNat
<1>6. QED
  BY <1>1, <1>3, <1>4, <1>5, SmallFigures

\* A pinned layer takes its arena and the copies of its small tensors.
LEMMA MemLoadPinned == LoadInv /\ MemInv /\ LoadPinned => MemInv'
<1> SUFFICES ASSUME LoadInv, MemInv, LoadPinned PROVE MemInv'
  OBVIOUS
<1>1. phase = "tier 1" /\ phase \in Loading /\ LoadFrame /\ next < pinned
  BY DEF LoadPinned, Loading
<1>2. /\ HeaderInv /\ stage = "opened" /\ BlocksOf(config) /\ SpansOfBlocks /\ NLayer = config.nLayer
      /\ SlotRoom /\ next \in 0 .. pinned
  BY <1>1, LoadingFacts DEF AtBlock
<1>3. next \in 0 .. NLayer - 1 /\ next \in 0 .. config.nLayer - 1
  BY <1>1, <1>2, PinnedLayer DEF SlotRoom
<1> DEFINE h == HeadBytesOf
           b == MtpBytesOf
           p == Prefix(next)
           s == SmallUpTo(next)
           a == ArenaBytes(span[next][2] - span[next][1])
           l == LayerSmall(next)
           list == LayerLoad(config, next)
           c == CopiedBytes(list)
<1>4. h \in Nat /\ b \in Nat /\ mem \in Nat /\ SpansOk /\ mem <= h + b + p + s
  BY <1>1, StepFacts DEF Allocated
<1>5. p \in Nat /\ Prefix(next + 1) = p + a
  <2>1. next \in 0 .. NLayer
    BY <1>2, <1>3 DEF BlocksOf
  <2>2. QED
    BY <1>3, <1>4, <2>1, PrefixFigures DEF SpanLen
<1>6. a \in Nat
  <2>1. span[next] \in Nat \X Nat /\ span[next][1] <= span[next][2]
    BY <1>3, <1>4 DEF SpansOk, Layers
  <2>2. span[next][2] - span[next][1] \in Nat
    BY <2>1
  <2>3. QED
    BY <2>2, ArenaBytesNat
<1> DEFINE id == [kind |-> "arena", i |-> next]
           then == [phase |-> "tier 1", next |-> next + 1]
<1>7. LoadArena(id, next, span[next], list, then)
  BY DEF LoadPinned
<1>8. then.phase = "tier 1" /\ then.next = next + 1
  OBVIOUS
<1> HIDE DEF id, then
<1>9. \/ MemInv'
      \/ /\ \E from, bytes : LoadError(next, list, from, bytes) = ""
         /\ phase' = "tier 1" /\ next' = next + 1 /\ mem' = mem + a + c
  BY <1>1, <1>7, <1>8, ArenaMem
<1>10. ASSUME \E from, bytes : LoadError(next, list, from, bytes) = "",
              phase' = "tier 1", next' = next + 1, mem' = mem + a + c
       PROVE  MemInv'
  <2>1. c \in Nat /\ c <= l /\ l \in Nat /\ s \in Nat /\ SmallUpTo(next + 1) = s + l
    BY <1>1, <1>3, <1>10, LayerMem
  <2> DEFINE q == Prefix(next + 1)
             t == SmallUpTo(next + 1)
  <2> HIDE DEF h, b, p, s, a, l, c, q, t
  <2>2. q = p + a /\ t = s + l
    BY <1>5, <2>1 DEF q, t
  <2>3. mem' \in Nat /\ mem' <= h + b + q + t
    <3>1. mem' = mem + a + c
      BY <1>10
    <3>2. p \in Nat
      BY <1>5
    <3> DEFINE x == mem'
    <3>3. x = mem + a + c
      BY <3>1
    <3> HIDE DEF x
    <3>4. x \in Nat /\ x <= h + b + q + t
      BY <1>4, <1>6, <2>1, <2>2, <3>2, <3>3, AddLayer
    <3>5. QED
      BY <3>4 DEF x
  <2>4. PICK x : x = next + 1
    OBVIOUS
  <2>5. x = next' /\ q = Prefix(x) /\ t = SmallUpTo(x)
    BY <1>10, <2>4 DEF q, t
  <2>6. QED
    BY <1>1, <1>10, <2>3, <2>5, MemStep DEF h, b, Filling
<1>11. QED
  BY <1>9, <1>10

LEMMA AddRing ==
  ASSUME NEW h \in Nat, NEW b \in Nat, NEW p \in Nat, NEW s \in Nat, NEW m \in Nat, m <= h + b + p + s,
         NEW r \in Nat, NEW x, x = m + r
  PROVE  x \in Nat /\ x <= h + b + p + r + s
  OBVIOUS

LEMMA SlotProduct == \A a, b \in Nat : a * b = b * a
  OBVIOUS

\* The ring takes its slots.
LEMMA MemStartRing == LoadInv /\ MemInv /\ StartRing => MemInv'
<1> SUFFICES ASSUME LoadInv, MemInv, StartRing PROVE MemInv'
  OBVIOUS
<1>1. phase = "tier 1" /\ phase \in Loading /\ LoadFrame /\ next = pinned /\ pinned < NLayer
  BY DEF StartRing, Loading
<1>2. /\ HeaderInv /\ stage = "opened" /\ BlocksOf(config) /\ SpansOfBlocks /\ NLayer = config.nLayer
      /\ SlotRoom
  BY <1>1, LoadingFacts
<1> DEFINE h == HeadBytesOf
           b == MtpBytesOf
           p == Prefix(pinned)
           s == SmallUpTo(pinned)
           r == RingBytes
           y == nSlots * slotBytes
<1>3. h \in Nat /\ b \in Nat /\ mem \in Nat /\ SpansOk /\ r \in Nat /\ mem <= h + b + p + s
  BY <1>1, StepFacts DEF Allocated
<1>4. p \in Nat /\ s \in Nat
  <2>1. pinned \in 0 .. NLayer /\ pinned \in 0 .. config.nLayer
    BY <1>2 DEF SlotRoom
  <2>2. QED
    BY <1>2, <1>3, <2>1, PrefixFigures, SmallFigures
<1>5. y = r
  <2>1. nSlots \in Nat /\ slotBytes \in Nat
    BY DEF MemInv, NoPlanYet
  <2>2. QED
    BY <2>1, SlotProduct DEF RingBytes
<1>6. \/ phase' = "failed" /\ UNCHANGED mem
      \/ mem' = mem + y /\ phase' = "tier 2" /\ next' = next
  BY DEF StartRing, Fail
<1>7. CASE phase' = "failed" /\ UNCHANGED mem
  BY <1>1, <1>7, MemFails DEF LoadFrame
<1>8. CASE mem' = mem + y /\ phase' = "tier 2" /\ next' = next
  <2> DEFINE x == mem'
  <2>1. x = mem + r
    BY <1>5, <1>8
  <2> HIDE DEF x, h, b, p, s, r, y
  <2>2. x \in Nat /\ x <= h + b + p + r + s
    BY <1>3, <1>4, <2>1, AddRing
  <2>3. PICK n : n = pinned
    OBVIOUS
  <2>4. n = next' /\ s = SmallUpTo(n)
    BY <1>1, <1>8, <2>3 DEF s
  <2>5. QED
    BY <1>1, <1>8, <2>2, <2>4, MemStep DEF h, b, p, r, x, Filling
<1>9. QED
  BY <1>6, <1>7, <1>8

LEMMA AddStreamed ==
  ASSUME NEW h \in Nat, NEW b \in Nat, NEW p \in Nat, NEW r \in Nat, NEW s \in Nat, NEW l \in Nat, NEW c \in Nat, c <= l,
         NEW m \in Nat, m <= h + b + p + r + s, NEW t, t = s + l, NEW x, x = m + c
  PROVE  x \in Nat /\ x <= h + b + p + r + t
  OBVIOUS

\* A streamed layer takes the copies of its small tensors.
LEMMA MemLoadStreamed == LoadInv /\ MemInv /\ LoadStreamed => MemInv'
<1> SUFFICES ASSUME LoadInv, MemInv, LoadStreamed PROVE MemInv'
  OBVIOUS
<1>1. phase = "tier 2" /\ phase \in Loading /\ LoadFrame /\ next < NLayer
  BY DEF LoadStreamed, Loading
<1>2. /\ HeaderInv /\ stage = "opened" /\ BlocksOf(config) /\ SpansOfBlocks /\ NLayer = config.nLayer
      /\ SlotRoom /\ next \in pinned .. config.nLayer
  BY <1>1, LoadingFacts DEF AtBlock
<1>3. next \in 0 .. config.nLayer - 1 /\ pinned \in 0 .. NLayer
  <2>1. config.nLayer \in Nat /\ pinned \in 0 .. config.nLayer /\ next < config.nLayer
    BY <1>1, <1>2 DEF BlocksOf, SlotRoom
  <2>2. next \in 0 .. config.nLayer - 1
    BY <1>2, <2>1, NextBlock
  <2>3. QED
    BY <1>2, <2>1, <2>2
<1> DEFINE h == HeadBytesOf
           b == MtpBytesOf
           p == Prefix(pinned)
           r == RingBytes
           s == SmallUpTo(next)
           t == SmallUpTo(next + 1)
           l == LayerSmall(next)
           list == LayerLoad(config, next)
           err  == LoadError(next, list, FileStart(span[next]), slotBytes)
           c == CopiedBytes(list)
<1>4. h \in Nat /\ b \in Nat /\ mem \in Nat /\ SpansOk /\ r \in Nat /\ mem <= h + b + p + r + s
  BY <1>1, StepFacts DEF Allocated
<1>5. p \in Nat
  BY <1>3, <1>4, PrefixFigures
<1>6. IF err # "" THEN Fail(err) /\ UNCHANGED mem ELSE mem' = mem + c /\ next' = next + 1 /\ phase' = phase
  BY DEF LoadStreamed
<1>7. CASE err # ""
  <2> HIDE DEF err
  <2>1. QED
    BY <1>1, <1>6, <1>7, MemFails DEF Fail, LoadFrame
<1>8. CASE err = ""
  <2>1. c \in Nat /\ c <= l /\ l \in Nat /\ s \in Nat /\ t = s + l
    BY <1>1, <1>3, <1>8, LayerMem
  <2> DEFINE x == mem'
  <2> HIDE DEF err
  <2>2. x = mem + c /\ next' = next + 1 /\ phase' = "tier 2"
    BY <1>1, <1>6, <1>8
  <2>3. x = mem + c
    BY <2>2
  <2> HIDE DEF h, b, p, r, s, t, l, c, x
  <2>4. x \in Nat /\ x <= h + b + p + r + t
    BY <1>4, <1>5, <2>1, <2>3, AddStreamed
  <2>5. PICK n : n = next + 1
    OBVIOUS
  <2>6. n = next' /\ t = SmallUpTo(n)
    BY <2>2, <2>5 DEF t
  <2>7. QED
    BY <1>1, <2>2, <2>4, <2>6, MemStep DEF h, b, p, r, x, Filling
<1>9. QED
  BY <1>7, <1>8

LEMMA WithoutRing ==
  ASSUME NEW h \in Nat, NEW b \in Nat, NEW p \in Nat, NEW r \in Nat, NEW s \in Nat, NEW m \in Nat, m <= h + b + p + s
  PROVE  m <= h + b + p + r + s
  OBVIOUS

LEMMA MemLoaded == LoadInv /\ MemInv /\ Loaded => MemInv'
<1> SUFFICES ASSUME LoadInv, MemInv, Loaded PROVE MemInv'
  OBVIOUS
<1>1. /\ phase \in Loading /\ LoadFrame /\ phase' = "loaded" /\ mem' = mem /\ next = NLayer
      /\ phase = "tier 2" \/ (phase = "tier 1" /\ pinned = NLayer)
  BY DEF Loaded, Loading
<1>2. /\ HeaderInv /\ stage = "opened" /\ BlocksOf(config) /\ NLayer = config.nLayer /\ SlotRoom
  BY <1>1, LoadingFacts
<1>3. pinned \in 0 .. NLayer
  BY <1>2 DEF SlotRoom
<1> DEFINE h == HeadBytesOf
           b == MtpBytesOf
           p == Prefix(pinned)
           r == RingBytes
           s == SmallUpTo(config.nLayer)
<1>4. h \in Nat /\ b \in Nat /\ mem \in Nat /\ SpansOk /\ r \in Nat /\ Allocated
  BY <1>1, StepFacts
<1>5. p \in Nat /\ s \in Nat
  BY <1>2, <1>3, <1>4, PrefixFigures, SmallFigures
<1>6. mem <= h + b + p + r + s
  <2>1. CASE phase = "tier 2"
    BY <1>1, <1>2, <1>4, <2>1 DEF Allocated
  <2>2. CASE phase = "tier 1" /\ pinned = NLayer
    <3>1. mem <= h + b + p + s
      BY <1>1, <1>2, <1>4, <2>2 DEF Allocated
    <3> HIDE DEF h, b, p, r, s
    <3>2. QED
      BY <1>4, <1>5, <3>1, WithoutRing
  <2>3. QED
    BY <1>1, <2>1, <2>2
<1> HIDE DEF h, b, p, r, s
<1>7. mem' \in Nat /\ mem' <= h + b + p + r + s
  BY <1>1, <1>4, <1>6
<1>8. PICK n : n = next'
  OBVIOUS
<1>9. QED
  BY <1>1, <1>7, <1>8, MemStep DEF h, b, p, r, s, Filling

LEMMA StateParts ==
  ASSUME SizesOf(config), NEW pos \in Nat, NEW n \in Nat
  PROVE  /\ StateBytes(config, pos) \in Nat /\ 4 * config.vocab \in Nat
         /\ (IF n > 0 THEN SpecStateBytes(config, n, pos) ELSE 0) \in Nat
<1>1. StateBytes(config, pos) \in Nat /\ 4 * config.vocab \in Nat
  BY CarriedBytes DEF SizesOf
<1>2. CASE n > 0
  <2>1. spec_bytes(config, n, pos) \in Nat /\ spec_bytes(config, n, pos) = SpecStateBytes(config, n, pos)
    BY <1>2, SpecBytes
  <2>2. QED
    BY <1>1, <1>2, <2>1
<1>3. CASE ~(n > 0)
  BY <1>1, <1>3
<1>4. QED
  BY <1>2, <1>3

LEMMA AddState ==
  ASSUME NEW z \in Nat, NEW m \in Nat, m <= z, NEW a, NEW v, NEW e, NEW p \in Nat, a \in Nat, v \in Nat, e \in Nat,
         p = a + v + e, NEW x, x = m + a + v + e
  PROVE  x \in Nat /\ x <= z + p
  OBVIOUS

\* The state of a generation takes what was planned for it, to the byte.
LEMMA MemNewState == LoadInv /\ MemInv /\ NewState => MemInv'
<1> SUFFICES ASSUME LoadInv, MemInv, NewState PROVE MemInv'
  OBVIOUS
<1>1. phase = "loaded" /\ phase \in Loading /\ LoadFrame
  BY DEF NewState, Loading
<1> DEFINE h == HeadBytesOf
           b == MtpBytesOf
           t == Prefix(pinned)
           r == RingBytes
           s == SmallUpTo(config.nLayer)
           z == h + b + t + r + s
           p == PlannedState(maxPos, drafts)
           a == StateBytes(config, maxPos)
           v == 4 * config.vocab
           e == IF drafts > 0 THEN SpecStateBytes(config, drafts, maxPos) ELSE 0
<1>2. mem \in Nat /\ mem <= z
  BY <1>1, StepFacts DEF Allocated
<1>3. h \in Nat /\ b \in Nat /\ t \in Nat /\ r \in Nat /\ s \in Nat /\ p \in Nat
  BY <1>1, PlanLines
<1>4. SizesOf(config) /\ maxPos \in Nat /\ drafts \in Nat
  BY <1>1 DEF MemInv, Given, Loading
<1>5. p = a + v + e
  BY <1>4, StateAsPlanned
<1>6. a \in Nat /\ v \in Nat /\ e \in Nat
  BY <1>4, StateParts
<1>7. \/ phase' = "failed" /\ UNCHANGED mem
      \/ mem' = mem + a + v + e /\ phase' = "ready"
  BY DEF NewState, Fail
<1>8. CASE phase' = "failed" /\ UNCHANGED mem
  BY <1>1, <1>8, MemFails DEF LoadFrame
<1>9. CASE mem' = mem + a + v + e /\ phase' = "ready"
  <2> DEFINE x == mem'
  <2>1. x = mem + a + v + e
    BY <1>9
  <2> HIDE DEF x, h, b, t, r, s, p, a, v, e
  <2>2. z \in Nat
    BY <1>3
  <2> HIDE DEF z
  <2>3. x \in Nat /\ x <= z + p
    BY <1>2, <1>3, <1>5, <1>6, <2>1, <2>2, AddState
  <2>4. x <= h + b + t + r + s + p
    BY <2>3 DEF z
  <2>5. PICK n : n = next'
    OBVIOUS
  <2>6. QED
    BY <1>1, <1>9, <2>3, <2>4, <2>5, MemStep DEF h, b, t, r, s, p, x, Filling
<1>10. QED
  BY <1>7, <1>8, <1>9

-----------------------------------------------------------------------------
LEMMA MemStays == LoadInv /\ MemInv /\ UNCHANGED vars => MemInv'
<1> SUFFICES ASSUME LoadInv, MemInv, UNCHANGED vars PROVE MemInv'
  OBVIOUS
<1>1. /\ UNCHANGED ggufVars /\ UNCHANGED config /\ UNCHANGED maxPos /\ UNCHANGED drafts /\ UNCHANGED input /\ UNCHANGED plan
      /\ UNCHANGED planVars /\ mem' = mem /\ phase' = phase /\ next' = next /\ stage' = stage /\ config' = config
      /\ resident' = resident /\ budget' = budget /\ pinned' = pinned /\ nSlots' = nSlots /\ slotBytes' = slotBytes
  BY DEF vars, loadVars, planVars, ggufVars, input, plan
<1>2. IsCounted(file)'
  BY <1>1, CountedStays DEF MemInv, ggufVars
<1>3. NothingYet' /\ NoPlanYet'
  BY <1>1 DEF MemInv, NothingYet, NoPlanYet
<1>4. LongestPrefix'
  <2>1. Feasible' = Feasible
    BY <1>1, PlanFiguresStay
  <2>2. QED
    BY <1>1, <2>1 DEF MemInv, LongestPrefix, Planned
<1>5. CASE phase = "failed"
  <2>1. Total' = Total /\ Unplanned' = Unplanned
    BY <1>1, PlanFiguresStay, FiguresStay
  <2>2. PlanCoversMemory'
    BY <1>1, <1>5, <2>1 DEF MemInv, PlanCoversMemory
  <2>3. QED
    BY <1>1, <1>2, <1>3, <1>4, <1>5, <2>2 DEF MemInv
<1>6. CASE phase # "failed" /\ phase \notin Loading
  <2>1. Given /\ Allocated
    BY <1>6 DEF MemInv
  <2>2. phase \in {"file", "config"} \cup Deciding
    BY <1>6 DEF LoadInv, Progress
  <2>3. Given'
    <3>1. phase # "file" => SizesOf(config)'
      BY <1>1, <2>1, SizesStay DEF Given
    <3>2. phase \in Deciding => PlanInv'
      BY <1>1, <2>1, PlanInvStep DEF Given
    <3>3. phase \in Deciding => maxPos' \in Nat /\ drafts' \in Nat /\ resident' = ResidentBytes(maxPos, drafts)'
      BY <1>1, <2>1, GivenStays DEF Given
    <3>4. QED
      BY <1>1, <1>6, <3>1, <3>2, <3>3 DEF Given
  <2>4. Allocated'
    BY <1>1, <1>6, <2>1, <2>2 DEF Allocated, Deciding, Loading
  <2>5. QED
    BY <1>1, <1>2, <1>3, <1>4, <1>6, <2>3, <2>4 DEF MemInv
<1>7. CASE phase \in Loading
  <2>1. Given /\ Allocated
    BY <1>7 DEF MemInv, Loading
  <2>2. maxPos \in Nat /\ drafts \in Nat
    BY <1>7, <2>1 DEF Given
  <2>3. Given'
    <3>1. SizesOf(config)'
      BY <1>1, <1>7, <2>1, SizesStay DEF Given, Loading
    <3>2. phase \in Deciding => PlanInv'
      BY <1>1, <2>1, PlanInvStep DEF Given
    <3>3. maxPos' \in Nat /\ drafts' \in Nat /\ resident' = ResidentBytes(maxPos, drafts)'
      BY <1>1, <1>7, <2>1, <2>2, GivenStays DEF Given
    <3>4. QED
      BY <1>1, <3>1, <3>2, <3>3 DEF Given
  <2>4. Allocated'
    <3>1. (\A n : MtpUpTo(n)' = MtpUpTo(n) /\ SmallUpTo(n)' = SmallUpTo(n)) /\ UnplannedMtp' = UnplannedMtp
          /\ HeadBytesOf' = HeadBytesOf /\ MtpBytesOf' = MtpBytesOf /\ \A n : Prefix(n)' = Prefix(n)
      BY <1>1, FiguresStay, PlanFiguresStay
    <3>2. PICK x, a, b : x = next /\ a = pinned /\ b = config.nLayer
      OBVIOUS
    <3>3. x = next' /\ a = pinned' /\ b = config'.nLayer
      BY <1>1, <3>2
    <3>4. /\ MtpUpTo(next)' = MtpUpTo(x)' /\ SmallUpTo(next)' = SmallUpTo(x)' /\ Prefix(next)' = Prefix(x)'
          /\ Prefix(pinned)' = Prefix(a)' /\ SmallUpTo(config.nLayer)' = SmallUpTo(b)'
      BY <3>3
    <3>5. /\ MtpUpTo(next)' = MtpUpTo(next) /\ SmallUpTo(next)' = SmallUpTo(next) /\ Prefix(next)' = Prefix(next)
          /\ Prefix(pinned)' = Prefix(pinned) /\ SmallUpTo(config.nLayer)' = SmallUpTo(config.nLayer)
      BY <3>1, <3>2, <3>4
    <3>6. DraftUpTo(next)' = DraftUpTo(next) /\ RingBytes' = RingBytes
      BY <1>1, <3>1 DEF DraftUpTo, RingBytes
    <3>7. PlannedState(maxPos, drafts)' = PlannedState(maxPos, drafts)
      BY <1>1, <2>2, GivenStays
    <3>8. QED
      BY <1>1, <2>1, <3>1, <3>5, <3>6, <3>7 DEF Allocated
  <2>5. QED
    BY <1>1, <1>2, <1>3, <1>4, <1>7, <2>3, <2>4 DEF MemInv, Loading
<1>8. QED
  BY <1>5, <1>6, <1>7

LEMMA MemInvariance == Spec => []MemInv
<1>1. LoadInv /\ MemInv /\ [Next]_vars => MemInv'
  BY MemReadHeader, MemOpenFails, MemConfigFails, MemConfigAccepted, MemMakePlanInput, MemMakePlan,
     MemLoadResident, MemLoadMtp, MemMtpLoaded, MemLoadPinned, MemStartRing, MemLoadStreamed,
     MemLoaded, MemDriveFailed, MemNewState, MemStays DEF Next, Ended
<1>2. QED
  BY <1>1, MemInvInit, LoadInvariance, PTL DEF Spec

\* "The plan and the loader cannot disagree": nothing a load allocates, whatever phase it
\* stands in or failed in, exceeds what the plan counted by more than the copies it has no
\* line for, and the state of the generation is the number of bytes it foresaw (tier.rs
\* MemoryPlan::compute against model.rs load_with, new_state_spec and reserve).
THEOREM LoadPlanCoversMemory == Spec => []PlanCoversMemory
<1>1. QED
  BY MemInvariance, LoadInvariance, MemInvHolds, PTL

\* The plan a load goes by pins the longest prefix its budget allows, from the plan's
\* acceptance to the end of the load (model.rs load_with, tier.rs compute and check).
THEOREM LoadLongestPrefix == Spec => []LongestPrefix
<1>1. MemInv => LongestPrefix
  BY DEF MemInv
<1>2. QED
  BY <1>1, MemInvariance, PTL

\* The plan a load accepts fits its budget, and has slots that hold any layer it streams
\* (tier.rs check against model.rs load_with and ring.rs start).
THEOREM LoadAcceptedFits == Spec => []AcceptedFits
<1>1. MemInv => AcceptedFits
  <2> SUFFICES ASSUME MemInv, phase = "accepted" PROVE AcceptedFits
    BY DEF AcceptedFits
  <2>1. PlanInv
    BY DEF MemInv, Given, Deciding
  <2>2. QED
    BY <2>1, CheckedFits
<1>2. QED
  BY <1>1, MemInvariance, PTL

=============================================================================
