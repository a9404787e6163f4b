-------------------------- MODULE StreamingProofs --------------------------
(***************************************************************************)
(* Proofs about streaming: the ring (Ring), and the unbuffered reads that  *)
(* fill its slots (DirectFile).                                            *)
(*                                                                         *)
(* The ring, for every split of the model, every number of slots and every *)
(* number of passes, with or without failing reads. Its properties are not *)
(* inductive. IInv adds what ties the two threads together: a slot is Free *)
(* while the I/O thread works on it, it is Ready(cur) while the decode     *)
(* thread works on it, a Ready slot holds the bytes of its layer, and the  *)
(* counters of a layer differ exactly while a read of it was counted that  *)
(* was not consumed.                                                       *)
(*                                                                         *)
(* The reads, for every queue depth, chunk, sector, length and file, in    *)
(* both builds. The requests in flight are of disjoint bytes below issued, *)
(* so what the loop has counted is the number of the file's bytes below    *)
(* issued that no request in flight covers, and what has landed in the     *)
(* buffer are those that no unfinished request covers (WindowsLoop). When  *)
(* none is left the two are the same prefix (ReadInv).                     *)
(***************************************************************************)
EXTENDS Ring, DirectFile, FiniteSetTheorems, DataLemmas, TLAPS

\* The decode thread has consumed its current layer in this pass.
Taken == consumes[cur] = passes + 1

\* A counted read of l is waiting for its consume.
Unconsumed(l) ==
  \/ state[SlotOf(l)] = l /\ ~(cur = l /\ Taken)
  \/ ioPc = "publish" /\ IoLayer = l

ReadyHoldsLayer ==
  \A s \in Slots : state[s] # Free => SlotOf(state[s]) = s /\ buf[s] = state[s]

IoOwnsFreeSlot ==
  /\ ioPc \in {"stopcheck", "read", "count", "publish"} => state[IoSlot] = Free
  /\ ioPc \in {"count", "publish"} => buf[IoSlot] = IoLayer

DecodeOwnsReadySlot ==
  /\ pc = "count" \/ Taken => state[CurSlot] = cur
  /\ pc \in {"idle", "lock", "test", "asleep", "count"} => consumes[cur] = passes
  /\ pc \in {"run", "release"} => Taken
  /\ pc = "idle" => cur = First

ConsumesOfPass ==
  \A l \in Streamed :
    /\ l < cur => consumes[l] = passes + 1
    /\ l = cur => consumes[l] \in {passes, passes + 1}
    /\ l > cur => consumes[l] = passes

ReadsOfLayer ==
  \A l \in Streamed :
    /\ Unconsumed(l) => reads[l] = consumes[l] + 1
    /\ ~Unconsumed(l) => reads[l] = consumes[l]

\* The inductive invariant of the ring.
IInv ==
  /\ TypeOK
  /\ ReadyHoldsLayer
  /\ IoOwnsFreeSlot
  /\ DecodeOwnsReadySlot
  /\ ConsumesOfPass
  /\ ReadsOfLayer

-----------------------------------------------------------------------------
\* Every streamed layer has a slot of the ring.
LEMMA SlotOfRange == ASSUME NEW l \in Streamed PROVE SlotOf(l) \in Slots
<1>1. l - First \in Nat
  BY RingAssumption DEF Streamed
<1>2. QED
  BY <1>1, ModRange, RingAssumption DEF SlotOf, Slots

\* The I/O thread is always at a streamed layer.
LEMMA IoLayerRange == ASSUME idx \in Nat PROVE IoLayer \in Streamed /\ IoSlot \in Slots
<1>1. NStreamed \in Nat \ {0}
  BY RingAssumption DEF NStreamed
<1>2. idx % NStreamed \in 0 .. NStreamed - 1
  BY <1>1, ModRange
<1>3. IoLayer \in Streamed
  BY <1>2, RingAssumption DEF IoLayer, Streamed, NStreamed
<1>4. QED
  BY <1>3, SlotOfRange DEF IoSlot

\* The slot of the decode thread is a slot of the ring.
LEMMA CurSlotRange == ASSUME cur \in Streamed PROVE CurSlot \in Slots
  BY SlotOfRange DEF CurSlot

\* The marks for a free slot and for torn contents are no layers.
LEMMA MarksAreNoLayers == Free \notin Streamed /\ Torn \notin Streamed
  BY RingAssumption DEF Free, Torn, Streamed

-----------------------------------------------------------------------------
\* TypeOK is inductive by itself.
LEMMA TypeInit == Init => TypeOK
<1>1. First \in Streamed /\ 0 \in 0 .. NSlots
  BY RingAssumption DEF Streamed
<1> SUFFICES ASSUME Init PROVE TypeOK
  OBVIOUS
<1>2. state \in [Slots -> Streamed \cup {Free}] /\ buf \in [Slots -> Streamed \cup {Torn}]
  BY DEF Init
<1>3. owner \in [Slots -> {"none", "io", "dec"}]
  BY DEF Init
<1>4. reads \in [Streamed -> Nat] /\ consumes \in [Streamed -> Nat]
  BY DEF Init
<1>5. QED
  BY <1>1, <1>2, <1>3, <1>4 DEF Init, TypeOK, IoPcs, DecPcs

LEMMA TypeStep == TypeOK /\ [Next]_vars => TypeOK'
<1> SUFFICES ASSUME TypeOK, [Next]_vars PROVE TypeOK'
  OBVIOUS
<1>r. IoLayer \in Streamed /\ IoSlot \in Slots /\ CurSlot \in Slots
  BY IoLayerRange, CurSlotRange DEF TypeOK
<1> USE DEF TypeOK, IoPcs, DecPcs, Lock, Unlock, IoNotified, DecNotified, ioVars, decVars
<1>1. CASE Io
  BY <1>1, <1>r DEF Io, IoLock, IoSlotFree, IoSlotBusy, IoWait, IoStartRead, IoReadDone,
     IoReadFails, IoCount, IoPublish
<1>2. CASE IoSpuriousWake \/ BeginPass \/ AcquireSpuriousWake \/ RunLayer
  BY <1>2, <1>r, RingAssumption DEF IoSpuriousWake, BeginPass, AcquireSpuriousWake, RunLayer, Streamed
<1>3. CASE Acquire
  BY <1>3, <1>r DEF Acquire, AcquireLock, AcquireTest, AcquireCount
<1>4. CASE Release
  <2>1. cur' \in Streamed /\ passes' \in Nat
    BY <1>4, RingAssumption DEF Release, Streamed
  <2>2. QED
    BY <1>4, <2>1, <1>r, RingAssumption DEF Release
<1>5. CASE ShutdownBegin \/ Shutdown \/ Terminated
  <2>1. wake' \in 0 .. NSlots
    BY <1>5, RingAssumption DEF ShutdownBegin, Shutdown, ShutdownNotify, ShutdownJoin, Terminated, vars
  <2>2. QED
    BY <1>5, <2>1 DEF ShutdownBegin, Shutdown, ShutdownNotify, ShutdownJoin, Terminated, vars
<1>6. CASE UNCHANGED vars
  BY <1>6 DEF vars
<1>7. QED
  BY <1>1, <1>2, <1>3, <1>4, <1>5, <1>6 DEF Next

-----------------------------------------------------------------------------
LEMMA InvInit == Init => IInv
<1> SUFFICES ASSUME Init PROVE IInv
  OBVIOUS
<1>1. TypeOK /\ ReadyHoldsLayer /\ IoOwnsFreeSlot
  BY TypeInit DEF Init, ReadyHoldsLayer, IoOwnsFreeSlot
<1>2. First \in Streamed /\ consumes[First] = 0 /\ passes = 0
  BY RingAssumption DEF Init, Streamed
<1>3. DecodeOwnsReadySlot
  BY <1>2 DEF Init, DecodeOwnsReadySlot, Taken
<1>4. ConsumesOfPass
  BY RingAssumption DEF Init, ConsumesOfPass, Streamed
<1>5. ReadsOfLayer
  <2> SUFFICES ASSUME NEW l \in Streamed PROVE ~Unconsumed(l) /\ reads[l] = consumes[l]
    BY DEF ReadsOfLayer
  <2>1. state[SlotOf(l)] = Free
    BY SlotOfRange DEF Init
  <2>2. QED
    BY <2>1, MarksAreNoLayers DEF Init, Unconsumed
<1>6. QED
  BY <1>1, <1>3, <1>4, <1>5 DEF IInv

\* The I/O thread's steps that touch neither a slot, nor a counter, nor the bytes of a slot.
LEMMA IoMovesStep ==
  IInv /\ (IoLock \/ IoSlotFree \/ IoSlotBusy \/ IoWait \/ IoSpuriousWake \/ IoReadFails) => IInv'
<1> SUFFICES ASSUME IInv, IoLock \/ IoSlotFree \/ IoSlotBusy \/ IoWait \/ IoSpuriousWake \/ IoReadFails
             PROVE IInv'
  OBVIOUS
<1> USE DEF IoLock, IoSlotFree, IoSlotBusy, IoWait, IoSpuriousWake, IoReadFails, decVars
<1>1. TypeOK'
  BY TypeStep DEF IInv, Next, Io
<1>2. UNCHANGED <<state, buf, reads, consumes, idx, pc, cur, passes>>
  OBVIOUS
<1>3. ioPc # "publish" /\ ioPc' \notin {"read", "count", "publish"}
  OBVIOUS
<1>4. ioPc' = "stopcheck" => state[IoSlot] = Free
  OBVIOUS
<1>5. ReadyHoldsLayer' /\ DecodeOwnsReadySlot' /\ ConsumesOfPass'
  BY <1>2 DEF IInv, ReadyHoldsLayer, DecodeOwnsReadySlot, ConsumesOfPass, Taken, CurSlot, SlotOf
<1>6. IoOwnsFreeSlot'
  BY <1>2, <1>3, <1>4 DEF IoOwnsFreeSlot, IoSlot, IoLayer, SlotOf
<1>7. ReadsOfLayer'
  BY <1>2, <1>3 DEF IInv, ReadsOfLayer, Unconsumed, Taken, SlotOf
<1>8. QED
  BY <1>1, <1>5, <1>6, <1>7 DEF IInv

\* The read itself, from the stop test to the counted, published layer.
LEMMA IoReadStep == IInv /\ (IoStartRead \/ IoReadDone \/ IoCount) => IInv'
<1> SUFFICES ASSUME IInv, IoStartRead \/ IoReadDone \/ IoCount PROVE IInv'
  OBVIOUS
<1>1. TypeOK /\ TypeOK'
  BY TypeStep DEF IInv, Next, Io, IoStartRead, IoReadDone, IoCount
<1>2. IoLayer \in Streamed /\ IoSlot \in Slots
  BY <1>1, IoLayerRange DEF TypeOK
<1>3. UNCHANGED <<state, consumes, idx, pc, cur, passes, IoLayer, IoSlot>>
  BY DEF IoStartRead, IoReadDone, IoCount, decVars, IoLayer, IoSlot, SlotOf
<1>4. DecodeOwnsReadySlot' /\ ConsumesOfPass'
  BY <1>3 DEF IInv, DecodeOwnsReadySlot, ConsumesOfPass, Taken, CurSlot, SlotOf
<1>5. IoOwnsFreeSlot'
  BY <1>1, <1>2, <1>3 DEF IInv, IoOwnsFreeSlot, TypeOK, IoStartRead, IoReadDone, IoCount
<1>6. ReadyHoldsLayer'
  \* only the free slot of the I/O thread changes its bytes
  <2>1. state[IoSlot] = Free /\ \A s \in Slots : s # IoSlot => buf'[s] = buf[s]
    BY <1>1, <1>2 DEF IInv, IoOwnsFreeSlot, TypeOK, IoStartRead, IoReadDone, IoCount
  <2>2. QED
    BY <2>1, <1>3 DEF IInv, ReadyHoldsLayer, SlotOf
<1>7. ReadsOfLayer'
  <2> SUFFICES ASSUME NEW l \in Streamed
               PROVE (Unconsumed(l)' => reads'[l] = consumes'[l] + 1)
                  /\ (~Unconsumed(l)' => reads'[l] = consumes'[l])
    BY DEF ReadsOfLayer
  <2>1. CASE IoCount /\ l = IoLayer
    \* its slot was free, so no read of it was waiting; now this one is
    <3>1. ~Unconsumed(l) /\ Unconsumed(l)'
      BY <2>1, <1>3, MarksAreNoLayers DEF IInv, IoOwnsFreeSlot, IoCount, Unconsumed, IoSlot
    <3>2. reads'[l] = reads[l] + 1
      BY <2>1, <1>1 DEF IoCount, TypeOK
    <3>3. QED
      BY <3>1, <3>2, <1>3 DEF IInv, ReadsOfLayer
  <2>2. CASE ~(IoCount /\ l = IoLayer)
    <3>1. reads'[l] = reads[l]
      BY <2>2, <1>1, <1>2 DEF IoStartRead, IoReadDone, IoCount, TypeOK
    <3>2. Unconsumed(l)' <=> Unconsumed(l)
      BY <2>2, <1>3 DEF IoStartRead, IoReadDone, IoCount, Unconsumed, Taken, SlotOf
    <3>3. QED
      BY <3>1, <3>2, <1>3 DEF IInv, ReadsOfLayer
  <2>3. QED
    BY <2>1, <2>2
<1>8. QED
  BY <1>1, <1>4, <1>5, <1>6, <1>7 DEF IInv

LEMMA IoPublishStep == IInv /\ IoPublish => IInv'
<1> SUFFICES ASSUME IInv, IoPublish PROVE IInv'
  OBVIOUS
<1>1. TypeOK /\ TypeOK'
  BY TypeStep DEF IInv, Next, Io
<1>2. IoLayer \in Streamed /\ IoSlot \in Slots /\ CurSlot \in Slots /\ cur \in Streamed
  BY <1>1, IoLayerRange, CurSlotRange DEF TypeOK
<1>3. UNCHANGED <<buf, reads, consumes, cur, passes, CurSlot>>
  BY DEF IoPublish, CurSlot, SlotOf
<1>4. state[IoSlot] = Free /\ buf[IoSlot] = IoLayer /\ ioPc = "publish" /\ ioPc' = "lock"
  BY DEF IInv, IoOwnsFreeSlot, IoPublish
<1>5. state'[IoSlot] = IoLayer /\ \A s \in Slots : s # IoSlot => state'[s] = state[s]
  BY <1>1, <1>2 DEF IoPublish, TypeOK
<1>6. ReadyHoldsLayer'
  BY <1>3, <1>4, <1>5 DEF IInv, ReadyHoldsLayer, IoSlot, SlotOf
<1>7. IoOwnsFreeSlot'
  BY <1>4 DEF IoOwnsFreeSlot
<1>8. pc' = pc \/ (pc = "asleep" /\ pc' = "lock")
  BY DEF IoPublish, DecNotified
<1>9. Taken' <=> Taken
  BY <1>3 DEF Taken
<1>10. DecodeOwnsReadySlot'
  <2>1. pc = "count" \/ Taken => state[CurSlot] = cur /\ CurSlot # IoSlot
    BY <1>2, <1>4, MarksAreNoLayers DEF IInv, DecodeOwnsReadySlot
  <2>2. QED
    BY <2>1, <1>2, <1>3, <1>5, <1>8, <1>9 DEF IInv, DecodeOwnsReadySlot
<1>11. ConsumesOfPass'
  BY <1>3 DEF IInv, ConsumesOfPass
<1>12. ReadsOfLayer'
  <2> SUFFICES ASSUME NEW l \in Streamed PROVE Unconsumed(l)' <=> Unconsumed(l)
    BY <1>3 DEF IInv, ReadsOfLayer
  <2>0. SlotOf(l) \in Slots /\ SlotOf(l)' = SlotOf(l)
    BY SlotOfRange DEF SlotOf
  <2>1. CASE l = IoLayer
    <3>1. ~(cur = l /\ Taken)
      BY <2>1, <1>2, <1>4, MarksAreNoLayers DEF IInv, DecodeOwnsReadySlot, IoSlot, CurSlot
    <3>2. QED
      BY <3>1, <2>0, <2>1, <1>3, <1>4, <1>5, <1>9 DEF Unconsumed, IoSlot
  <2>2. CASE l # IoLayer
    <3>1. state'[SlotOf(l)] = l <=> state[SlotOf(l)] = l
      BY <2>0, <2>2, <1>4, <1>5, MarksAreNoLayers
    <3>2. QED
      BY <3>1, <2>0, <2>2, <1>3, <1>4, <1>9 DEF Unconsumed
  <2>3. QED
    BY <2>1, <2>2
<1>13. QED
  BY <1>1, <1>6, <1>7, <1>10, <1>11, <1>12 DEF IInv

\* The decode thread's steps that only move it.
LEMMA DecodeMovesStep ==
  IInv /\ (BeginPass \/ AcquireLock \/ AcquireTest \/ AcquireSpuriousWake \/ RunLayer) => IInv'
<1> SUFFICES ASSUME IInv, BeginPass \/ AcquireLock \/ AcquireTest \/ AcquireSpuriousWake \/ RunLayer
             PROVE IInv'
  OBVIOUS
<1>1. TypeOK'
  BY TypeStep DEF IInv, Next, Acquire
<1>2. UNCHANGED <<state, buf, reads, consumes, ioPc, idx, cur, passes>>
  BY DEF IInv, DecodeOwnsReadySlot, BeginPass, AcquireLock, AcquireTest, AcquireSpuriousWake, RunLayer, ioVars
<1>3. ReadyHoldsLayer' /\ IoOwnsFreeSlot' /\ ConsumesOfPass' /\ ReadsOfLayer'
  BY <1>2 DEF IInv, ReadyHoldsLayer, IoOwnsFreeSlot, ConsumesOfPass, ReadsOfLayer, Unconsumed,
     Taken, IoSlot, IoLayer, SlotOf
<1>4. DecodeOwnsReadySlot'
  <2>1. Taken' <=> Taken
    BY <1>2 DEF Taken
  <2>2. \/ pc' \in {"lock", "test", "asleep"} /\ pc \in {"idle", "lock", "test", "asleep"}
        \/ pc = "test" /\ pc' = "count" /\ state[CurSlot] = cur
        \/ pc = "run" /\ pc' = "release"
    <3>1. CASE BeginPass \/ AcquireLock \/ AcquireSpuriousWake
      BY <3>1 DEF BeginPass, AcquireLock, AcquireSpuriousWake
    <3>2. CASE AcquireTest
      BY <3>2 DEF AcquireTest
    <3>3. CASE RunLayer
      BY <3>3 DEF RunLayer
    <3>4. QED
      BY <3>1, <3>2, <3>3
  <2>3. CurSlot' = CurSlot
    BY <1>2 DEF CurSlot, SlotOf
  <2>4. QED
    BY <1>2, <2>1, <2>2, <2>3 DEF IInv, DecodeOwnsReadySlot
<1>5. QED
  BY <1>1, <1>3, <1>4 DEF IInv

LEMMA AcquireCountStep == IInv /\ AcquireCount => IInv'
<1> SUFFICES ASSUME IInv, AcquireCount PROVE IInv'
  OBVIOUS
<1>1. TypeOK /\ TypeOK'
  BY TypeStep DEF IInv, Next, Acquire
<1>2. UNCHANGED <<state, buf, reads, ioPc, idx, cur, passes, IoLayer, IoSlot, CurSlot>>
  BY DEF AcquireCount, ioVars, IoLayer, IoSlot, CurSlot, SlotOf
<1>3. cur \in Streamed /\ state[CurSlot] = cur /\ consumes[cur] = passes /\ passes \in Nat
  BY <1>1 DEF IInv, TypeOK, DecodeOwnsReadySlot, AcquireCount
<1>4. consumes'[cur] = passes + 1 /\ \A l \in Streamed : l # cur => consumes'[l] = consumes[l]
  BY <1>1, <1>3 DEF AcquireCount, TypeOK
<1>5. Taken' /\ ~Taken
  BY <1>2, <1>3, <1>4 DEF Taken
<1>6. ReadyHoldsLayer' /\ IoOwnsFreeSlot'
  BY <1>2 DEF IInv, ReadyHoldsLayer, IoOwnsFreeSlot, SlotOf
<1>7. DecodeOwnsReadySlot'
  BY <1>2, <1>3, <1>5 DEF DecodeOwnsReadySlot, AcquireCount
<1>8. ConsumesOfPass'
  BY <1>1, <1>2, <1>3, <1>4 DEF IInv, ConsumesOfPass, Streamed
<1>9. ReadsOfLayer'
  <2> SUFFICES ASSUME NEW l \in Streamed
               PROVE (Unconsumed(l)' => reads'[l] = consumes'[l] + 1)
                  /\ (~Unconsumed(l)' => reads'[l] = consumes'[l])
    BY DEF ReadsOfLayer
  <2>1. CASE l = cur
    <3>1. Unconsumed(l)
      BY <2>1, <1>3, <1>5 DEF Unconsumed, CurSlot
    <3>2. ~Unconsumed(l)'
      \* the I/O thread cannot be publishing the layer: its slot would be free
      BY <2>1, <1>2, <1>3, <1>5, MarksAreNoLayers DEF IInv, IoOwnsFreeSlot, Unconsumed, IoSlot, CurSlot
    <3>3. QED
      BY <3>1, <3>2, <2>1, <1>2, <1>3, <1>4 DEF IInv, ReadsOfLayer
  <2>2. CASE l # cur
    BY <2>2, <1>2, <1>4 DEF IInv, ReadsOfLayer, Unconsumed, SlotOf
  <2>3. QED
    BY <2>1, <2>2
<1>10. QED
  BY <1>1, <1>6, <1>7, <1>8, <1>9 DEF IInv

LEMMA ReleaseStep == IInv /\ Release => IInv'
<1> SUFFICES ASSUME IInv, Release PROVE IInv'
  OBVIOUS
<1>1. TypeOK /\ TypeOK'
  BY TypeStep DEF IInv, Next
<1>2. UNCHANGED <<buf, reads, consumes, idx, IoLayer, IoSlot>>
  BY DEF Release, IoLayer, IoSlot, SlotOf
<1>3. cur \in Streamed /\ cur' \in Streamed /\ CurSlot \in Slots /\ passes \in Nat
  BY <1>1, CurSlotRange DEF TypeOK
<1>4. Taken /\ state[CurSlot] = cur
  BY DEF IInv, DecodeOwnsReadySlot, Release
<1>5. state'[CurSlot] = Free /\ \A s \in Slots : s # CurSlot => state'[s] = state[s]
  BY <1>1, <1>3 DEF Release, TypeOK
<1>6. ~Taken' /\ consumes'[cur'] = passes'
  BY <1>1, <1>2, <1>3, <1>4, RingAssumption DEF IInv, Release, ConsumesOfPass, Taken, Streamed
<1>7. ReadyHoldsLayer'
  BY <1>2, <1>5 DEF IInv, ReadyHoldsLayer, SlotOf
<1>8. ioPc' = ioPc \/ (ioPc = "asleep" /\ ioPc' = "lock")
  BY DEF Release, IoNotified
<1>9. IoSlot \in Slots
  BY <1>1, IoLayerRange DEF TypeOK
<1>10. IoOwnsFreeSlot'
  BY <1>2, <1>5, <1>8, <1>9 DEF IInv, IoOwnsFreeSlot
<1>11. DecodeOwnsReadySlot'
  BY <1>6 DEF Release, DecodeOwnsReadySlot
<1>12. ConsumesOfPass'
  BY <1>1, <1>2, <1>3, <1>4, RingAssumption DEF IInv, Release, ConsumesOfPass, Taken, Streamed
<1>13. ReadsOfLayer'
  <2> SUFFICES ASSUME NEW l \in Streamed PROVE Unconsumed(l)' <=> Unconsumed(l)
    BY <1>2 DEF IInv, ReadsOfLayer
  <2>1. SlotOf(l) \in Slots /\ SlotOf(l)' = SlotOf(l)
    BY SlotOfRange DEF SlotOf
  <2>2. CASE l = cur
    BY <2>1, <2>2, <1>2, <1>4, <1>5, <1>8, MarksAreNoLayers
       DEF IInv, IoOwnsFreeSlot, Unconsumed, IoSlot, CurSlot
  <2>3. CASE l # cur
    <3>1. state'[SlotOf(l)] = l <=> state[SlotOf(l)] = l
      BY <2>1, <2>3, <1>4, <1>5, MarksAreNoLayers
    <3>2. QED
      BY <3>1, <2>1, <2>3, <1>2, <1>6, <1>8 DEF Unconsumed
  <2>4. QED
    BY <2>2, <2>3
<1>14. QED
  BY <1>1, <1>7, <1>10, <1>11, <1>12, <1>13 DEF IInv

LEMMA ShutdownStep == IInv /\ (ShutdownBegin \/ Shutdown \/ Terminated) => IInv'
<1> SUFFICES ASSUME IInv, ShutdownBegin \/ Shutdown \/ Terminated PROVE IInv'
  OBVIOUS
<1>1. TypeOK'
  BY TypeStep DEF IInv, Next
<1>2. UNCHANGED <<state, buf, reads, consumes, idx, cur, passes>>
  BY DEF ShutdownBegin, Shutdown, ShutdownNotify, ShutdownJoin, Terminated, ioVars, vars
<1>3. ioPc' = ioPc \/ (ioPc = "asleep" /\ ioPc' = "lock")
  BY DEF ShutdownBegin, Shutdown, ShutdownNotify, ShutdownJoin, Terminated, ioVars, vars, IoNotified
<1>4. pc' \in {"notify", "closed"}
  BY DEF ShutdownBegin, Shutdown, ShutdownNotify, ShutdownJoin, Terminated, vars
<1>5. ReadyHoldsLayer' /\ IoOwnsFreeSlot' /\ ConsumesOfPass' /\ ReadsOfLayer'
  BY <1>2, <1>3 DEF IInv, ReadyHoldsLayer, IoOwnsFreeSlot, ConsumesOfPass, ReadsOfLayer, Unconsumed,
     Taken, IoSlot, IoLayer, SlotOf
<1>6. DecodeOwnsReadySlot'
  BY <1>2, <1>4 DEF IInv, DecodeOwnsReadySlot, Taken, CurSlot, SlotOf
<1>7. QED
  BY <1>1, <1>5, <1>6 DEF IInv

LEMMA InvStep == IInv /\ [Next]_vars => IInv'
<1> SUFFICES ASSUME IInv, [Next]_vars PROVE IInv'
  OBVIOUS
<1>1. CASE UNCHANGED vars
  <2>1. TypeOK'
    BY <1>1, TypeStep DEF IInv
  <2>2. QED
    BY <1>1, <2>1 DEF vars, IInv, ReadyHoldsLayer, IoOwnsFreeSlot, DecodeOwnsReadySlot, ConsumesOfPass,
       ReadsOfLayer, Unconsumed, Taken, IoSlot, CurSlot, IoLayer, SlotOf
<1>2. QED
  BY <1>1, IoMovesStep, IoReadStep, IoPublishStep, DecodeMovesStep, AcquireCountStep, ReleaseStep,
     ShutdownStep DEF Next, Io, Acquire

LEMMA Invariance == Safety => []IInv
  BY InvInit, InvStep, PTL DEF Safety

-----------------------------------------------------------------------------
\* Every variable of the ring stays in its range: idx and the counters are numbers, and
\* the slot states and slot contents are streamed layers or the marks.
THEOREM RingTypeOK == Safety => []TypeOK
<1>1. IInv => TypeOK
  BY DEF IInv
<1>2. QED
  BY <1>1, Invariance, PTL

\* No data race on the weights: for every number of slots and layers, the decode thread
\* computes a layer from a slot that holds exactly that layer and is not being refilled.
THEOREM RingComputeSeesItsLayer == Safety => []ComputeSeesItsLayer
<1>1. IInv => ComputeSeesItsLayer
  <2> SUFFICES ASSUME IInv, pc \in {"run", "release"} PROVE buf[CurSlot] = cur /\ ~(ioPc = "read" /\ IoSlot = CurSlot)
    BY DEF ComputeSeesItsLayer
  <2>1. cur \in Streamed /\ CurSlot \in Slots /\ state[CurSlot] = cur
    BY CurSlotRange DEF IInv, TypeOK, DecodeOwnsReadySlot
  <2>2. QED
    BY <2>1, MarksAreNoLayers DEF IInv, ReadyHoldsLayer, IoOwnsFreeSlot
<1>2. QED
  BY <1>1, Invariance, PTL

\* Rule 4, the byte accounting: per layer, the reads are the consumes plus at most the one
\* prefetch that is waiting to be consumed, at every moment and after any shutdown.
THEOREM RingReadAhead == Safety => []ReadAhead
<1>1. IInv => ReadAhead
  BY DEF IInv, ReadsOfLayer, ReadAhead
<1>2. QED
  BY <1>1, Invariance, PTL

\* Neither assertion of Ring::release can fail.
THEOREM RingReleaseAsserts == Safety => []ReleaseAsserts
<1>1. IInv => ReleaseAsserts
  BY DEF IInv, TypeOK, DecodeOwnsReadySlot, ReadsOfLayer, ReleaseAsserts
<1>2. QED
  BY <1>1, Invariance, PTL

-----------------------------------------------------------------------------
\* A closed ring has joined its I/O thread, which takes no step any more.
Joined == pc = "closed" => ioPc \in {"done", "dead"}

LEMMA JoinedStep == Joined /\ [Next]_vars => Joined'
<1> SUFFICES ASSUME Joined, [Next]_vars PROVE Joined'
  OBVIOUS
<1> USE DEF Joined
<1>1. CASE Io \/ IoSpuriousWake
  BY <1>1 DEF Io, IoLock, IoSlotFree, IoSlotBusy, IoWait, IoSpuriousWake, IoStartRead, IoReadDone,
     IoReadFails, IoCount, IoPublish, DecNotified, decVars
<1>2. CASE BeginPass \/ Acquire \/ AcquireSpuriousWake \/ RunLayer \/ Release
  BY <1>2 DEF BeginPass, Acquire, AcquireLock, AcquireTest, AcquireCount, AcquireSpuriousWake, RunLayer,
     Release
<1>3. CASE ShutdownBegin \/ ShutdownNotify \/ Terminated \/ UNCHANGED vars
  BY <1>3 DEF ShutdownBegin, ShutdownNotify, Terminated, vars
<1>4. CASE ShutdownJoin
  BY <1>4 DEF ShutdownJoin, ioVars
<1>5. QED
  BY <1>1, <1>2, <1>3, <1>4 DEF Next, Shutdown

\* "After this the counters are final": when shutdown has returned no read is counted and
\* no slot is written, whatever the I/O thread was doing when the stop flag went up.
THEOREM RingCountersFinal == Safety => CountersFinal
<1>1. Init => Joined
  BY DEF Init, Joined
<1>2. Joined /\ [Next]_vars => [pc = "closed" => UNCHANGED <<reads, consumes, buf>>]_vars
  <2> SUFFICES ASSUME Joined, Next, pc = "closed" PROVE UNCHANGED <<reads, consumes, buf>>
    OBVIOUS
  <2>1. ioPc \in {"done", "dead"}
    BY DEF Joined
  <2>2. ~Io /\ ~IoSpuriousWake
    BY <2>1 DEF Io, IoLock, IoSlotFree, IoSlotBusy, IoWait, IoSpuriousWake, IoStartRead, IoReadDone,
       IoReadFails, IoCount, IoPublish
  <2>3. Terminated
    BY <2>2 DEF Next, BeginPass, Acquire, AcquireLock, AcquireTest, AcquireCount, AcquireSpuriousWake,
       RunLayer, Release, ShutdownBegin, Shutdown, ShutdownNotify, ShutdownJoin
  <2>4. QED
    BY <2>3 DEF Terminated, vars
<1>3. QED
  BY <1>1, <1>2, JoinedStep, PTL DEF Safety, CountersFinal

-----------------------------------------------------------------------------
(***************************************************************************)
(* Ring implements LayerFifo, for every split of the model and every       *)
(* number of slots, also when the streamed layers are no multiple of the   *)
(* slots or fewer than them.                                               *)
(*                                                                         *)
(* The k-th layer to be streamed is LayerAt(k). The Ready slots are those  *)
(* of the layers released .. idx - 1 and no others. These sit in distinct  *)
(* slots, and the I/O thread publishes into a free one: counting slots     *)
(* gives the bound of the buffer.                                          *)
(***************************************************************************)

LayerAt(k) == First + (k % NStreamed)

\* What was published and not given back yet.
Window == released .. idx - 1

WindowIsReady == \A k \in Window : state[SlotOf(LayerAt(k))] = LayerAt(k)

ReadyIsInWindow == \A s \in Slots : state[s] # Free => \E k \in Window : state[s] = LayerAt(k)

WindowFits == released <= idx /\ idx <= released + NStreamed

\* Needed for the refinement only, on top of IInv.
RefInv == IInv /\ WindowIsReady /\ ReadyIsInWindow /\ WindowFits

-----------------------------------------------------------------------------
LEMMA LayerAtRange == ASSUME NEW k \in Nat PROVE LayerAt(k) \in Streamed /\ SlotOf(LayerAt(k)) \in Slots
<1>1. NStreamed \in Nat \ {0}
  BY RingAssumption DEF NStreamed
<1>2. k % NStreamed \in 0 .. NStreamed - 1
  BY <1>1, ModRange
<1>3. LayerAt(k) \in Streamed
  BY <1>2, RingAssumption DEF LayerAt, Streamed, NStreamed
<1>4. QED
  BY <1>3, SlotOfRange

\* The layer the decode thread is at is the next one to be given back.
LEMMA ReleasedLayer == ASSUME TypeOK PROVE released \in Nat /\ LayerAt(released) = cur
<1> DEFINE r == cur - First
<1>1. NStreamed \in Nat \ {0} /\ First \in Nat /\ passes \in Nat /\ cur \in Nat
  BY RingAssumption DEF NStreamed, TypeOK, Streamed
<1>2. r \in 0 .. NStreamed - 1
  BY RingAssumption DEF NStreamed, TypeOK, Streamed
<1>3. passes * NStreamed \in Nat
  BY <1>1
<1>4. released = passes * NStreamed + r
  BY DEF released
<1> HIDE DEF r
<1>5. released % NStreamed = r
  BY <1>1, <1>2, <1>4, ModUnique
<1>6. released \in Nat
  BY <1>2, <1>3, <1>4
<1>7. QED
  BY <1>1, <1>5, <1>6 DEF LayerAt, r

\* Two layers of a window no longer than a pass are different.
LEMMA WindowLayersDiffer ==
  ASSUME NEW a \in Nat, NEW b \in Nat, a < b, b < a + NStreamed
  PROVE  LayerAt(a) # LayerAt(b)
<1>1. NStreamed \in Nat \ {0} /\ First \in Nat
  BY RingAssumption DEF NStreamed
<1>2. a % NStreamed \in Int /\ b % NStreamed \in Int
  BY <1>1, ModRange
<1>3. a % NStreamed # b % NStreamed
  <2>1. SUFFICES ASSUME a % NStreamed = b % NStreamed PROVE FALSE
    OBVIOUS
  <2>2. b - a >= NStreamed
    BY <1>1, <2>1, ModGap
  <2>3. QED
    BY <1>1, <2>2
<1>4. QED
  BY <1>1, <1>2, <1>3 DEF LayerAt

-----------------------------------------------------------------------------
LEMMA RefInit == Init => RefInv
<1> SUFFICES ASSUME Init PROVE RefInv
  OBVIOUS
<1>1. IInv /\ idx = 0
  BY InvInit DEF Init
<1>2. NStreamed \in Nat \ {0} /\ First \in Nat
  BY RingAssumption DEF NStreamed
<1>3. released = 0
  BY <1>2 DEF Init, released
<1>4. WindowIsReady /\ WindowFits
  BY <1>1, <1>2, <1>3 DEF WindowIsReady, WindowFits, Window
<1>5. ReadyIsInWindow
  BY DEF Init, ReadyIsInWindow
<1>6. QED
  BY <1>1, <1>4, <1>5 DEF RefInv

\* Most steps neither publish nor give back a layer: nothing the window speaks of changes.
LEMMA RefQuietStep ==
  ASSUME RefInv, IInv', UNCHANGED <<state, idx, cur, passes>>
  PROVE  RefInv'
<1>1. released' = released /\ Window' = Window
  BY DEF released, Window
<1>2. QED
  BY <1>1 DEF RefInv, WindowIsReady, ReadyIsInWindow, WindowFits, LayerAt, SlotOf

\* The I/O thread finds room: its slot is free, so the window is short of the slots,
\* and of the streamed layers, by one at least.
LEMMA PublishHasRoom ==
  ASSUME RefInv, ioPc = "publish"
  PROVE  idx < released + NSlots /\ idx < released + NStreamed
<1>1. TypeOK /\ idx \in Nat /\ state[IoSlot] = Free /\ IoSlot \in Slots
  BY IoLayerRange DEF RefInv, IInv, TypeOK, IoOwnsFreeSlot
<1>2. released \in Nat /\ LayerAt(released) = cur /\ NStreamed \in Nat \ {0} /\ NSlots \in Nat \ {0}
  BY <1>1, ReleasedLayer, RingAssumption DEF NStreamed
<1>3. released <= idx /\ idx <= released + NStreamed
  BY DEF RefInv, WindowFits
<1>4. IoLayer = LayerAt(idx)
  BY DEF IoLayer, LayerAt
<1>5. \A k \in Window : k \in Nat /\ LayerAt(k) \in Streamed /\ SlotOf(LayerAt(k)) \in Slots \ {IoSlot}
  <2> SUFFICES ASSUME NEW k \in Window
               PROVE k \in Nat /\ LayerAt(k) \in Streamed /\ SlotOf(LayerAt(k)) \in Slots \ {IoSlot}
    OBVIOUS
  <2>1. k \in Nat
    BY <1>1, <1>2 DEF Window
  <2>2. state[SlotOf(LayerAt(k))] = LayerAt(k)
    BY DEF RefInv, WindowIsReady
  <2>3. QED
    BY <1>1, <2>1, <2>2, LayerAtRange, MarksAreNoLayers
<1>6. idx < released + NStreamed
  <2>1. SUFFICES ASSUME idx = released + NStreamed PROVE FALSE
    BY <1>1, <1>2, <1>3
  <2>2. idx % NStreamed = released % NStreamed
    BY <1>2, <2>1, ModPeriod
  <2>3. LayerAt(released) = IoLayer /\ released \in Window
    BY <1>1, <1>2, <1>4, <2>1, <2>2 DEF LayerAt, Window
  <2>4. QED
    BY <1>5, <2>3 DEF IoSlot
<1>7. idx < released + NSlots
  <2> DEFINE Others == Slots \ {IoSlot}
             f == [k \in Window |-> SlotOf(LayerAt(k))]
  <2>1. f \in [Window -> Others]
    BY <1>5
  <2>2. \A a, b \in Window : a < b => f[a] # f[b]
    <3> SUFFICES ASSUME NEW a \in Window, NEW b \in Window, a < b PROVE f[a] # f[b]
      OBVIOUS
    <3>1. b < a + NStreamed /\ a \in Nat /\ b \in Nat
      BY <1>1, <1>2, <1>3, <1>5 DEF Window
    <3>2. LayerAt(a) # LayerAt(b)
      BY <3>1, WindowLayersDiffer
    <3>3. state[SlotOf(LayerAt(a))] = LayerAt(a) /\ state[SlotOf(LayerAt(b))] = LayerAt(b)
      BY DEF RefInv, WindowIsReady
    <3>4. QED
      BY <3>2, <3>3
  <2>3. \A a, b \in Window : a # b => f[a] # f[b]
    <3> SUFFICES ASSUME NEW a \in Window, NEW b \in Window, a # b PROVE f[a] # f[b]
      OBVIOUS
    <3>1. a < b \/ b < a
      BY <1>5
    <3>2. QED
      BY <2>2, <3>1
  <2>4. IsFiniteSet(Slots) /\ Cardinality(Slots) = NSlots
    BY <1>2, FS_Interval DEF Slots
  <2>5. IsFiniteSet(Others) /\ Cardinality(Others) = NSlots - 1
    BY <1>1, <2>4, FS_RemoveElement
  <2>6. IsFiniteSet(Window) /\ Cardinality(Window) = idx - released
    BY <1>1, <1>2, <1>3, FS_Interval DEF Window
  <2> HIDE DEF f, Others
  <2>7. ~(Cardinality(Others) < Cardinality(Window))
    BY <2>1, <2>3, <2>5, <2>6, FS_PigeonHole
  <2>8. QED
    BY <1>1, <1>2, <2>5, <2>6, <2>7
<1>8. QED
  BY <1>6, <1>7

LEMMA RefPublishStep == RefInv /\ IoPublish => RefInv'
<1> SUFFICES ASSUME RefInv, IoPublish PROVE RefInv'
  OBVIOUS
<1>1. IInv' /\ TypeOK
  BY IoPublishStep DEF RefInv, IInv
<1>2. idx \in Nat /\ idx' = idx + 1 /\ IoSlot \in Slots /\ IoLayer \in Streamed /\ IoLayer = LayerAt(idx)
  BY <1>1, IoLayerRange DEF TypeOK, IoPublish, IoLayer, LayerAt
<1>3. released \in Nat /\ released' = released
  BY <1>1, ReleasedLayer DEF IoPublish, released
<1>4. idx < released + NStreamed /\ released <= idx /\ NStreamed \in Nat
  BY PublishHasRoom, RingAssumption DEF IoPublish, RefInv, WindowFits, NStreamed
<1>5. Window' = Window \cup {idx} /\ idx \notin Window
  BY <1>2, <1>3, <1>4 DEF Window
<1>6. state[IoSlot] = Free /\ state'[IoSlot] = IoLayer /\ \A s \in Slots : s # IoSlot => state'[s] = state[s]
  BY <1>1, <1>2 DEF RefInv, IInv, IoOwnsFreeSlot, TypeOK, IoPublish
<1>7. WindowIsReady'
  <2> SUFFICES ASSUME NEW k \in Window \cup {idx} PROVE state'[SlotOf(LayerAt(k))] = LayerAt(k)
    BY <1>5 DEF WindowIsReady, LayerAt, SlotOf
  <2>1. CASE k = idx
    BY <2>1, <1>2, <1>6 DEF IoSlot
  <2>2. CASE k \in Window
    <3>1. LayerAt(k) \in Streamed /\ SlotOf(LayerAt(k)) \in Slots
      BY <2>2, <1>2, <1>3, LayerAtRange DEF Window
    <3>2. state[SlotOf(LayerAt(k))] = LayerAt(k)
      BY <2>2 DEF RefInv, WindowIsReady
    <3>3. QED
      BY <3>1, <3>2, <1>6, MarksAreNoLayers
  <2>3. QED
    BY <2>1, <2>2
<1>8. ReadyIsInWindow'
  BY <1>2, <1>5, <1>6 DEF RefInv, ReadyIsInWindow, LayerAt
<1>9. WindowFits'
  BY <1>2, <1>3, <1>4 DEF WindowFits
<1>10. QED
  BY <1>1, <1>7, <1>8, <1>9 DEF RefInv

\* Giving back a layer takes the first one out of the window.
LEMMA ReleaseMovesWindow ==
  ASSUME RefInv, Release
  PROVE  released \in Nat /\ released' = released + 1 /\ released \in Window
<1>1. TypeOK /\ cur \in Streamed /\ passes \in Nat /\ idx \in Nat
  BY DEF RefInv, IInv, TypeOK
<1>2. released \in Nat
  BY <1>1, ReleasedLayer
<1>3. NStreamed \in Nat /\ First \in Nat /\ NLayer \in Nat /\ NLayer = First + NStreamed
  BY RingAssumption DEF NStreamed
<1>4. released' = released + 1
  <2>1. CASE cur = NLayer - 1
    <3>1. passes' = passes + 1 /\ cur' = First
      BY <2>1 DEF Release
    <3>2. (passes + 1) * NStreamed = passes * NStreamed + NStreamed
      BY <1>1, <1>3
    <3>3. passes * NStreamed \in Nat
      BY <1>1, <1>3
    <3>4. released' = passes * NStreamed + NStreamed
      BY <1>3, <3>1, <3>2, <3>3 DEF released, NStreamed
    <3>5. released = passes * NStreamed + (NStreamed - 1)
      BY <2>1, <1>3, <3>3 DEF released
    <3>6. QED
      BY <1>3, <3>3, <3>4, <3>5
  <2>2. CASE cur # NLayer - 1
    <3>1. passes' = passes /\ cur' = cur + 1
      BY <2>2 DEF Release
    <3>2. cur \in Nat /\ passes * NStreamed \in Nat
      BY <1>1, <1>3 DEF Streamed
    <3>3. released' = passes * NStreamed + (cur + 1 - First)
      BY <1>1, <1>3, <3>1, <3>2 DEF released, NStreamed
    <3>4. QED
      BY <1>3, <3>2, <3>3 DEF released
  <2>3. QED
    BY <2>1, <2>2
<1>5. released \in Window
  \* the slot of cur is Ready, and only layers of the window are
  <2>1. state[CurSlot] = cur /\ CurSlot \in Slots
    BY <1>1, CurSlotRange DEF RefInv, IInv, DecodeOwnsReadySlot, Release
  <2>2. \E k \in Window : state[CurSlot] = LayerAt(k)
    BY <2>1, <1>1, MarksAreNoLayers DEF RefInv, ReadyIsInWindow
  <2>3. QED
    BY <2>2, <1>1, <1>2 DEF Window
<1>6. QED
  BY <1>2, <1>4, <1>5

LEMMA RefReleaseStep == RefInv /\ Release => RefInv'
<1> SUFFICES ASSUME RefInv, Release PROVE RefInv'
  OBVIOUS
<1>1. IInv' /\ TypeOK /\ idx \in Nat /\ idx' = idx /\ cur \in Streamed /\ CurSlot \in Slots
  BY ReleaseStep, CurSlotRange DEF RefInv, IInv, TypeOK, Release
<1>2. released \in Nat /\ released' = released + 1 /\ released \in Window /\ LayerAt(released) = cur
  BY <1>1, ReleaseMovesWindow, ReleasedLayer
<1>3. Window' = Window \ {released}
  BY <1>1, <1>2 DEF Window
<1>4. state[CurSlot] = cur /\ state'[CurSlot] = Free /\ \A s \in Slots : s # CurSlot => state'[s] = state[s]
  BY <1>1 DEF RefInv, IInv, DecodeOwnsReadySlot, TypeOK, Release
<1>5. NStreamed \in Nat /\ released <= idx /\ idx <= released + NStreamed
  BY RingAssumption DEF RefInv, WindowFits, NStreamed
<1>6. WindowIsReady'
  <2> SUFFICES ASSUME NEW k \in Window, k # released PROVE state'[SlotOf(LayerAt(k))] = LayerAt(k)
    BY <1>3 DEF WindowIsReady, LayerAt, SlotOf
  <2>1. k \in Nat /\ released < k /\ k < released + NStreamed
    BY <1>1, <1>2, <1>5 DEF Window
  <2>2. LayerAt(k) # cur
    BY <1>2, <2>1, WindowLayersDiffer
  <2>3. state[SlotOf(LayerAt(k))] = LayerAt(k)
    BY DEF RefInv, WindowIsReady
  <2>4. SlotOf(LayerAt(k)) \in Slots \ {CurSlot}
    BY <2>1, <2>2, <2>3, <1>4, LayerAtRange
  <2>5. QED
    BY <1>4, <2>3, <2>4
<1>7. ReadyIsInWindow'
  <2> SUFFICES ASSUME NEW s \in Slots, state'[s] # Free
               PROVE \E k \in Window \ {released} : state'[s] = LayerAt(k)
    BY <1>3 DEF ReadyIsInWindow, LayerAt
  <2>1. s # CurSlot /\ state'[s] = state[s] /\ SlotOf(state[s]) = s
    BY <1>4 DEF RefInv, IInv, ReadyHoldsLayer
  <2>2. PICK k \in Window : state[s] = LayerAt(k)
    BY <2>1 DEF RefInv, ReadyIsInWindow
  <2>3. k # released
    BY <1>2, <2>1, <2>2 DEF CurSlot
  <2>4. QED
    BY <2>1, <2>2, <2>3
<1>8. WindowFits'
  BY <1>1, <1>2, <1>3, <1>5 DEF WindowFits, Window
<1>9. QED
  BY <1>1, <1>6, <1>7, <1>8 DEF RefInv

LEMMA RefStep == RefInv /\ [Next]_vars => RefInv'
<1> SUFFICES ASSUME RefInv, [Next]_vars PROVE RefInv'
  OBVIOUS
<1>1. IInv'
  BY InvStep DEF RefInv
<1>2. CASE IoPublish
  BY <1>2, RefPublishStep
<1>3. CASE Release
  BY <1>3, RefReleaseStep
<1>4. CASE ~IoPublish /\ ~Release
  <2>1. UNCHANGED <<state, idx, cur, passes>>
    <3>1. CASE Io \/ IoSpuriousWake
      BY <1>4, <3>1 DEF Io, IoLock, IoSlotFree, IoSlotBusy, IoWait, IoStartRead, IoReadDone, IoReadFails,
         IoCount, IoSpuriousWake, decVars
    <3>2. CASE BeginPass \/ Acquire \/ AcquireSpuriousWake \/ RunLayer
      BY <3>2 DEF BeginPass, Acquire, AcquireLock, AcquireTest, AcquireCount, AcquireSpuriousWake, RunLayer,
         ioVars, RefInv, IInv, DecodeOwnsReadySlot
    <3>3. CASE ShutdownBegin \/ Shutdown \/ Terminated \/ UNCHANGED vars
      BY <3>3 DEF ShutdownBegin, Shutdown, ShutdownNotify, ShutdownJoin, Terminated, ioVars, vars
    <3>4. QED
      BY <1>4, <3>1, <3>2, <3>3 DEF Next
  <2>2. QED
    BY <1>1, <2>1, RefQuietStep
<1>5. QED
  BY <1>2, <1>3, <1>4

LEMMA RefInvariance == Safety => []RefInv
  BY RefInit, RefStep, PTL DEF Safety

-----------------------------------------------------------------------------
\* What the decode thread took is what it gave back, plus the layer it is at once counted.
LEMMA TakenOfCur == RefInv => taken = IF Taken THEN released + 1 ELSE released
<1> SUFFICES ASSUME RefInv PROVE taken = IF Taken THEN released + 1 ELSE released
  OBVIOUS
<1>1. TypeOK /\ cur \in Streamed /\ passes \in Nat
  BY DEF RefInv, IInv, TypeOK
<1>2. released \in Nat
  BY <1>1, ReleasedLayer
<1>3. consumes[cur] \in {passes, passes + 1}
  BY <1>1 DEF RefInv, IInv, ConsumesOfPass
<1> HIDE DEF released
<1>4. QED
  BY <1>1, <1>2, <1>3 DEF taken, Taken

\* A step of the ring is a step of the buffer, or changes nothing of it.
LEMMA RefinementStep ==
  ASSUME RefInv, RefInv', [Next]_vars
  PROVE  [Fifo!Next]_Fifo!fifo
<1>1. TypeOK /\ idx \in Nat /\ cur \in Streamed /\ passes \in Nat /\ released \in Nat
  BY ReleasedLayer DEF RefInv, IInv, TypeOK
<1>2. taken = IF Taken THEN released + 1 ELSE released
  BY TakenOfCur
<1>3. taken' = IF Taken' THEN released' + 1 ELSE released'
  <2>1. (RefInv => taken = IF Taken THEN released + 1 ELSE released)'
    BY TakenOfCur, PTL
  <2>2. QED
    BY <2>1
<1>4. CASE IoPublish
  <2>1. idx < released + NSlots
    BY <1>4, PublishHasRoom DEF IoPublish
  <2>2. idx' = idx + 1 /\ released' = released /\ taken' = taken
    BY <1>4 DEF IoPublish, released, taken
  <2>3. Fifo!Fill
    BY <2>1, <2>2 DEF Fifo!Fill
  <2>4. QED
    BY <2>3 DEF Fifo!Next
<1>5. CASE AcquireCount
  <2>1. ~Taken /\ Taken' /\ state[CurSlot] = cur /\ cur # Free
    <3>1. consumes[cur] = passes /\ state[CurSlot] = cur /\ consumes \in [Streamed -> Nat]
      BY <1>1, <1>5 DEF RefInv, IInv, TypeOK, DecodeOwnsReadySlot, AcquireCount
    <3>2. consumes'[cur] = passes + 1 /\ passes' = passes /\ cur' = cur
      BY <1>1, <1>5, <3>1 DEF AcquireCount
    <3>3. QED
      BY <1>1, <3>1, <3>2, MarksAreNoLayers DEF Taken
  <2>2. idx' = idx /\ released' = released
    BY <1>5 DEF AcquireCount, ioVars, released
  <2>3. released < idx
    <3>1. PICK k \in Window : state[CurSlot] = LayerAt(k)
      BY <1>1, <2>1, CurSlotRange DEF RefInv, ReadyIsInWindow
    <3>2. QED
      BY <1>1, <3>1 DEF Window
  <2>4. Fifo!Take
    BY <1>1, <1>2, <1>3, <2>1, <2>2, <2>3 DEF Fifo!Take
  <2>5. QED
    BY <2>4 DEF Fifo!Next
<1>6. CASE Release
  <2>1. released' = released + 1 /\ idx' = idx
    BY <1>6, ReleaseMovesWindow DEF Release
  <2>2. Taken /\ ~Taken'
    <3>1. Taken
      BY <1>6 DEF RefInv, IInv, DecodeOwnsReadySlot, Release
    <3>2. consumes'[cur'] = passes' /\ passes' \in Nat
      BY <1>6 DEF RefInv, IInv, TypeOK, DecodeOwnsReadySlot, Release
    <3>3. \A n \in Nat : n # n + 1
      OBVIOUS
    <3>4. ~Taken'
      BY <3>2, <3>3 DEF Taken
    <3>5. QED
      BY <3>1, <3>4
  <2>3. Fifo!GiveBack
    BY <1>1, <1>2, <1>3, <2>1, <2>2 DEF Fifo!GiveBack
  <2>4. QED
    BY <2>3 DEF Fifo!Next
<1>7. CASE ~IoPublish /\ ~AcquireCount /\ ~Release
  <2>1. UNCHANGED <<idx, consumes, cur, passes>>
    <3>1. CASE Io \/ IoSpuriousWake
      BY <1>7, <3>1 DEF Io, IoLock, IoSlotFree, IoSlotBusy, IoWait, IoStartRead, IoReadDone, IoReadFails,
         IoCount, IoSpuriousWake, decVars
    <3>2. CASE BeginPass \/ Acquire \/ AcquireSpuriousWake \/ RunLayer
      BY <1>7, <3>2 DEF BeginPass, Acquire, AcquireLock, AcquireTest, AcquireSpuriousWake, RunLayer,
         ioVars, RefInv, IInv, DecodeOwnsReadySlot
    <3>3. CASE ShutdownBegin \/ Shutdown \/ Terminated \/ UNCHANGED vars
      BY <3>3 DEF ShutdownBegin, Shutdown, ShutdownNotify, ShutdownJoin, Terminated, ioVars, vars
    <3>4. QED
      BY <1>7, <3>1, <3>2, <3>3 DEF Next
  <2>2. QED
    BY <2>1 DEF Fifo!fifo, released, taken
<1>8. QED
  BY <1>4, <1>5, <1>6, <1>7

\* The ring of Ring::acquire and Ring::release with the I/O thread behind it is a bounded
\* first-in first-out buffer: layers become ready in the order of the passes, never more
\* than NSlots ahead of what was given back, and are taken one at a time in that order.
THEOREM RingImplementsFifo == Safety => ImplementsFifo
<1>1. Init => Fifo!Init
  <2> SUFFICES ASSUME Init PROVE Fifo!Init
    OBVIOUS
  <2>1. First \in Streamed /\ NStreamed \in Nat /\ First \in Nat
    BY RingAssumption DEF Streamed, NStreamed
  <2>2. released = 0 /\ consumes[cur] = 0 /\ passes = 0
    BY <2>1 DEF Init, released
  <2>3. taken = 0
    BY <2>2 DEF taken
  <2>4. QED
    BY <2>2, <2>3 DEF Fifo!Init, Init
<1>2. RefInv /\ RefInv' /\ [Next]_vars => [Fifo!Next]_Fifo!fifo
  BY RefinementStep
<1>3. QED
  BY <1>1, <1>2, RefInvariance, PTL DEF Safety, ImplementsFifo, Fifo!Spec

-----------------------------------------------------------------------------
(* The unbuffered reads.                                                   *)

Request == [at : Nat, want : Nat, got : Nat, status : {"none", "pending", "done", "eof", "failed"}]

FileTypes ==
  /\ os \in {"windows", "linux"}
  /\ len \in Nat /\ fileEnd \in Nat /\ bufLen \in Nat
  /\ phase \in {"open", "loop", "drain", "ok", "error"}
  /\ issued \in Nat /\ total \in Nat /\ eof \in BOOLEAN /\ short \in BOOLEAN
  /\ inflight \in Seq(RequestSlots) /\ busy \in [RequestSlots -> BOOLEAN] /\ req \in [RequestSlots -> Request]

\* What a slot's request was for, and what it may still write.
Asked(s) == {x \in Bytes(req[s].at, req[s].want) : req[s].status # "none"}
Unfinished(s) == {x \in Bytes(req[s].at, req[s].want) : req[s].status \in {"pending", "failed"}}

\* The file's bytes of the requests issued; those counted in total; those in the buffer.
Read    == {x \in 0 .. issued - 1 : x < fileEnd}
Counted == {x \in Read : \A s \in RequestSlots : x \notin Asked(s)}
Landed  == {x \in Read : \A s \in RequestSlots : x \notin Unfinished(s)}

\* The read stays inside the range asked for, and that inside the buffer.
InRange ==
  /\ phase # "open" => len <= bufLen
  /\ phase = "open" => issued = 0 /\ total = 0 /\ ~eof /\ inflight = <<>> /\ filled = {} /\ ~short
  /\ issued <= len /\ filled \subseteq 0 .. len - 1
  /\ os = "linux" => inflight = <<>> /\ issued = 0 /\ phase # "drain"

\* The table of requests in flight, the flags and the system's requests.
TableAgrees ==
  /\ \A s \in RequestSlots : req[s].status # "none" <=> \E i \in DOMAIN inflight : inflight[i] = s
  /\ phase \in {"open", "loop"} => \A s \in RequestSlots : busy[s] <=> req[s].status # "none"
  /\ \A i, j \in DOMAIN inflight : i < j =>
       /\ inflight[i] # inflight[j]
       /\ req[inflight[i]].at + req[inflight[i]].want <= req[inflight[j]].at

Requests ==
  /\ \A s \in RequestSlots : req[s].status # "none" => req[s].at + req[s].want <= issued
  /\ \A s \in RequestSlots : req[s].status \in {"done", "eof"} => req[s].got = Available(req[s].at, req[s].want)
  /\ \A s, t \in RequestSlots : s # t => Asked(s) \cap Asked(t) = {}

WindowsLoop ==
  os = "windows" /\ phase = "loop" =>
    /\ filled = Landed /\ total = Cardinality(Counted)
    /\ eof => fileEnd < issued

LinuxLoop ==
  os = "linux" =>
    /\ filled = Bytes(0, total) /\ total <= len /\ total <= fileEnd
    /\ eof /\ ~short => total = fileEnd

\* The inductive invariant of a read.
ReadInv ==
  /\ FileTypes
  /\ InRange
  /\ TableAgrees
  /\ Requests
  /\ WindowsLoop
  /\ LinuxLoop
  /\ phase \in {"ok", "error"} => inflight = <<>>
  /\ TotalIsPrefix

-----------------------------------------------------------------------------
\* Rounding up to a multiple never goes below.
LEMMA AlignUpFacts ==
  ASSUME NEW x \in Nat, NEW a \in Nat \ {0}
  PROVE  AlignUp(x, a) \in Nat /\ AlignUp(x, a) >= x
<1> DEFINE y == x + a - 1
           q == y \div a
<1>1. y \in Nat
  OBVIOUS
<1>2. y % a \in 0 .. a - 1
  BY <1>1, ModRange
<1> HIDE DEF y
<1>3. y = q * a + (y % a) /\ q \in Nat
  BY <1>1, SMT
<1>4. q * a \in Nat
  BY <1>3
<1>5. q * a >= x
  BY <1>2, <1>3, <1>4 DEF y
<1>6. QED
  BY <1>4, <1>5 DEF AlignUp, y

\* The queue is never empty and a request never of no bytes.
LEMMA SizeFacts ==
  /\ QD \in Nat /\ QD >= 1 /\ Chunk \in Nat /\ Chunk >= 1
  /\ os = "windows" => RequestSlots = 1 .. QD
<1>1. Greatest(QdAsked, 1) \in Nat /\ Greatest(QdAsked, 1) >= 1
  BY DirectFileAssumption DEF Greatest
<1>2. Greatest(ChunkAsked, Sector) \in Nat /\ Greatest(ChunkAsked, Sector) >= 1
  BY DirectFileAssumption DEF Greatest
<1>3. Chunk \in Nat /\ Chunk >= Greatest(ChunkAsked, Sector)
  BY <1>2, AlignUpFacts, DirectFileAssumption DEF Chunk
<1>4. QED
  BY <1>1, <1>2, <1>3 DEF QD, RequestSlots

\* What a request finds are the file's bytes of its range, in front of it.
LEMMA AvailableFacts ==
  ASSUME NEW at \in Nat, NEW want \in Nat, fileEnd \in Nat
  PROVE  /\ Available(at, want) \in 0 .. want
         /\ Available(at, want) < want => fileEnd < at + want
         /\ Bytes(at, Available(at, want)) = {x \in Bytes(at, want) : x < fileEnd}
<1>1. Available(at, want) \in 0 .. want /\ (Available(at, want) < want => fileEnd < at + want)
  BY DEF Available, Least
<1>2. Bytes(at, Available(at, want)) = {x \in Bytes(at, want) : x < fileEnd}
  <2>1. ASSUME NEW x \in Int
        PROVE  x \in Bytes(at, Available(at, want)) <=> x \in Bytes(at, want) /\ x < fileEnd
    BY DEF Bytes, Available, Least
  <2>2. Bytes(at, Available(at, want)) \subseteq Int /\ Bytes(at, want) \subseteq Int
    BY <1>1 DEF Bytes
  <2>3. QED
    BY <2>1, <2>2
<1>3. QED
  BY <1>1, <1>2

\* Counting bytes not counted before.
LEMMA CountMore ==
  ASSUME NEW C, IsFiniteSet(C), NEW at \in Nat, NEW n \in Nat, C \cap Bytes(at, n) = {}
  PROVE  Cardinality(C \cup Bytes(at, n)) = Cardinality(C) + n /\ Cardinality(C) \in Nat
<1>1. IsFiniteSet(Bytes(at, n)) /\ Cardinality(Bytes(at, n)) = n
  <2>1. at + n - 1 \in Int
    OBVIOUS
  <2>2. IsFiniteSet(at .. at + n - 1) /\ Cardinality(at .. at + n - 1) = IF at > at + n - 1 THEN 0 ELSE at + n - 1 - at + 1
    BY <2>1, FS_Interval
  <2>3. (IF at > at + n - 1 THEN 0 ELSE at + n - 1 - at + 1) = n
    OBVIOUS
  <2>4. QED
    BY <2>2, <2>3 DEF Bytes
<1>2. Cardinality(C) \in Nat
  BY FS_CardinalityType
<1>3. Cardinality(C \cup Bytes(at, n)) = Cardinality(C) + Cardinality(Bytes(at, n)) - Cardinality(C \cap Bytes(at, n))
  BY <1>1, FS_Union
<1>4. Cardinality(C \cap Bytes(at, n)) = 0
  BY FS_EmptySet
<1>5. QED
  BY <1>1, <1>2, <1>3, <1>4

LEMMA CountedIsFinite ==
  ASSUME issued \in Nat
  PROVE  IsFiniteSet(Counted)
<1>1. IsFiniteSet(0 .. issued - 1)
  BY FS_Interval
<1>2. Counted \in SUBSET (0 .. issued - 1)
  BY DEF Counted, Read
<1>3. QED
  BY <1>1, <1>2, FS_Subset

\* While fewer requests are in flight than there are slots, one is free: Slot finds it.
LEMMA SlotIsFree ==
  ASSUME ReadInv, MayIssue
  PROVE  Slot \in RequestSlots /\ ~busy[Slot] /\ req[Slot].status = "none"
<1>1. /\ os = "windows" /\ phase = "loop" /\ Len(inflight) < QD /\ inflight \in Seq(RequestSlots)
      /\ Len(inflight) \in Nat /\ RequestSlots = 1 .. QD /\ QD \in Nat
  BY SizeFacts, LenProperties DEF MayIssue, ReadInv, FileTypes
<1>2. \A s \in RequestSlots : busy[s] <=> req[s].status # "none"
  BY <1>1 DEF ReadInv, TableAgrees
<1>3. \A s \in RequestSlots : busy[s] <=> \E i \in DOMAIN inflight : inflight[i] = s
  BY <1>2 DEF ReadInv, TableAgrees
<1> DEFINE Unused == {s \in RequestSlots : ~busy[s]}
<1>4. Unused # {}
  <2>1. SUFFICES ASSUME \A s \in RequestSlots : busy[s] PROVE FALSE
    OBVIOUS
  <2>2. inflight \in [1 .. Len(inflight) -> RequestSlots] /\ DOMAIN inflight = 1 .. Len(inflight)
    BY <1>1, LenProperties
  <2>3. \A s \in RequestSlots : \E i \in 1 .. Len(inflight) : inflight[i] = s
    BY <1>3, <2>1, <2>2
  <2>4. inflight \in Surjection(1 .. Len(inflight), RequestSlots)
    BY <2>2, <2>3 DEF Surjection
  <2>5. ExistsSurjection(1 .. Len(inflight), RequestSlots)
    BY <2>4 DEF ExistsSurjection
  <2>6. Cardinality(RequestSlots) <= Len(inflight)
    BY <1>1, <2>5, FS_SurjCardinalityBound
  <2>7. Cardinality(1 .. QD) = QD
    <3>1. 1 \in Int /\ QD \in Int /\ QD >= 1
      BY <1>1, SizeFacts
    <3>2. Cardinality(1 .. QD) = IF 1 > QD THEN 0 ELSE QD - 1 + 1
      BY <3>1, FS_Interval
    <3>3. QED
      BY <3>1, <3>2
  <2>8. QED
    BY <1>1, <2>6, <2>7
<1>5. PICK s \in Unused : \A t \in Unused : s <= t
  <2>1. Unused \in SUBSET Nat
    BY <1>1
  <2> HIDE DEF Unused
  <2>2. QED
    BY <1>4, <2>1, LeastNatural
<1>6. s \in RequestSlots /\ ~busy[s] /\ \A r \in 1 .. s - 1 : busy[r]
  <2>1. s \in RequestSlots /\ ~busy[s]
    OBVIOUS
  <2>2. ASSUME NEW r \in 1 .. s - 1 PROVE busy[r]
    <3>1. r \in RequestSlots /\ ~(s <= r)
      BY <1>1, <2>1
    <3>2. QED
      BY <1>5, <3>1
  <2>3. QED
    BY <2>1, <2>2
<1>7. Slot \in RequestSlots /\ ~busy[Slot]
  BY <1>6 DEF Slot
<1>8. QED
  BY <1>2, <1>7

LEMMA ReadInvInit == ReadInit => ReadInv
<1> SUFFICES ASSUME ReadInit PROVE ReadInv
  OBVIOUS
<1> USE DEF ReadInit
<1>1. NoRequest \in Request
  BY DEF NoRequest, Request
<1>2. FileTypes
  BY <1>1, DirectFileAssumption, EmptySeq DEF FileTypes
<1>3. InRange
  BY <1>2 DEF InRange, FileTypes
<1>4. TableAgrees
  BY EmptySeq DEF TableAgrees, NoRequest
<1>5. Requests
  BY DEF Requests, NoRequest, Asked
<1>6. LinuxLoop
  BY <1>2 DEF LinuxLoop, Bytes, FileTypes
<1>7. WindowsLoop /\ TotalIsPrefix
  BY DEF WindowsLoop, TotalIsPrefix
<1>8. QED
  BY <1>2, <1>3, <1>4, <1>5, <1>6, <1>7 DEF ReadInv

LEMMA IdleStep == ASSUME ReadInv, UNCHANGED readVars PROVE ReadInv'
<1> USE DEF readVars, call, local
<1>1. FileTypes' /\ InRange' /\ TableAgrees'
  BY DEF ReadInv, FileTypes, InRange, TableAgrees
<1>2. Requests'
  BY DEF ReadInv, Requests, Asked, Available, Bytes
<1>3. WindowsLoop'
  BY DEF ReadInv, WindowsLoop, Landed, Counted, Read, Asked, Unfinished, Bytes
<1>4. LinuxLoop' /\ TotalIsPrefix'
  BY DEF ReadInv, LinuxLoop, TotalIsPrefix, Bytes
<1>5. QED
  BY <1>1, <1>2, <1>3, <1>4 DEF ReadInv

LEMMA OpenStep == ASSUME ReadInv, Open PROVE ReadInv'
<1>1. /\ phase = "open" /\ phase' = "loop" /\ len <= bufLen'
      /\ UNCHANGED <<os, len, fileEnd, issued, total, eof, inflight, busy, req, filled, short>>
  BY DEF Open
<1>2. bufLen' \in Nat
  <2>1. PICK large \in BOOLEAN : bufLen' = BufferBytes(len, large)
    BY DEF Open
  <2>2. Greatest(len, Page) \in Nat
    BY DirectFileAssumption DEF ReadInv, FileTypes, Greatest
  <2>3. AlignUp(Greatest(len, Page), Page) \in Nat /\ AlignUp(Greatest(len, Page), LargePage) \in Nat
    BY <2>2, AlignUpFacts, DirectFileAssumption
  <2>4. QED
    BY <2>1, <2>2, <2>3 DEF BufferBytes
<1>3. /\ issued = 0 /\ total = 0 /\ ~eof /\ inflight = <<>> /\ filled = {} /\ ~short
  BY <1>1 DEF ReadInv, InRange
<1>4. FileTypes' /\ InRange'
  BY <1>1, <1>2 DEF ReadInv, FileTypes, InRange
<1>5. TableAgrees' /\ Requests'
  BY <1>1 DEF ReadInv, TableAgrees, Requests, Asked, Available, Bytes
<1>6. WindowsLoop'
  <2>1. Read' = {} /\ Landed' = {} /\ Counted' = {}
    BY <1>1, <1>3 DEF Read, Landed, Counted
  <2>2. QED
    BY <1>1, <1>3, <2>1, FS_EmptySet DEF WindowsLoop
<1>7. LinuxLoop' /\ TotalIsPrefix'
  BY <1>1 DEF ReadInv, LinuxLoop, TotalIsPrefix, Bytes
<1>8. QED
  BY <1>1, <1>4, <1>5, <1>6, <1>7 DEF ReadInv

\* A request exists only on Windows and before the read returns.
LEMMA RequestMeansWindows ==
  ASSUME ReadInv, NEW s \in RequestSlots, req[s].status # "none"
  PROVE  os = "windows" /\ phase \in {"loop", "drain"} /\ inflight # <<>>
<1>1. inflight # <<>>
  BY EmptySeq DEF ReadInv, TableAgrees
<1>2. QED
  BY <1>1 DEF ReadInv, FileTypes, InRange

\* The bytes of a request are in the range asked for.
LEMMA AskedBelowIssued ==
  ASSUME ReadInv, NEW s \in RequestSlots
  PROVE  /\ req[s] \in Request /\ Unfinished(s) \subseteq Asked(s)
         /\ \A x \in Asked(s) : x \in Nat /\ x < issued
         /\ req[s].status # "none" => Asked(s) = Bytes(req[s].at, req[s].want)
         /\ req[s].status = "none" => Asked(s) = {}
<1>1. req[s] \in Request /\ issued \in Nat
  BY DEF ReadInv, FileTypes
<1>2. req[s].at \in Nat /\ req[s].want \in Nat
  BY <1>1 DEF Request
<1>3. req[s].status # "none" => req[s].at + req[s].want <= issued
  BY DEF ReadInv, Requests
<1>4. \A x \in Asked(s) : x \in Nat /\ x < issued
  BY <1>1, <1>2, <1>3 DEF Asked, Bytes
<1>5. QED
  BY <1>1, <1>4 DEF Asked, Unfinished

LEMMA TransferStep == ASSUME ReadInv, NEW s \in RequestSlots, Transfer(s) PROVE ReadInv'
<1> DEFINE r == req[s]
           count == Available(r.at, r.want)
<1>1. /\ r.status = "pending"
      /\ req' = [req EXCEPT ![s].got = count, ![s].status = IF count = 0 THEN "eof" ELSE "done"]
      /\ filled' = filled \cup Bytes(r.at, count)
      /\ UNCHANGED <<os, len, fileEnd, bufLen, phase, issued, total, eof, inflight, busy, short>>
  BY DEF Transfer, call, local
<1>2. os = "windows" /\ phase \in {"loop", "drain"} /\ inflight # <<>>
  BY <1>1, RequestMeansWindows
<1>3. /\ len \in Nat /\ fileEnd \in Nat /\ issued \in Nat /\ issued <= len
      /\ req \in [RequestSlots -> Request] /\ r \in Request /\ r.at \in Nat /\ r.want \in Nat
      /\ r.at + r.want <= issued
  <2>1. req \in [RequestSlots -> Request]
    BY DEF ReadInv, FileTypes
  <2>2. QED
    BY <1>1, <2>1 DEF ReadInv, FileTypes, InRange, Requests, Request
<1>4. count \in 0 .. r.want /\ Bytes(r.at, count) = {x \in Bytes(r.at, r.want) : x < fileEnd}
  BY <1>3, AvailableFacts
<1>5. /\ req' \in [RequestSlots -> Request]
      /\ \A t \in RequestSlots : t # s => req'[t] = req[t]
      /\ req'[s].at = r.at /\ req'[s].want = r.want /\ req'[s].got = count
      /\ req'[s].status \in {"eof", "done"}
  <2>1. req'[s] = [r EXCEPT !.got = count, !.status = IF count = 0 THEN "eof" ELSE "done"]
    BY <1>1, <1>3
  <2>2. [r EXCEPT !.got = count, !.status = IF count = 0 THEN "eof" ELSE "done"] \in Request
    <3>1. count \in Nat /\ r \in Request
      BY <1>3, <1>4
    <3> HIDE DEF count, r
    <3>2. QED
      BY <3>1 DEF Request
  <2>3. \A t \in RequestSlots : t # s => req'[t] = req[t]
    BY <1>1, <1>3
  <2>4. req' \in [RequestSlots -> Request]
    BY <1>1, <1>3, <2>1, <2>2
  <2>5. req'[s].at = r.at /\ req'[s].want = r.want /\ req'[s].got = count
    BY <1>3, <2>1 DEF Request
  <2>6. req'[s].status \in {"eof", "done"}
    BY <1>3, <2>1 DEF Request
  <2>7. QED
    BY <2>3, <2>4, <2>5, <2>6
<1> HIDE DEF count
<1>same. UNCHANGED <<os, len, fileEnd, bufLen, phase, issued, total, eof, inflight, busy, short>>
  BY <1>1
<1>6. \A t \in RequestSlots : /\ req'[t].at = req[t].at /\ req'[t].want = req[t].want
                              /\ req'[t].status # "none" <=> req[t].status # "none"
  BY <1>1, <1>5
<1>7. \A t \in RequestSlots : Asked(t)' = Asked(t)
  BY <1>6 DEF Asked, Bytes
<1>8. Bytes(r.at, r.want) = Asked(s)
  BY <1>1, AskedBelowIssued
<1>9. Bytes(r.at, count) \subseteq 0 .. len - 1
  BY <1>3, <1>4 DEF Bytes
<1>10. FileTypes'
  BY <1>1, <1>5 DEF ReadInv, FileTypes
<1>11. InRange'
  BY <1>1, <1>2, <1>9 DEF ReadInv, InRange
<1>12. TableAgrees'
  <2>1. \A i \in DOMAIN inflight : inflight[i] \in RequestSlots
    BY DEF ReadInv, FileTypes
  <2>2. QED
    BY <1>same, <1>6, <2>1 DEF ReadInv, TableAgrees
<1>13. Requests'
  <2>1. \A t \in RequestSlots : req'[t].status # "none" => req'[t].at + req'[t].want <= issued'
    BY <1>1, <1>6 DEF ReadInv, Requests
  <2>2. \A t \in RequestSlots : req'[t].status \in {"done", "eof"} => req'[t].got = Available(req'[t].at, req'[t].want)
    BY <1>5 DEF ReadInv, Requests, count
  <2>3. QED
    BY <1>same, <1>7, <2>1, <2>2 DEF ReadInv, Requests, Available
<1>14. WindowsLoop'
  <2> SUFFICES ASSUME phase = "loop" PROVE WindowsLoop'
    BY <1>1 DEF WindowsLoop
  <2>1. filled = Landed /\ total = Cardinality(Counted) /\ (eof => fileEnd < issued)
    BY <1>2 DEF ReadInv, WindowsLoop
  <2>2. Read' = Read
    BY <1>1 DEF Read
  <2>3. Counted' = Counted
    BY <1>7, <2>2 DEF Counted
  <2>4. Unfinished(s)' = {} /\ \A t \in RequestSlots : t # s => Unfinished(t)' = Unfinished(t)
    BY <1>5 DEF Unfinished, Bytes
  <2>5. Unfinished(s) = Asked(s)
    BY <1>1 DEF Unfinished, Asked
  <2>6. \A t \in RequestSlots : t # s => Unfinished(t) \cap Asked(s) = {}
    BY AskedBelowIssued DEF ReadInv, Requests
  <2>7. Asked(s) \cap Read = {x \in Asked(s) : x < fileEnd}
    <3>1. \A x \in Asked(s) : x \in 0 .. issued - 1
      BY <1>3, AskedBelowIssued
    <3>2. QED
      BY <3>1 DEF Read
  <2>8. Landed' = Landed \cup (Asked(s) \cap Read)
    BY <2>2, <2>4, <2>5, <2>6 DEF Landed
  <2>9. filled' = Landed'
    BY <1>1, <1>4, <1>8, <2>1, <2>7, <2>8
  <2>10. QED
    BY <1>1, <2>1, <2>3, <2>9 DEF WindowsLoop
<1>15. LinuxLoop' /\ TotalIsPrefix'
  BY <1>1, <1>2 DEF LinuxLoop, TotalIsPrefix
<1>16. QED
  BY <1>1, <1>2, <1>10, <1>11, <1>12, <1>13, <1>14, <1>15 DEF ReadInv

LEMMA BreakStep == ASSUME ReadInv, NEW s \in RequestSlots, Break(s) PROVE ReadInv'
<1>1. /\ req[s].status = "pending" /\ req' = [req EXCEPT ![s].status = "failed"]
      /\ UNCHANGED <<os, len, fileEnd, bufLen, phase, issued, total, eof, inflight, busy, filled, short>>
  BY DEF Break, call, local
<1>2. os = "windows" /\ phase \in {"loop", "drain"}
  BY <1>1, RequestMeansWindows
<1>3. req \in [RequestSlots -> Request] /\ req[s] \in Request
  BY DEF ReadInv, FileTypes
<1>4. req'[s] = [req[s] EXCEPT !.status = "failed"] /\ \A t \in RequestSlots : t # s => req'[t] = req[t]
  BY <1>1, <1>3
<1>5. /\ req'[s].at = req[s].at /\ req'[s].want = req[s].want /\ req'[s].status = "failed" /\ req'[s] \in Request
  BY <1>3, <1>4 DEF Request
<1>6. req' \in [RequestSlots -> Request]
  BY <1>1, <1>3, <1>4, <1>5
<1>7. \A t \in RequestSlots : /\ req'[t].at = req[t].at /\ req'[t].want = req[t].want
                              /\ req'[t].status # "none" <=> req[t].status # "none"
                              /\ req'[t].status \in {"pending", "failed"} <=> req[t].status \in {"pending", "failed"}
  BY <1>1, <1>4, <1>5
<1>8. \A t \in RequestSlots : Asked(t)' = Asked(t) /\ Unfinished(t)' = Unfinished(t)
  BY <1>7 DEF Asked, Unfinished, Bytes
<1>9. FileTypes' /\ InRange'
  BY <1>1, <1>6 DEF ReadInv, FileTypes, InRange
<1>10. TableAgrees'
  <2>1. \A i \in DOMAIN inflight : inflight[i] \in RequestSlots
    BY DEF ReadInv, FileTypes
  <2>2. QED
    BY <1>1, <1>7, <2>1 DEF ReadInv, TableAgrees
<1>11. Requests'
  <2>1. \A t \in RequestSlots : req'[t].status # "none" => req'[t].at + req'[t].want <= issued'
    BY <1>1, <1>7 DEF ReadInv, Requests
  <2>2. \A t \in RequestSlots : req'[t].status \in {"done", "eof"} => req'[t].got = Available(req'[t].at, req'[t].want)
    BY <1>4, <1>5 DEF ReadInv, Requests
  <2>3. QED
    BY <1>1, <1>8, <2>1, <2>2 DEF ReadInv, Requests, Available
<1>12. WindowsLoop'
  <2>1. Landed' = Landed /\ Counted' = Counted
    BY <1>1, <1>8 DEF Landed, Counted, Read
  <2>2. QED
    BY <1>1, <2>1 DEF ReadInv, WindowsLoop
<1>13. LinuxLoop' /\ TotalIsPrefix'
  BY <1>1, <1>2 DEF LinuxLoop, TotalIsPrefix
<1>14. QED
  BY <1>1, <1>2, <1>9, <1>10, <1>11, <1>12, <1>13 DEF ReadInv

\* What is asked for next starts where the last request ended and is not beyond the range.
LEMMA ThisFacts ==
  ASSUME ReadInv, MayIssue
  PROVE  /\ os = "windows" /\ phase = "loop" /\ ~eof
         /\ len \in Nat /\ fileEnd \in Nat /\ issued \in Nat /\ total \in Nat
         /\ This \in Nat /\ This >= 1 /\ issued + This <= len
         /\ filled = Landed /\ total = Cardinality(Counted)
<1>1. /\ os = "windows" /\ phase = "loop" /\ ~eof /\ issued < len
      /\ len \in Nat /\ fileEnd \in Nat /\ issued \in Nat /\ total \in Nat
  BY DEF ReadInv, FileTypes, MayIssue
<1>2. This \in Nat /\ This >= 1 /\ issued + This <= len
  BY <1>1, SizeFacts DEF This, Least
<1>3. filled = Landed /\ total = Cardinality(Counted)
  BY <1>1 DEF ReadInv, WindowsLoop
<1>4. QED
  BY <1>1, <1>2, <1>3

LEMMA IssuePendingStep == ASSUME ReadInv, IssuePending PROVE ReadInv'
<1>k. PICK k \in RequestSlots : k = Slot
  BY SlotIsFree DEF IssuePending
<1> DEFINE new == [at |-> issued, want |-> This, got |-> 0, status |-> "pending"]
           n == Len(inflight)
<1>1. /\ req' = [req EXCEPT ![k] = new] /\ busy' = [busy EXCEPT ![k] = TRUE]
      /\ inflight' = Append(inflight, k) /\ issued' = issued + This /\ MayIssue
  BY <1>k DEF IssuePending
<1>2. UNCHANGED <<os, len, fileEnd, bufLen, phase, total, eof, filled, short>>
  BY DEF IssuePending, call
<1>3. /\ os = "windows" /\ phase = "loop" /\ ~eof
      /\ len \in Nat /\ fileEnd \in Nat /\ issued \in Nat /\ total \in Nat
      /\ This \in Nat /\ This >= 1 /\ issued + This <= len
      /\ filled = Landed /\ total = Cardinality(Counted)
  BY <1>1, ThisFacts
<1>4. k \in RequestSlots /\ req[k].status = "none" /\ ~busy[k]
  BY <1>1, <1>k, SlotIsFree
<1>5. req \in [RequestSlots -> Request] /\ busy \in [RequestSlots -> BOOLEAN] /\ inflight \in Seq(RequestSlots)
  BY DEF ReadInv, FileTypes
<1>6. new \in Request /\ new.at = issued /\ new.want = This /\ new.status = "pending"
  BY <1>3 DEF Request
<1> HIDE DEF new
<1>7. /\ req' \in [RequestSlots -> Request] /\ req'[k] = new
      /\ \A t \in RequestSlots : t # k => req'[t] = req[t]
  BY <1>1, <1>4, <1>5, <1>6
<1>8. /\ busy' \in [RequestSlots -> BOOLEAN] /\ busy'[k] = TRUE
      /\ \A t \in RequestSlots : t # k => busy'[t] = busy[t]
  BY <1>1, <1>4, <1>5
<1>9. /\ inflight' \in Seq(RequestSlots) /\ Len(inflight') = n + 1 /\ n \in Nat
      /\ inflight'[n + 1] = k /\ \A i \in 1 .. n : inflight'[i] = inflight[i] /\ inflight[i] \in RequestSlots
  <2>1. /\ Append(inflight, k) \in Seq(RequestSlots) /\ Len(Append(inflight, k)) = Len(inflight) + 1 /\ Len(inflight) \in Nat
        /\ Append(inflight, k)[Len(inflight) + 1] = k
        /\ \A i \in 1 .. Len(inflight) : Append(inflight, k)[i] = inflight[i]
    BY <1>4, <1>5, Appended
  <2>2. \A i \in 1 .. n : inflight[i] \in RequestSlots
    BY <1>5, ElementOfSeq
  <2>3. QED
    BY <1>1, <2>1, <2>2
<1>10. DOMAIN inflight = 1 .. n /\ DOMAIN inflight' = 1 .. n + 1
  BY <1>5, <1>9, LenProperties
<1>11. \A i \in 1 .. n : inflight[i] # k
  BY <1>4, <1>10 DEF ReadInv, TableAgrees
<1>12. Asked(k) = {} /\ Asked(k)' = Bytes(issued, This)
  <2>1. Asked(k) = {}
    BY <1>4 DEF Asked
  <2>2. req'[k].at = issued /\ req'[k].want = This /\ req'[k].status # "none"
    BY <1>6, <1>7
  <2>3. Asked(k)' = {x \in Bytes(issued, This) : TRUE}
    BY <2>2 DEF Asked, Bytes
  <2>4. QED
    BY <2>1, <2>3
<1>13. \A t \in RequestSlots : t # k => Asked(t)' = Asked(t) /\ Unfinished(t)' = Unfinished(t)
  BY <1>7 DEF Asked, Unfinished, Bytes
<1>14. Unfinished(k) = {} /\ Unfinished(k)' = Bytes(issued, This)
  <2>1. Unfinished(k) = {}
    BY <1>4 DEF Unfinished
  <2>2. req'[k].at = issued /\ req'[k].want = This /\ req'[k].status \in {"pending", "failed"}
    BY <1>6, <1>7
  <2>3. Unfinished(k)' = {x \in Bytes(issued, This) : TRUE}
    BY <2>2 DEF Unfinished, Bytes
  <2>4. QED
    BY <2>1, <2>3
<1>15. \A x \in Bytes(issued, This) : x \in Nat /\ x >= issued /\ x < issued + This
  BY <1>3 DEF Bytes
<1>16. FileTypes'
  BY <1>1, <1>2, <1>3, <1>7, <1>8, <1>9 DEF ReadInv, FileTypes
<1>17. InRange'
  BY <1>1, <1>2, <1>3 DEF ReadInv, InRange
<1>18. TableAgrees'
  <2>1. ASSUME NEW t \in RequestSlots
        PROVE  req'[t].status # "none" <=> \E i \in DOMAIN inflight' : inflight'[i] = t
    <3>1. CASE t = k
      <4>1. n + 1 \in DOMAIN inflight'
        BY <1>9, <1>10
      <4>2. QED
        BY <1>6, <1>7, <1>9, <3>1, <4>1
    <3>2. CASE t # k
      <4>1. req[t].status # "none" <=> \E i \in 1 .. n : inflight[i] = t
        BY <1>10 DEF ReadInv, TableAgrees
      <4>2. \A i \in 1 .. n + 1 : i \in 1 .. n \/ i = n + 1
        BY <1>9
      <4>3. \A i \in 1 .. n : i \in 1 .. n + 1
        BY <1>9
      <4>4. (\E i \in 1 .. n : inflight[i] = t) <=> \E i \in 1 .. n + 1 : inflight'[i] = t
        BY <1>9, <3>2, <4>2, <4>3
      <4>5. QED
        BY <1>7, <1>10, <3>2, <4>1, <4>4
    <3>3. QED
      BY <3>1, <3>2
  <2>2. \A t \in RequestSlots : busy'[t] <=> req'[t].status # "none"
    <3>1. \A t \in RequestSlots : busy[t] <=> req[t].status # "none"
      BY <1>3 DEF ReadInv, TableAgrees
    <3>2. QED
      BY <1>6, <1>7, <1>8, <3>1
  <2>3. ASSUME NEW i \in 1 .. n + 1, NEW j \in 1 .. n + 1, i < j
        PROVE  /\ inflight'[i] # inflight'[j]
               /\ req'[inflight'[i]].at + req'[inflight'[i]].want <= req'[inflight'[j]].at
    <3>1. i \in 1 .. n /\ inflight'[i] = inflight[i] /\ inflight[i] \in RequestSlots /\ inflight[i] # k
      <4>1. i \in 1 .. n
        BY <1>9, <2>3
      <4>2. QED
        BY <1>9, <1>11, <4>1
    <3>2. req'[inflight'[i]] = req[inflight[i]]
      BY <1>7, <3>1
    <3>3. CASE j = n + 1
      <4>1. req[inflight[i]].status # "none"
        BY <1>10, <3>1 DEF ReadInv, TableAgrees
      <4>2. req[inflight[i]].at + req[inflight[i]].want <= issued
        BY <3>1, <4>1 DEF ReadInv, Requests
      <4>3. QED
        BY <1>6, <1>7, <1>9, <3>1, <3>2, <3>3, <4>2
    <3>4. CASE j # n + 1
      <4>1. j \in 1 .. n
        BY <1>9, <3>4
      <4>2. inflight'[j] = inflight[j] /\ req'[inflight'[j]] = req[inflight[j]]
        BY <1>7, <1>9, <1>11, <4>1
      <4>3. /\ inflight[i] # inflight[j]
            /\ req[inflight[i]].at + req[inflight[i]].want <= req[inflight[j]].at
        BY <1>10, <2>3, <3>1, <4>1 DEF ReadInv, TableAgrees
      <4>4. QED
        BY <3>1, <3>2, <4>2, <4>3
    <3>5. QED
      BY <3>3, <3>4
  <2>4. QED
    BY <1>10, <2>1, <2>2, <2>3 DEF TableAgrees
<1>19. Requests'
  <2>1. \A t \in RequestSlots : req'[t].status # "none" => req'[t].at + req'[t].want <= issued + This
    <3>1. \A t \in RequestSlots : req[t].status # "none" => req[t].at + req[t].want <= issued /\ req[t].at \in Nat /\ req[t].want \in Nat
      BY <1>5 DEF ReadInv, Requests, Request
    <3>2. QED
      BY <1>3, <1>6, <1>7, <3>1
  <2>2. \A t \in RequestSlots : req'[t].status \in {"done", "eof"} => req'[t].got = Available(req'[t].at, req'[t].want)
    BY <1>6, <1>7 DEF ReadInv, Requests
  <2>3. \A t \in RequestSlots : Asked(t) \cap Bytes(issued, This) = {}
    BY <1>3, <1>15, AskedBelowIssued
  <2>4. ASSUME NEW t \in RequestSlots, NEW u \in RequestSlots, t # u PROVE Asked(t)' \cap Asked(u)' = {}
    <3>1. Asked(t) \cap Asked(u) = {}
      BY <2>4 DEF ReadInv, Requests
    <3>2. Asked(t)' = IF t = k THEN Bytes(issued, This) ELSE Asked(t)
      BY <1>12, <1>13
    <3>3. Asked(u)' = IF u = k THEN Bytes(issued, This) ELSE Asked(u)
      BY <1>12, <1>13
    <3>4. QED
      BY <2>3, <2>4, <3>1, <3>2, <3>3
  <2>5. QED
    BY <1>1, <1>2, <2>1, <2>2, <2>4 DEF Requests, Available
<1>20. WindowsLoop'
  <2>1. Read = Read' \ Bytes(issued, This)
    <3>1. \A x \in 0 .. issued + This - 1 : x \in 0 .. issued - 1 <=> x \notin Bytes(issued, This)
      BY <1>3 DEF Bytes
    <3>2. \A x \in 0 .. issued - 1 : x \in 0 .. issued + This - 1
      BY <1>3
    <3>3. Read' = {x \in 0 .. issued + This - 1 : x < fileEnd}
      <4>1. issued' = issued + This /\ fileEnd' = fileEnd
        BY <1>1, <1>2
      <4>2. QED
        BY <1>3, <4>1 DEF Read
    <3>4. QED
      BY <3>1, <3>2, <3>3 DEF Read
  <2>2. Landed' = Landed
    <3>1. \A x \in Read' : (\A w \in RequestSlots : x \notin Unfinished(w)') <=>
                             x \notin Bytes(issued, This) /\ \A w \in RequestSlots : x \notin Unfinished(w)
      BY <1>4, <1>13, <1>14
    <3>2. QED
      BY <2>1, <3>1 DEF Landed
  <2>3. Counted' = Counted
    <3>1. \A x \in Read' : (\A w \in RequestSlots : x \notin Asked(w)') <=>
                             x \notin Bytes(issued, This) /\ \A w \in RequestSlots : x \notin Asked(w)
      BY <1>4, <1>12, <1>13
    <3>2. QED
      BY <2>1, <3>1 DEF Counted
  <2>4. QED
    BY <1>2, <1>3, <2>2, <2>3 DEF WindowsLoop
<1>21. LinuxLoop' /\ TotalIsPrefix'
  BY <1>2, <1>3 DEF LinuxLoop, TotalIsPrefix
<1>22. QED
  BY <1>2, <1>3, <1>16, <1>17, <1>18, <1>19, <1>20, <1>21 DEF ReadInv

LEMMA IssueSyncStep == ASSUME ReadInv, IssueSync PROVE ReadInv'
<1> DEFINE count == Available(issued, This)
           got == Bytes(issued, count)
<1>1. /\ filled' = filled \cup got /\ total' = total + count /\ eof' = (count < This)
      /\ issued' = issued + This /\ MayIssue
  BY DEF IssueSync
<1>2. UNCHANGED <<os, len, fileEnd, bufLen, phase, inflight, busy, req, short>>
  BY DEF IssueSync, call
<1>3. /\ os = "windows" /\ phase = "loop" /\ ~eof
      /\ len \in Nat /\ fileEnd \in Nat /\ issued \in Nat /\ total \in Nat
      /\ This \in Nat /\ This >= 1 /\ issued + This <= len
      /\ filled = Landed /\ total = Cardinality(Counted)
  BY <1>1, ThisFacts
<1>4. count \in 0 .. This /\ (count < This => fileEnd < issued + This)
      /\ got = {x \in Bytes(issued, This) : x < fileEnd}
  BY <1>3, AvailableFacts
<1>5. got \subseteq 0 .. len - 1
  BY <1>3, <1>4 DEF Bytes
<1>6. \A t \in RequestSlots : Asked(t)' = Asked(t) /\ Unfinished(t)' = Unfinished(t)
  BY <1>2 DEF Asked, Unfinished, Bytes
<1>7. Read' = Read \cup got
  <2>1. \A x \in 0 .. issued + This - 1 : x \in 0 .. issued - 1 \/ x \in Bytes(issued, This)
    BY <1>3 DEF Bytes
  <2>2. \A x \in Bytes(issued, This) : x \in 0 .. issued + This - 1
    BY <1>3 DEF Bytes
  <2>3. \A x \in 0 .. issued - 1 : x \in 0 .. issued + This - 1
    BY <1>3
  <2>4. Read' = {x \in 0 .. issued + This - 1 : x < fileEnd}
    <3>1. issued' = issued + This /\ fileEnd' = fileEnd
      BY <1>1, <1>2
    <3>2. QED
      BY <1>3, <3>1 DEF Read
  <2>5. QED
    BY <1>4, <2>1, <2>2, <2>3, <2>4 DEF Read
<1>8. \A t \in RequestSlots : Asked(t) \cap got = {} /\ Unfinished(t) \cap got = {}
  <2>1. \A x \in got : x >= issued /\ x \in Nat
    BY <1>3, <1>4 DEF Bytes
  <2>2. QED
    BY <1>3, <2>1, AskedBelowIssued
<1>9. Landed' = Landed \cup got /\ Counted' = Counted \cup got
  BY <1>6, <1>7, <1>8 DEF Landed, Counted
<1>10. total' = Cardinality(Counted')
  <2>1. Counted \cap got = {}
    BY <1>3, <1>4 DEF Counted, Read, Bytes
  <2>2. IsFiniteSet(Counted) /\ count \in Nat
    BY <1>3, <1>4, CountedIsFinite
  <2>3. Cardinality(Counted \cup got) = Cardinality(Counted) + count
    BY <1>3, <2>1, <2>2, CountMore
  <2>4. QED
    BY <1>1, <1>3, <1>9, <2>3
<1> HIDE DEF got, count
<1>11. FileTypes'
  BY <1>1, <1>2, <1>3, <1>4 DEF ReadInv, FileTypes
<1>12. InRange'
  BY <1>1, <1>2, <1>3, <1>5 DEF ReadInv, InRange
<1>13. TableAgrees'
  BY <1>2 DEF ReadInv, TableAgrees
<1>14. Requests'
  <2>1. \A t \in RequestSlots : req[t].status # "none" => req[t].at + req[t].want <= issued + This
    <3>1. \A t \in RequestSlots : req[t] \in Request
      BY DEF ReadInv, FileTypes
    <3>2. \A t \in RequestSlots : req[t].status # "none" => req[t].at + req[t].want <= issued
      BY DEF ReadInv, Requests
    <3>3. QED
      BY <1>3, <3>1, <3>2 DEF Request
  <2>2. QED
    BY <1>1, <1>2, <1>6, <2>1 DEF ReadInv, Requests, Available
<1>15. WindowsLoop'
  BY <1>1, <1>2, <1>3, <1>4, <1>9, <1>10 DEF WindowsLoop
<1>16. LinuxLoop' /\ TotalIsPrefix'
  BY <1>2, <1>3 DEF LinuxLoop, TotalIsPrefix
<1>17. QED
  BY <1>2, <1>3, <1>11, <1>12, <1>13, <1>14, <1>15, <1>16 DEF ReadInv

\* The oldest request leaves the table.
LEMMA OldestLeaves ==
  ASSUME ReadInv, inflight # <<>>, NEW s \in RequestSlots, s = Head(inflight),
         inflight' = Tail(inflight), req' = [req EXCEPT ![s] = NoRequest],
         UNCHANGED <<issued, fileEnd>>
  PROVE  /\ inflight' \in Seq(RequestSlots) /\ req' \in [RequestSlots -> Request]
         /\ req[s].status # "none" /\ req'[s].status = "none"
         /\ \A t \in RequestSlots : t # s => req'[t] = req[t]
         /\ \A t \in RequestSlots : req'[t].status # "none" <=> \E i \in DOMAIN inflight' : inflight'[i] = t
         /\ \A i, j \in DOMAIN inflight' : i < j =>
              /\ inflight'[i] # inflight'[j]
              /\ req'[inflight'[i]].at + req'[inflight'[i]].want <= req'[inflight'[j]].at
         /\ Asked(s)' = {} /\ Unfinished(s)' = {}
         /\ \A t \in RequestSlots : t # s => Asked(t)' = Asked(t) /\ Unfinished(t)' = Unfinished(t)
         /\ Requests'
<1> DEFINE n == Len(inflight)
<1>1. /\ inflight \in Seq(RequestSlots) /\ req \in [RequestSlots -> Request] /\ n \in Nat /\ n # 0
      /\ DOMAIN inflight = 1 .. n /\ \A i \in 1 .. n : inflight[i] \in RequestSlots
  <2>1. inflight \in Seq(RequestSlots) /\ req \in [RequestSlots -> Request]
    BY DEF ReadInv, FileTypes
  <2>2. n \in Nat /\ n # 0 /\ DOMAIN inflight = 1 .. n
    BY <2>1, EmptySeq, LenProperties
  <2>3. \A i \in 1 .. n : inflight[i] \in RequestSlots
    BY <2>1, ElementOfSeq
  <2>4. QED
    BY <2>1, <2>2, <2>3
<1>2. /\ inflight' \in Seq(RequestSlots) /\ Len(inflight') = n - 1 /\ DOMAIN inflight' = 1 .. n - 1
      /\ \A i \in 1 .. n - 1 : inflight'[i] = inflight[i + 1]
      /\ s = inflight[1]
  <2>1. /\ Tail(inflight) \in Seq(RequestSlots) /\ Len(Tail(inflight)) = n - 1
        /\ \A i \in 1 .. n - 1 : Tail(inflight)[i] = inflight[i + 1]
        /\ Head(inflight) = inflight[1]
    BY <1>1, HeadTailProperties
  <2>2. DOMAIN Tail(inflight) = 1 .. n - 1
    BY <2>1, LenProperties
  <2>3. QED
    BY <2>1, <2>2
<1>3. req' \in [RequestSlots -> Request] /\ req'[s] = NoRequest /\ \A t \in RequestSlots : t # s => req'[t] = req[t]
  <2>1. NoRequest \in Request
    BY DEF NoRequest, Request
  <2>2. QED
    BY <1>1, <2>1
<1>4. /\ \A t \in RequestSlots : req[t].status # "none" <=> \E i \in 1 .. n : inflight[i] = t
      /\ \A i, j \in 1 .. n : i < j =>
           /\ inflight[i] # inflight[j]
           /\ req[inflight[i]].at + req[inflight[i]].want <= req[inflight[j]].at
  BY <1>1 DEF ReadInv, TableAgrees
<1>5. 1 \in 1 .. n /\ req[s].status # "none" /\ req'[s].status = "none"
  BY <1>1, <1>2, <1>3, <1>4 DEF NoRequest
<1>6. \A i \in 1 .. n - 1 : i + 1 \in 1 .. n /\ 1 < i + 1 /\ inflight'[i] # s /\ inflight'[i] \in RequestSlots
  <2>1. \A i \in 1 .. n - 1 : i + 1 \in 1 .. n /\ 1 < i + 1
    BY <1>1
  <2>2. QED
    BY <1>1, <1>2, <1>4, <1>5, <2>1
<1>7. ASSUME NEW t \in RequestSlots
      PROVE  req'[t].status # "none" <=> \E i \in 1 .. n - 1 : inflight'[i] = t
  <2>1. CASE t = s
    BY <1>5, <1>6, <2>1
  <2>2. CASE t # s
    <3>1. ASSUME NEW i \in 1 .. n, inflight[i] = t
          PROVE  i - 1 \in 1 .. n - 1 /\ inflight'[i - 1] = t
      <4>1. i # 1
        BY <1>2, <2>2, <3>1
      <4>2. i - 1 \in 1 .. n - 1 /\ (i - 1) + 1 = i
        BY <1>1, <4>1
      <4>3. QED
        BY <1>2, <3>1, <4>2
    <3>2. \A i \in 1 .. n - 1 : inflight'[i] = t => inflight[i + 1] = t /\ i + 1 \in 1 .. n
      BY <1>2, <1>6
    <3>3. (\E i \in 1 .. n : inflight[i] = t) <=> \E i \in 1 .. n - 1 : inflight'[i] = t
      BY <3>1, <3>2
    <3>4. req'[t] = req[t] /\ (req[t].status # "none" <=> \E i \in 1 .. n : inflight[i] = t)
      BY <1>3, <1>4, <2>2
    <3>5. QED
      BY <3>3, <3>4
  <2>3. QED
    BY <2>1, <2>2
<1>8. ASSUME NEW i \in 1 .. n - 1, NEW j \in 1 .. n - 1, i < j
      PROVE  /\ inflight'[i] # inflight'[j]
             /\ req'[inflight'[i]].at + req'[inflight'[i]].want <= req'[inflight'[j]].at
  <2>1. /\ i + 1 \in 1 .. n /\ j + 1 \in 1 .. n /\ i + 1 < j + 1
        /\ inflight'[i] = inflight[i + 1] /\ inflight'[j] = inflight[j + 1]
    BY <1>1, <1>2, <1>8
  <2>2. req'[inflight'[i]] = req[inflight[i + 1]] /\ req'[inflight'[j]] = req[inflight[j + 1]]
    BY <1>3, <1>6, <2>1
  <2>3. QED
    BY <1>4, <2>1, <2>2
<1>9. Asked(s)' = {} /\ Unfinished(s)' = {}
  BY <1>5 DEF Asked, Unfinished
<1>10. \A t \in RequestSlots : t # s => Asked(t)' = Asked(t) /\ Unfinished(t)' = Unfinished(t)
  BY <1>3 DEF Asked, Unfinished, Bytes
<1>11. Requests'
  <2>1. \A t \in RequestSlots : req'[t].status # "none" => req'[t].at + req'[t].want <= issued'
    BY <1>3, <1>5 DEF ReadInv, Requests
  <2>2. \A t \in RequestSlots : req'[t].status \in {"done", "eof"} => req'[t].got = Available(req'[t].at, req'[t].want)
    BY <1>3, <1>5 DEF ReadInv, Requests
  <2>3. ASSUME NEW t \in RequestSlots, NEW u \in RequestSlots, t # u PROVE Asked(t)' \cap Asked(u)' = {}
    <3>1. Asked(t) \cap Asked(u) = {}
      BY <2>3 DEF ReadInv, Requests
    <3>2. QED
      BY <1>9, <1>10, <3>1
  <2>4. QED
    BY <2>1, <2>2, <2>3 DEF Requests, Available
<1>12. QED
  BY <1>2, <1>3, <1>5, <1>7, <1>8, <1>9, <1>10, <1>11

LEMMA WaitStep == ASSUME ReadInv, WaitOldest PROVE ReadInv'
<1>s. PICK s \in RequestSlots : s = Head(inflight)
  <2>1. inflight # <<>> /\ inflight \in Seq(RequestSlots)
    BY DEF WaitOldest, ReadInv, FileTypes
  <2>2. QED
    BY <2>1, HeadTailProperties
<1>1. /\ phase = "loop" /\ inflight # <<>> /\ req[s].status # "pending"
      /\ inflight' = Tail(inflight) /\ busy' = [busy EXCEPT ![s] = FALSE]
      /\ req' = [req EXCEPT ![s] = NoRequest]
      /\ UNCHANGED <<os, len, fileEnd, bufLen, issued, filled, short>>
  BY <1>s DEF WaitOldest, call
<1>2. \/ req[s].status = "failed" /\ phase' = "drain" /\ total' = total /\ eof' = eof
      \/ /\ req[s].status # "failed" /\ phase' = "loop" /\ total' = total + req[s].got
         /\ eof' = (eof \/ req[s].got < req[s].want)
  BY <1>s DEF WaitOldest
<1>3. /\ inflight' \in Seq(RequestSlots) /\ req' \in [RequestSlots -> Request]
      /\ req[s].status # "none" /\ req'[s].status = "none"
      /\ \A t \in RequestSlots : t # s => req'[t] = req[t]
      /\ \A t \in RequestSlots : req'[t].status # "none" <=> \E i \in DOMAIN inflight' : inflight'[i] = t
      /\ \A i, j \in DOMAIN inflight' : i < j =>
           /\ inflight'[i] # inflight'[j]
           /\ req'[inflight'[i]].at + req'[inflight'[i]].want <= req'[inflight'[j]].at
      /\ Asked(s)' = {} /\ Unfinished(s)' = {}
      /\ \A t \in RequestSlots : t # s => Asked(t)' = Asked(t) /\ Unfinished(t)' = Unfinished(t)
      /\ Requests'
  BY <1>s, <1>1, OldestLeaves
<1>4. os = "windows"
  BY <1>3, RequestMeansWindows
<1>5. /\ issued \in Nat /\ total \in Nat /\ fileEnd \in Nat /\ busy \in [RequestSlots -> BOOLEAN]
      /\ req[s] \in Request
  BY DEF ReadInv, FileTypes
<1>6. busy' \in [RequestSlots -> BOOLEAN] /\ busy'[s] = FALSE /\ \A t \in RequestSlots : t # s => busy'[t] = busy[t]
  BY <1>1, <1>5
<1>7. FileTypes'
  <2>1. total' \in Nat /\ eof' \in BOOLEAN /\ phase' \in {"loop", "drain"}
    <3>1. req[s].got \in Nat
      BY <1>5 DEF Request
    <3>2. total' \in Nat /\ phase' \in {"loop", "drain"}
      BY <1>2, <1>5, <3>1
    <3>3. eof' \in BOOLEAN
      <4>1. eof \in BOOLEAN
        BY DEF ReadInv, FileTypes
      <4>2. eof' = eof \/ eof' = (eof \/ req[s].got < req[s].want)
        BY <1>2
      <4>3. QED
        BY <4>1, <4>2, Zenon
    <3>4. QED
      BY <3>2, <3>3
  <2>2. inflight' \in Seq(RequestSlots) /\ req' \in [RequestSlots -> Request]
    BY <1>3
  <2>3. QED
    BY <1>1, <1>6, <2>1, <2>2 DEF ReadInv, FileTypes
<1>8. InRange'
  BY <1>1, <1>2, <1>4 DEF ReadInv, InRange
<1>9. TableAgrees'
  <2>1. \A t \in RequestSlots : busy[t] <=> req[t].status # "none"
    BY <1>1 DEF ReadInv, TableAgrees
  <2>2. \A t \in RequestSlots : busy'[t] <=> req'[t].status # "none"
    BY <1>3, <1>6, <2>1
  <2>3. QED
    BY <1>3, <2>2 DEF TableAgrees
<1>10. WindowsLoop'
  <2> SUFFICES ASSUME phase' = "loop" PROVE filled' = Landed' /\ total' = Cardinality(Counted') /\ (eof' => fileEnd' < issued')
    BY DEF WindowsLoop
  <2> DEFINE r == req[s]
             got == Bytes(r.at, r.got)
  <2>1. /\ r.status \in {"done", "eof"} /\ total' = total + r.got
        /\ eof' = (eof \/ r.got < r.want)
    BY <1>1, <1>2, <1>3, <1>5 DEF Request
  <2>2. /\ r.at \in Nat /\ r.want \in Nat /\ r.got = Available(r.at, r.want) /\ r.at + r.want <= issued
    BY <1>3, <1>5, <2>1 DEF Request, ReadInv, Requests
  <2>3. /\ r.got \in 0 .. r.want /\ (r.got < r.want => fileEnd < r.at + r.want)
        /\ got = {x \in Bytes(r.at, r.want) : x < fileEnd}
    BY <1>5, <2>2, AvailableFacts
  <2>4. filled = Landed /\ total = Cardinality(Counted) /\ (eof => fileEnd < issued)
    BY <1>1, <1>4 DEF ReadInv, WindowsLoop
  <2>5. Read' = Read
    BY <1>1 DEF Read
  <2>6. Landed' = Landed
    <3>1. Unfinished(s) = {}
      BY <2>1 DEF Unfinished
    <3>2. \A t \in RequestSlots : Unfinished(t)' = Unfinished(t)
      BY <1>3, <3>1
    <3>3. QED
      BY <2>5, <3>2 DEF Landed
  <2>7. got = Asked(s) \cap Read
    <3>1. Asked(s) = Bytes(r.at, r.want)
      BY <1>3, AskedBelowIssued
    <3>2. \A x \in Asked(s) : x \in 0 .. issued - 1
      BY <1>5, AskedBelowIssued
    <3>3. QED
      BY <2>3, <3>1, <3>2 DEF Read
  <2> HIDE DEF got, r
  <2>8. Counted' = Counted \cup got
    <3>1. \A t \in RequestSlots : t # s => Asked(t) \cap Asked(s) = {}
      BY DEF ReadInv, Requests
    <3>2. ASSUME NEW x \in Read
          PROVE  (\A t \in RequestSlots : x \notin Asked(t)') <=> (x \in Asked(s) \/ \A t \in RequestSlots : x \notin Asked(t))
      <4>1. \A t \in RequestSlots : x \in Asked(t)' <=> t # s /\ x \in Asked(t)
        BY <1>3
      <4>2. QED
        BY <3>1, <4>1
    <3>3. QED
      BY <2>5, <2>7, <3>2 DEF Counted
  <2>9. Counted \cap got = {}
    BY <2>7 DEF Counted
  <2>10. Cardinality(Counted') = total + r.got
    <3>1. IsFiniteSet(Counted) /\ r.got \in Nat
      BY <1>5, <2>2, <2>3, CountedIsFinite
    <3>2. Cardinality(Counted \cup got) = Cardinality(Counted) + r.got
      BY <2>2, <2>9, <3>1, CountMore DEF got
    <3>3. QED
      BY <2>4, <2>8, <3>2
  <2>11. eof' => fileEnd < issued
    <3>1. eof' => eof \/ r.got < r.want
      BY <2>1
    <3>2. r.got < r.want => fileEnd < issued
      BY <1>5, <2>2, <2>3
    <3>3. QED
      BY <2>4, <3>1, <3>2
  <2>12. QED
    BY <1>1, <2>1, <2>4, <2>6, <2>10, <2>11
<1>11. LinuxLoop' /\ TotalIsPrefix' /\ phase' \notin {"ok", "error"}
  BY <1>1, <1>2, <1>4 DEF LinuxLoop, TotalIsPrefix
<1>12. QED
  BY <1>3, <1>7, <1>8, <1>9, <1>10, <1>11 DEF ReadInv

LEMMA DrainStep == ASSUME ReadInv, DrainOne PROVE ReadInv'
<1>s. PICK s \in RequestSlots : s = Head(inflight)
  <2>1. inflight # <<>> /\ inflight \in Seq(RequestSlots)
    BY DEF DrainOne, ReadInv, FileTypes
  <2>2. QED
    BY <2>1, HeadTailProperties
<1>1. /\ phase = "drain" /\ inflight # <<>>
      /\ inflight' = Tail(inflight) /\ req' = [req EXCEPT ![s] = NoRequest]
      /\ UNCHANGED <<os, len, fileEnd, bufLen, phase, issued, total, eof, busy, filled, short>>
  BY <1>s DEF DrainOne, call
<1>2. /\ inflight' \in Seq(RequestSlots) /\ req' \in [RequestSlots -> Request] /\ req[s].status # "none"
      /\ \A t \in RequestSlots : req'[t].status # "none" <=> \E i \in DOMAIN inflight' : inflight'[i] = t
      /\ \A i, j \in DOMAIN inflight' : i < j =>
           /\ inflight'[i] # inflight'[j]
           /\ req'[inflight'[i]].at + req'[inflight'[i]].want <= req'[inflight'[j]].at
      /\ Requests'
  BY <1>s, <1>1, OldestLeaves
<1>3. os = "windows"
  BY <1>2, RequestMeansWindows
<1>4. FileTypes' /\ InRange'
  BY <1>1, <1>2, <1>3 DEF ReadInv, FileTypes, InRange
<1>5. TableAgrees'
  BY <1>1, <1>2 DEF TableAgrees
<1>6. WindowsLoop' /\ LinuxLoop' /\ TotalIsPrefix'
  BY <1>1, <1>3 DEF WindowsLoop, LinuxLoop, TotalIsPrefix
<1>7. QED
  BY <1>1, <1>2, <1>4, <1>5, <1>6 DEF ReadInv

\* The read gives up, or returns its error: the requests are as they were.
LEMMA FailStep == ASSUME ReadInv, IssueFails \/ ReturnErr \/ PreadFails PROVE ReadInv'
<1>1. /\ \/ phase' = "drain" /\ os = "windows"
         \/ phase' = "error" /\ inflight = <<>>
      /\ phase # "open"
      /\ UNCHANGED <<os, len, fileEnd, bufLen, issued, total, eof, inflight, busy, req, filled, short>>
  BY DEF IssueFails, ReturnErr, PreadFails, MayIssue, MayRead, call, ReadInv, InRange
<1>2. FileTypes' /\ InRange' /\ TableAgrees'
  BY <1>1 DEF ReadInv, FileTypes, InRange, TableAgrees
<1>3. Requests'
  BY <1>1 DEF ReadInv, Requests, Asked, Available, Bytes
<1>4. WindowsLoop' /\ LinuxLoop' /\ TotalIsPrefix'
  BY <1>1 DEF ReadInv, WindowsLoop, LinuxLoop, TotalIsPrefix, Bytes
<1>5. QED
  BY <1>1, <1>2, <1>3, <1>4 DEF ReadInv

\* When nothing is in flight, what was counted and what has landed are the file's bytes
\* below issued.
LEMMA ReturnOkStep == ASSUME ReadInv, ReturnOk PROVE ReadInv'
<1>1. /\ os = "windows" /\ phase = "loop" /\ ~MayIssue /\ inflight = <<>> /\ phase' = "ok"
      /\ UNCHANGED <<os, len, fileEnd, bufLen, issued, total, eof, inflight, busy, req, filled, short>>
  BY DEF ReturnOk, call
<1>2. /\ len \in Nat /\ fileEnd \in Nat /\ issued \in Nat /\ total \in Nat /\ issued <= len
      /\ filled = Landed /\ total = Cardinality(Counted) /\ (eof => fileEnd < issued)
  BY <1>1 DEF ReadInv, FileTypes, InRange, WindowsLoop
<1>3. \A s \in RequestSlots : req[s].status = "none"
  BY <1>1, EmptySeq DEF ReadInv, TableAgrees
<1>4. Landed = Read /\ Counted = Read
  BY <1>3 DEF Landed, Counted, Asked, Unfinished
<1> DEFINE m == Least(issued, fileEnd)
<1>5. m \in Nat /\ Read = 0 .. m - 1
  BY <1>2 DEF Read, Least
<1>6. total = m
  <2>1. 0 \in Int /\ m - 1 \in Int
    BY <1>5
  <2> HIDE DEF m
  <2>2. Cardinality(0 .. m - 1) = IF 0 > m - 1 THEN 0 ELSE m - 1 - 0 + 1
    BY <2>1, FS_Interval
  <2>3. QED
    BY <1>2, <1>4, <1>5, <2>2
<1>7. eof \/ issued = len
  <2>1. Len(inflight) < QD
    BY <1>1, SizeFacts, EmptySeq
  <2>2. QED
    BY <1>1, <1>2, <2>1 DEF MayIssue, ReadInv, FileTypes
<1>8. filled = Bytes(0, total) /\ total = Least(len, fileEnd)
  <2>1. total = Least(len, fileEnd)
    BY <1>2, <1>6, <1>7 DEF Least
  <2>2. Bytes(0, total) = 0 .. m - 1
    BY <1>5, <1>6 DEF Bytes
  <2>3. QED
    BY <1>2, <1>4, <1>5, <2>1, <2>2
<1>9. FileTypes' /\ InRange' /\ TableAgrees'
  BY <1>1 DEF ReadInv, FileTypes, InRange, TableAgrees
<1>10. Requests'
  BY <1>1 DEF ReadInv, Requests, Asked, Available, Bytes
<1>11. WindowsLoop' /\ LinuxLoop' /\ TotalIsPrefix'
  <2>1. TotalIsPrefix'
    BY <1>1, <1>8 DEF TotalIsPrefix, Bytes, Least
  <2>2. QED
    BY <1>1, <2>1 DEF WindowsLoop, LinuxLoop
<1>12. QED
  BY <1>1, <1>9, <1>10, <1>11 DEF ReadInv

\* One pread extends the prefix that has been read.
LEMMA PreadStep == ASSUME ReadInv, Pread \/ PreadShort PROVE ReadInv'
<1> DEFINE most == Available(total, Wanted)
<1>1. PICK count \in Nat :
        /\ filled' = filled \cup Bytes(total, count) /\ total' = total + count
        /\ \/ count = most /\ eof' = (count < Wanted) /\ short' = short
           \/ count < most /\ eof' = TRUE /\ short' = TRUE
  <2>1. CASE Pread
    <3>1. most \in Nat
      <4>1. Wanted \in Nat /\ total \in Nat /\ fileEnd \in Nat
        BY <2>1, SizeFacts DEF Pread, MayRead, Wanted, Least, ReadInv, FileTypes
      <4>2. QED
        BY <4>1, AvailableFacts
    <3>2. QED
      BY <2>1, <3>1 DEF Pread
  <2>2. CASE PreadShort
    <3>1. PICK count \in 1 .. most - 1 : filled' = filled \cup Bytes(total, count) /\ total' = total + count
      BY <2>2 DEF PreadShort
    <3>2. most \in Nat
      <4>1. Wanted \in Nat /\ total \in Nat /\ fileEnd \in Nat
        BY <2>2, SizeFacts DEF PreadShort, MayRead, Wanted, Least, ReadInv, FileTypes
      <4>2. QED
        BY <4>1, AvailableFacts
    <3>3. count \in Nat /\ count < most
      BY <3>1, <3>2
    <3>4. eof' = TRUE /\ short' = TRUE
      BY <2>2 DEF PreadShort
    <3>5. QED
      BY <3>1, <3>3, <3>4
  <2>3. QED
    BY <2>1, <2>2
<1>2. /\ os = "linux" /\ phase = "loop" /\ total < len /\ phase' = phase
      /\ UNCHANGED <<os, len, fileEnd, bufLen, issued, inflight, busy, req>>
  BY DEF Pread, PreadShort, MayRead, call
<1>3. /\ len \in Nat /\ fileEnd \in Nat /\ total \in Nat /\ short \in BOOLEAN /\ eof \in BOOLEAN
      /\ filled = Bytes(0, total) /\ total <= fileEnd
  BY <1>2 DEF ReadInv, FileTypes, LinuxLoop
<1>4. Wanted \in Nat /\ total + Wanted <= len
  BY <1>2, <1>3, SizeFacts DEF Wanted, Least
<1>5. most \in 0 .. Wanted /\ total + most <= fileEnd /\ (most < Wanted => total + most = fileEnd)
  BY <1>3, <1>4 DEF Available, Least
<1> HIDE DEF most
<1>6. count <= most
  BY <1>1, <1>5
<1>7. total' \in Nat /\ total' <= len /\ total' <= fileEnd
  BY <1>1, <1>3, <1>4, <1>5, <1>6
<1>8. filled' = Bytes(0, total') /\ filled' \subseteq 0 .. len - 1
  <2>1. \A x \in Int : x \in Bytes(0, total + count) <=> x \in Bytes(0, total) \/ x \in Bytes(total, count)
    BY <1>3 DEF Bytes
  <2>2. Bytes(0, total) \subseteq Int /\ Bytes(total, count) \subseteq Int /\ Bytes(0, total + count) \subseteq Int
    BY <1>3 DEF Bytes
  <2>3. Bytes(0, total + count) = Bytes(0, total) \cup Bytes(total, count)
    BY <2>1, <2>2
  <2>4. filled' = Bytes(0, total')
    BY <1>1, <1>3, <2>3
  <2>5. Bytes(0, total') \subseteq 0 .. len - 1
    <3>1. total' \in Nat /\ len \in Nat /\ total' <= len
      BY <1>3, <1>7
    <3>2. ASSUME NEW t \in Nat, t <= len PROVE Bytes(0, t) \subseteq 0 .. len - 1
      BY <3>1, <3>2 DEF Bytes
    <3>3. QED
      BY <3>1, <3>2
  <2>6. QED
    BY <2>4, <2>5
<1>9. eof' \in BOOLEAN /\ short' \in BOOLEAN
  <2>1. CASE eof' = (count < Wanted) /\ short' = short
    BY <1>3, <2>1
  <2>2. CASE eof' = TRUE /\ short' = TRUE
    BY <2>2
  <2>3. QED
    BY <1>1, <2>1, <2>2
<1>10. eof' /\ ~short' => total' = fileEnd
  <2>1. eof' /\ ~short' => count = most /\ count < Wanted
    BY <1>1, Zenon
  <2>2. QED
    BY <1>1, <1>5, <2>1
<1>11. FileTypes'
  BY <1>2, <1>7, <1>9 DEF ReadInv, FileTypes
<1>12. InRange'
  BY <1>2, <1>8 DEF ReadInv, InRange
<1>13. TableAgrees'
  BY <1>2 DEF ReadInv, TableAgrees
<1>14. Requests'
  BY <1>2 DEF ReadInv, Requests, Asked, Available, Bytes
<1>15. LinuxLoop'
  BY <1>2, <1>7, <1>8, <1>10 DEF LinuxLoop, Bytes
<1>16. WindowsLoop' /\ TotalIsPrefix'
  BY <1>2 DEF WindowsLoop, TotalIsPrefix
<1>17. QED
  BY <1>2, <1>11, <1>12, <1>13, <1>14, <1>15, <1>16 DEF ReadInv

LEMMA PreadEndStep == ASSUME ReadInv, PreadEnd PROVE ReadInv'
<1>1. /\ os = "linux" /\ phase = "loop" /\ (eof \/ ~(total < len)) /\ phase' = "ok"
      /\ UNCHANGED <<os, len, fileEnd, bufLen, issued, total, eof, inflight, busy, req, filled, short>>
  BY DEF PreadEnd, MayRead, call
<1>2. /\ len \in Nat /\ fileEnd \in Nat /\ total \in Nat /\ inflight = <<>>
      /\ filled = Bytes(0, total) /\ total <= len /\ total <= fileEnd /\ (eof /\ ~short => total = fileEnd)
  BY <1>1 DEF ReadInv, FileTypes, InRange, LinuxLoop
<1>3. ~short => total = Least(len, fileEnd)
  <2>1. CASE eof
    BY <1>2, <2>1 DEF Least
  <2>2. CASE ~(total < len)
    BY <1>2, <2>2 DEF Least
  <2>3. QED
    BY <1>1, <2>1, <2>2
<1>4. FileTypes' /\ InRange' /\ TableAgrees'
  BY <1>1 DEF ReadInv, FileTypes, InRange, TableAgrees
<1>5. Requests'
  BY <1>1 DEF ReadInv, Requests, Asked, Available, Bytes
<1>6. LinuxLoop' /\ WindowsLoop'
  BY <1>1, <1>2 DEF LinuxLoop, WindowsLoop, Bytes
<1>7. TotalIsPrefix'
  BY <1>1, <1>2, <1>3 DEF TotalIsPrefix, Bytes, Least
<1>8. QED
  BY <1>1, <1>2, <1>4, <1>5, <1>6, <1>7 DEF ReadInv

LEMMA ReadInvStep == ReadInv /\ [ReadNext]_readVars => ReadInv'
<1> SUFFICES ASSUME ReadInv, [ReadNext]_readVars PROVE ReadInv'
  OBVIOUS
<1>1. CASE System
  BY <1>1, TransferStep, BreakStep DEF System
<1>2. CASE Open
  BY <1>2, OpenStep
<1>3. CASE Windows
  BY <1>3, IssuePendingStep, IssueSyncStep, WaitStep, DrainStep, FailStep, ReturnOkStep DEF Windows
<1>4. CASE Linux
  BY <1>4, PreadStep, PreadEndStep, FailStep DEF Linux
<1>5. CASE PreadInterrupted \/ Returned \/ UNCHANGED readVars
  BY <1>5, IdleStep DEF PreadInterrupted, Returned
<1>6. QED
  BY <1>1, <1>2, <1>3, <1>4, <1>5 DEF ReadNext, ReadAt

THEOREM ReadInvariance == ReadSpec => []ReadInv
  BY ReadInvInit, ReadInvStep, PTL DEF ReadSpec

\* No request outlives the read, and none writes beyond the range asked for, on any path.
THEOREM DirectNothingPending == ReadSpec => []NothingPendingAfterReturn
<1>1. ReadInv => NothingPendingAfterReturn
  <2> SUFFICES ASSUME ReadInv PROVE NothingPendingAfterReturn
    OBVIOUS
  <2>1. phase \in {"ok", "error"} => \A s \in RequestSlots : req[s].status # "pending"
    BY RequestMeansWindows
  <2>2. filled \subseteq 0 .. len - 1
    BY DEF ReadInv, InRange
  <2>3. ASSUME NEW s \in RequestSlots, req[s].status = "pending" PROVE req[s].at + req[s].want <= bufLen
    <3>1. phase # "open" /\ req[s].at + req[s].want <= issued
      BY <2>3, RequestMeansWindows DEF ReadInv, Requests
    <3>2. issued <= len /\ len <= bufLen /\ issued \in Nat /\ len \in Nat /\ bufLen \in Nat /\ req[s] \in Request
      BY <3>1 DEF ReadInv, InRange, FileTypes
    <3>3. QED
      BY <3>1, <3>2 DEF Request
  <2>4. QED
    BY <2>1, <2>2, <2>3 DEF NothingPendingAfterReturn
<1>2. QED
  BY <1>1, ReadInvariance, PTL

\* The bytes a successful read counts are the first of the range, and all of them but for a
\* pread that came back short.
THEOREM DirectTotalIsPrefix == ReadSpec => []TotalIsPrefix
<1>1. ReadInv => TotalIsPrefix
  BY DEF ReadInv
<1>2. QED
  BY <1>1, ReadInvariance, PTL

\* The table of requests in flight and the busy flags agree, and what is in flight is of
\* distinct bytes, in the order they were asked for.
THEOREM DirectOneRequestPerSlot == ReadSpec => []OneRequestPerSlot
<1>1. ReadInv => OneRequestPerSlot
  BY DEF ReadInv, TableAgrees, OneRequestPerSlot
<1>2. QED
  BY <1>1, ReadInvariance, PTL
=============================================================================
