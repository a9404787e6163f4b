-------------------------------- MODULE Ring --------------------------------
(***************************************************************************)
(* The streaming tier of crates/core/src/tier.rs: a ring of NSlots slots,  *)
(* the I/O thread "aqueduct-io" that refills them and the decode thread    *)
(* that runs pass after pass over the layers (Model::run_layers, prefill   *)
(* and forward_batch all make the same acquire / forward / release loop).  *)
(*                                                                         *)
(* Every slot has a mutex over its SlotState and a condition variable.     *)
(* The critical sections that wait on the condition variable are split at  *)
(* every point where the other thread can run; `stop` and the counters are *)
(* atomics outside the mutexes, so each access to them is a step.          *)
(***************************************************************************)
EXTENDS Integers

CONSTANTS First,        \* the first streamed layer; 0..First-1 are pinned
          NLayer,       \* layers of the model
          NSlots,       \* slots of the ring
          MaxPasses,    \* bound of the model: passes the decode thread makes
          ReadsMayFail  \* whether a read may end in an error or come up short

ASSUME RingAssumption ==
  /\ First \in Nat /\ NLayer \in Nat /\ First < NLayer
  /\ NSlots \in Nat \ {0}
  /\ MaxPasses \in Nat
  /\ ReadsMayFail \in BOOLEAN

Streamed  == First .. NLayer - 1
NStreamed == NLayer - First
Slots     == 0 .. NSlots - 1

SlotOf(layer) == (layer - First) % NSlots

Free == -1   \* SlotState::Free; SlotState::Ready(l) is the layer number l
Torn == -2   \* contents of a slot that hold no complete layer

VARIABLES
  state,     \* [Slots -> SlotState], guarded by the slot's mutex
  owner,     \* [Slots -> thread holding the slot's mutex, or "none"]
  buf,       \* [Slots -> layer whose bytes the slot's memory holds, or Torn]
  stop,      \* the shutdown flag
  reads,     \* reads_per_layer
  consumes,  \* consumes_per_layer
  ioPc, idx, \* the I/O thread: where it is, and its running index
  pc, cur,   \* the decode thread: where it is, and its current layer
  passes,    \* passes the decode thread has finished
  wake       \* slots that shutdown has notified so far

ioVars  == <<ioPc, idx>>
decVars == <<pc, cur, passes, wake>>
vars == <<state, owner, buf, stop, reads, consumes, ioPc, idx, pc, cur, passes, wake>>

\* Mutant of IoLayer: the layers wrap around one too late.
IoLayerOneTooMany == First + (idx % (NStreamed + 1))

\* The layer and the slot the I/O thread is at, and the slot of the decode thread.
IoLayer == First + (idx % NStreamed)
IoSlot  == SlotOf(IoLayer)
CurSlot == SlotOf(cur)

Init ==
  /\ state = [s \in Slots |-> Free]
  /\ owner = [s \in Slots |-> "none"]
  /\ buf = [s \in Slots |-> Torn]
  /\ stop = FALSE
  /\ reads = [l \in Streamed |-> 0]
  /\ consumes = [l \in Streamed |-> 0]
  /\ ioPc = "lock" /\ idx = 0
  /\ pc = "idle" /\ cur = First /\ passes = 0 /\ wake = 0

-----------------------------------------------------------------------------
(* Mutexes and condition variables. A thread asleep on slot s goes back to *)
(* "lock", where it must take the mutex again before it retests.           *)

Lock(s, me)   == owner[s] = "none" /\ owner' = [owner EXCEPT ![s] = me]
Unlock(s, me) == owner[s] = me /\ owner' = [owner EXCEPT ![s] = "none"]

\* Mutants of the notifications: none is sent.
IoNotNotified(s)  == ioPc' = ioPc
DecNotNotified(s) == pc' = pc

IoNotified(s) == ioPc' = IF ioPc = "asleep" /\ IoSlot = s THEN "lock" ELSE ioPc
DecNotified(s) == pc' = IF pc = "asleep" /\ CurSlot = s THEN "lock" ELSE pc

-----------------------------------------------------------------------------
(* The I/O thread.                                                         *)

IoLock ==
  /\ ioPc = "lock" /\ Lock(IoSlot, "io") /\ ioPc' = "test"
  /\ UNCHANGED <<state, buf, stop, reads, consumes, idx, decVars>>

\* Mutant of IoSlotFree: the slot is refilled whatever its state.
IoSlotUntested ==
  /\ ioPc = "test"
  /\ Unlock(IoSlot, "io") /\ ioPc' = "stopcheck"
  /\ UNCHANGED <<state, buf, stop, reads, consumes, idx, decVars>>

IoSlotFree ==
  /\ ioPc = "test" /\ state[IoSlot] = Free
  /\ Unlock(IoSlot, "io") /\ ioPc' = "stopcheck"
  /\ UNCHANGED <<state, buf, stop, reads, consumes, idx, decVars>>

IoSlotBusy ==
  /\ ioPc = "test" /\ state[IoSlot] # Free
  /\ IF stop
     THEN Unlock(IoSlot, "io") /\ ioPc' = "done"
     ELSE ioPc' = "wait" /\ UNCHANGED owner
  /\ UNCHANGED <<state, buf, stop, reads, consumes, idx, decVars>>

IoWait ==
  /\ ioPc = "wait" /\ Unlock(IoSlot, "io") /\ ioPc' = "asleep"
  /\ UNCHANGED <<state, buf, stop, reads, consumes, idx, decVars>>

IoSpuriousWake ==
  /\ ioPc = "asleep" /\ ioPc' = "lock"
  /\ UNCHANGED <<state, owner, buf, stop, reads, consumes, idx, decVars>>

\* The slot is free: read the layer into it unless the ring is stopping.
IoStartRead ==
  /\ ioPc = "stopcheck"
  /\ IF stop
     THEN ioPc' = "done" /\ UNCHANGED buf
     ELSE ioPc' = "read" /\ buf' = [buf EXCEPT ![IoSlot] = Torn]
  /\ UNCHANGED <<state, owner, stop, reads, consumes, idx, decVars>>

IoReadDone ==
  /\ ioPc = "read" /\ ioPc' = "count"
  /\ buf' = [buf EXCEPT ![IoSlot] = IoLayer]
  /\ UNCHANGED <<state, owner, stop, reads, consumes, idx, decVars>>

\* A read error or a short read panics the I/O thread, outside every mutex.
IoReadFails ==
  /\ ReadsMayFail
  /\ ioPc = "read" /\ ioPc' = "dead"
  /\ UNCHANGED <<state, owner, buf, stop, reads, consumes, idx, decVars>>

IoCount ==
  /\ ioPc = "count" /\ ioPc' = "publish"
  /\ reads' = [reads EXCEPT ![IoLayer] = @ + 1]
  /\ UNCHANGED <<state, owner, buf, stop, consumes, idx, decVars>>

IoPublish ==
  /\ ioPc = "publish" /\ owner[IoSlot] = "none"
  /\ state' = [state EXCEPT ![IoSlot] = IoLayer]
  /\ DecNotified(IoSlot)
  /\ ioPc' = "lock" /\ idx' = idx + 1
  /\ UNCHANGED <<owner, buf, stop, reads, consumes, cur, passes, wake>>

Io == \/ IoLock \/ IoSlotFree \/ IoSlotBusy \/ IoWait \/ IoStartRead
      \/ IoReadDone \/ IoReadFails \/ IoCount \/ IoPublish

-----------------------------------------------------------------------------
(* The decode thread: passes over the streamed layers.                     *)

BeginPass ==
  /\ pc = "idle" /\ passes < MaxPasses /\ pc' = "lock" /\ cur' = First
  /\ UNCHANGED <<state, owner, buf, stop, reads, consumes, ioVars, passes, wake>>

AcquireLock ==
  /\ pc = "lock" /\ Lock(CurSlot, "dec") /\ pc' = "test"
  /\ UNCHANGED <<state, buf, stop, reads, consumes, ioVars, cur, passes, wake>>

\* Mutant of AcquireTest: a wakeup is taken for the layer's arrival.
AcquireUntested ==
  /\ pc = "test" /\ Unlock(CurSlot, "dec") /\ pc' = "count"
  /\ UNCHANGED <<state, buf, stop, reads, consumes, ioVars, cur, passes, wake>>

AcquireTest ==
  /\ pc = "test" /\ Unlock(CurSlot, "dec")
  /\ pc' = IF state[CurSlot] = cur THEN "count" ELSE "asleep"
  /\ UNCHANGED <<state, buf, stop, reads, consumes, ioVars, cur, passes, wake>>

AcquireSpuriousWake ==
  /\ pc = "asleep" /\ pc' = "lock"
  /\ UNCHANGED <<state, owner, buf, stop, reads, consumes, ioVars, cur, passes, wake>>

AcquireCount ==
  /\ pc = "count" /\ pc' = "run"
  /\ consumes' = [consumes EXCEPT ![cur] = @ + 1]
  /\ UNCHANGED <<state, owner, buf, stop, reads, ioVars, cur, passes, wake>>

\* The layer's forward has read its weights out of the slot.
RunLayer ==
  /\ pc = "run" /\ pc' = "release"
  /\ UNCHANGED <<state, owner, buf, stop, reads, consumes, ioVars, cur, passes, wake>>

\* release(cur), then the next streamed layer or the end of the pass.
Release ==
  /\ pc = "release" /\ owner[CurSlot] = "none"
  /\ state' = [state EXCEPT ![CurSlot] = Free]
  /\ IoNotified(CurSlot)
  /\ IF cur = NLayer - 1
     THEN pc' = "idle" /\ cur' = First /\ passes' = passes + 1
     ELSE pc' = "lock" /\ cur' = cur + 1 /\ UNCHANGED passes
  /\ UNCHANGED <<owner, buf, stop, reads, consumes, idx, wake>>

(* Shutdown: asked for between passes, or by Drop while a panic unwinds    *)
(* out of a layer's forward.                                               *)
ShutdownBegin ==
  /\ pc \in {"idle", "run"} /\ pc' = "notify" /\ stop' = TRUE
  /\ UNCHANGED <<state, owner, buf, reads, consumes, ioVars, cur, passes, wake>>

\* lock the slot's mutex, notify, unlock: one slot after the other
ShutdownNotify ==
  /\ pc = "notify" /\ wake < NSlots /\ owner[wake] = "none"
  /\ IoNotified(wake) /\ wake' = wake + 1
  /\ UNCHANGED <<state, owner, buf, stop, reads, consumes, idx, pc, cur, passes>>

\* Mutant of ShutdownJoin: the I/O thread is not waited for.
ShutdownDetach ==
  /\ pc = "notify" /\ wake = NSlots /\ pc' = "closed"
  /\ UNCHANGED <<state, owner, buf, stop, reads, consumes, ioVars, cur, passes, wake>>

ShutdownJoin ==
  /\ pc = "notify" /\ wake = NSlots /\ ioPc \in {"done", "dead"} /\ pc' = "closed"
  /\ UNCHANGED <<state, owner, buf, stop, reads, consumes, ioVars, cur, passes, wake>>

Terminated == pc = "closed" /\ UNCHANGED vars

Acquire  == AcquireLock \/ AcquireTest \/ AcquireCount
Shutdown == ShutdownNotify \/ ShutdownJoin

Next ==
  \/ Io \/ IoSpuriousWake
  \/ BeginPass \/ Acquire \/ AcquireSpuriousWake \/ RunLayer \/ Release
  \/ ShutdownBegin \/ Shutdown
  \/ Terminated

Safety == Init /\ [][Next]_vars

(* Both threads are scheduled by the OS: a thread that can take its next   *)
(* step takes it. Nothing is assumed of spurious wakeups, of the start of  *)
(* a pass or of a shutdown, which are the caller's choice, nor of which    *)
(* way a read ends. A mutex is held for a few instructions by one of two   *)
(* threads, so a thread that waits for it needs it again and again free:   *)
(* strong fairness for the three actions that take a contended mutex.      *)
Fairness ==
  /\ WF_vars(Io) /\ SF_vars(IoLock) /\ SF_vars(IoPublish)
  /\ WF_vars(Acquire) /\ SF_vars(AcquireLock)
  /\ WF_vars(RunLayer) /\ SF_vars(Release)
  /\ SF_vars(ShutdownNotify) /\ WF_vars(ShutdownJoin)

Spec == Safety /\ Fairness

-----------------------------------------------------------------------------
(* Properties.                                                             *)

IoPcs  == {"lock", "test", "wait", "asleep", "stopcheck", "read", "count", "publish", "done", "dead"}
DecPcs == {"idle", "lock", "test", "asleep", "count", "run", "release", "notify", "closed"}

\* The type invariant of the ring: every variable stays in its range.
TypeOK ==
  /\ state \in [Slots -> Streamed \cup {Free}]
  /\ owner \in [Slots -> {"none", "io", "dec"}]
  /\ buf \in [Slots -> Streamed \cup {Torn}]
  /\ stop \in BOOLEAN
  /\ reads \in [Streamed -> Nat] /\ consumes \in [Streamed -> Nat]
  /\ ioPc \in IoPcs /\ idx \in Nat
  /\ pc \in DecPcs /\ cur \in Streamed
  /\ passes \in Nat /\ wake \in 0 .. NSlots

\* While the decode thread computes layer `cur`, the weight views it reads hold that
\* layer and nothing is being written over them: the I/O thread never refills a slot
\* between acquire and release (the views of tier.rs are never re-pointed).
ComputeSeesItsLayer ==
  pc \in {"run", "release"} => buf[CurSlot] = cur /\ ~(ioPc = "read" /\ IoSlot = CurSlot)

\* Rule 4: a layer is read for a pass at most once, one prefetch ahead of its
\* consumes, and never consumed without a read of its own.
ReadAhead ==
  \A l \in Streamed : reads[l] \in {consumes[l], consumes[l] + 1}

\* The two assertions of Ring::release hold whenever it runs.
ReleaseAsserts ==
  pc = "release" =>
    /\ state[CurSlot] = cur
    /\ reads[cur] = consumes[cur] \/ reads[cur] = consumes[cur] + 1

\* "After this the counters are final": once shutdown has returned, no read is counted.
CountersFinal == [][pc = "closed" => UNCHANGED <<reads, consumes, buf>>]_vars

\* The decode thread never waits for ever: an acquire returns (its read has arrived).
AcquireReturns == pc = "lock" ~> pc = "run"

\* As long as the I/O thread lives, an acquire returns: no wakeup is lost.
AcquireReturnsUnlessDead == pc = "lock" ~> pc = "run" \/ ioPc = "dead"

\* Shutdown always ends, wherever the I/O thread was when the stop flag went up: on its
\* way to a wait, asleep behind a full ring, or inside a read.
ShutdownCompletes == stop ~> pc = "closed"

(* The ring as a bounded first-in first-out buffer of layers: what was     *)
(* filled, taken and given back so far.                                    *)
released == passes * NStreamed + (cur - First)
taken    == released + (consumes[cur] - passes)

Fifo == INSTANCE LayerFifo WITH Capacity <- NSlots, filled <- idx

\* The ring implements that buffer: layers are published in file order, at most NSlots
\* ahead of what was given back, and taken one at a time in the same order.
ImplementsFifo == Fifo!Spec
=============================================================================
