----------------------------- MODULE PoolProofs -----------------------------
(***************************************************************************)
(* Proofs about Pool for any number of callers, workers and jobs, with or  *)
(* without panics.                                                         *)
(*                                                                         *)
(* The properties speak of the caller that leaves run; what makes them     *)
(* true is the meaning of `remaining`: it is the number of workers that    *)
(* have not counted the current job down, whether they run it, are about   *)
(* to, or have not seen it yet. While there is one, a caller is inside     *)
(* run, between the publication of the job and its removal.                *)
(***************************************************************************)
EXTENDS Pool, FiniteSetTheorems, TLAPS

\* Where a caller is between the publication of its job and the end of its wait.
InJob == {"notify", "call", "spin", "lock", "test", "wait", "asleep"}

\* The workers that still have to count the job down.
Pending == {w \in Workers : seen[w] # generation \/ wpc[w] \in {"fetch", "run", "count"}}

\* The worker's part of the job is behind it.
HasRun(w) == seen[w] = generation /\ wpc[w] \notin {"fetch", "run"}

RemainingIsPending == remaining = Cardinality(Pending)

OneCaller == \A c \in Callers : cpc[c] # "idle" <=> caller = c

PendingHasCaller == Pending # {} => \E c \in Callers : cpc[c] \in InJob

JobOfCaller ==
  \A c \in Callers :
    /\ cpc[c] = "publish" => generation < MaxJobs
    /\ cpc[c] \in InJob \cup {"clear"} => job = generation /\ generation # NoJob
    /\ cpc[c] \in InJob \cup {"clear", "return"} => n \in 2 .. NWorkers + 1

WorkerOnJob ==
  \A w \in Workers :
    /\ seen[w] \in {generation, generation - 1}
    /\ wpc[w] \in {"fetch", "run", "count"} => seen[w] = generation
    /\ wpc[w] \in {"run", "count"} => wjob[w] = job /\ wn[w] = n

RanOfJob ==
  \A c \in Callers :
    cpc[c] \in InJob \cup {"clear", "return"} =>
      /\ ran[0] = IF cpc[c] \in {"notify", "call"} THEN 0 ELSE 1
      /\ \A w \in Workers : ran[w] = IF w < n /\ HasRun(w) THEN 1 ELSE 0

PanicIsKept ==
  \A c \in Callers : cpc[c] \in InJob \cup {"clear", "return"} /\ hurt # {} => panicked

\* The inductive invariant of the pool.
IInv ==
  /\ TypeOK
  /\ RemainingIsPending
  /\ OneCaller
  /\ PendingHasCaller
  /\ JobOfCaller
  /\ WorkerOnJob
  /\ RanOfJob
  /\ PanicIsKept

-----------------------------------------------------------------------------
\* Counting the pending workers.
LEMMA PendingCount ==
  /\ IsFiniteSet(Pending)
  /\ Cardinality(Pending) \in 0 .. NWorkers
  /\ Cardinality(Pending) = 0 <=> Pending = {}
<1>1. IsFiniteSet(Workers) /\ Cardinality(Workers) = NWorkers
  BY PoolAssumption, FS_Interval DEF Workers
<1>2. Pending \subseteq Workers
  BY DEF Pending
<1>3. IsFiniteSet(Pending) /\ Cardinality(Pending) <= NWorkers
  BY <1>1, <1>2, FS_Subset
<1>4. QED
  BY <1>3, FS_CardinalityType, FS_EmptySet, PoolAssumption

\* A pending worker has not been counted, so the counter is above zero.
LEMMA PendingIsCounted == ASSUME IInv, NEW w \in Pending PROVE remaining \in Nat /\ remaining > 0
  BY PendingCount DEF IInv, RemainingIsPending

\* With the counter at zero every worker has counted down the last job.
LEMMA NobodyPending ==
  ASSUME IInv, remaining = 0
  PROVE  \A w \in Workers : seen[w] = generation /\ wpc[w] \notin {"fetch", "run", "count"}
<1>1. Pending = {}
  BY PendingCount DEF IInv, RemainingIsPending
<1>2. QED
  BY <1>1 DEF Pending

LEMMA TypeStep == IInv /\ [Next]_vars => TypeOK'
<1> SUFFICES ASSUME IInv, [Next]_vars PROVE TypeOK'
  OBVIOUS
<1>1. TypeOK
  BY DEF IInv
<1>r. /\ generation \in 0 .. MaxJobs /\ job \in 0 .. generation /\ n \in Nat
      /\ remaining \in 0 .. NWorkers /\ ran \in [Participants -> Nat]
  BY <1>1 DEF TypeOK
<1>n. NWorkers \in Nat /\ MaxJobs \in Nat /\ generation \in Nat /\ job \in Nat /\ n \in Nat
  BY <1>r, PoolAssumption
<1> USE DEF TypeOK, WorkerAt, CallerAt, shared, worker, calling, history
<1>2. ASSUME NEW w \in Workers, SeeJob(w) PROVE TypeOK'
  <2>1. seen' \in [Workers -> Nat]
    BY <1>1, <1>n, <1>2 DEF SeeJob
  <2>2. QED
    BY <1>1, <1>2, <2>1 DEF SeeJob
<1>3. ASSUME NEW w \in Workers, StopSpinning(w) \/ Block(w) \/ WorkerSpuriousWake(w) \/ Signal(w)
      PROVE TypeOK'
  <2>1. CASE StopSpinning(w)
    BY <1>1, <2>1 DEF StopSpinning
  <2>2. CASE Block(w)
    BY <1>1, <2>2 DEF Block
  <2>3. CASE WorkerSpuriousWake(w)
    BY <1>1, <2>3 DEF WorkerSpuriousWake
  <2>4. CASE Signal(w)
    BY <1>1, <2>4 DEF Signal
  <2>5. QED
    BY <1>3, <2>1, <2>2, <2>3, <2>4
<1>4. ASSUME NEW w \in Workers, Fetch(w) PROVE TypeOK'
  <2>1. wjob' \in [Workers -> Nat] /\ wn' \in [Workers -> Nat]
    BY <1>1, <1>n, <1>4 DEF Fetch
  <2>2. QED
    BY <1>1, <1>4, <2>1 DEF Fetch
<1>5. ASSUME NEW w \in Workers, Execute(w) PROVE TypeOK'
  <2>1. w \in Participants
    BY <1>n DEF Workers, Participants
  <2>2. ran' \in [Participants -> Nat]
    BY <1>r, <1>5, <2>1 DEF Execute
  <2>3. hurt' \subseteq Workers
    BY <1>1, <1>5 DEF Execute
  <2>4. panicked' \in BOOLEAN
    BY <1>1, <1>5, PoolAssumption DEF Execute
  <2>5. QED
    BY <1>1, <1>5, <2>2, <2>3, <2>4 DEF Execute
<1>6. ASSUME NEW w \in Workers, CountDown(w) PROVE TypeOK'
  <2>1. w \in Pending
    BY <1>6 DEF CountDown, Pending
  <2>2. remaining > 0
    BY <2>1, PendingIsCounted
  <2>3. remaining' \in 0 .. NWorkers
    BY <1>r, <1>n, <1>6, <2>2 DEF CountDown
  <2>4. QED
    BY <1>1, <1>6, <2>3 DEF CountDown
<1>7. ASSUME NEW c \in Callers,
             Enter(c) \/ NotifyAll(c) \/ SeeDone(c) \/ GiveUpSpinning(c) \/ LockState(c) \/ TestRemaining(c)
               \/ Wait(c) \/ CallerSpuriousWake(c)
      PROVE TypeOK'
  BY <1>1, <1>7, ZenonT(40) DEF Enter, NotifyAll, SeeDone, GiveUpSpinning, LockState, TestRemaining, Wait,
     CallerSpuriousWake
<1>8. ASSUME NEW c \in Callers, Publish(c) PROVE TypeOK'
  <2>1. generation < MaxJobs
    BY <1>8 DEF IInv, JobOfCaller, Publish
  <2>2. generation' \in 0 .. MaxJobs /\ job' \in 0 .. generation'
    BY <1>n, <1>8, <2>1 DEF Publish
  <2>3. n' \in Nat /\ remaining' \in 0 .. NWorkers
    BY <1>n, <1>8 DEF Publish
  <2>4. ran' \in [Participants -> Nat] /\ hurt' \subseteq Workers
    BY <1>8 DEF Publish
  <2>5. QED
    BY <1>1, <1>8, <2>2, <2>3, <2>4 DEF Publish
<1>9. ASSUME NEW c \in Callers, CallSelf(c) PROVE TypeOK'
  <2>1. ran' \in [Participants -> Nat]
    <3>1. 0 \in Participants
      BY <1>n DEF Participants
    <3>2. QED
      BY <1>r, <1>9, <3>1 DEF CallSelf
  <2>2. own' \in [Callers -> BOOLEAN]
    BY <1>1, <1>9, PoolAssumption DEF CallSelf
  <2>3. QED
    BY <1>1, <1>9, <2>1, <2>2 DEF CallSelf
<1>10. ASSUME NEW c \in Callers, ClearJob(c) PROVE TypeOK'
  <2>1. job' \in 0 .. generation'
    BY <1>n, <1>10 DEF ClearJob, NoJob
  <2>2. QED
    BY <1>1, <1>10, <2>1 DEF ClearJob
<1>11. ASSUME NEW c \in Callers, Return(c) PROVE TypeOK'
  BY <1>1, <1>11 DEF Return
<1>12. CASE Idle \/ UNCHANGED vars
  BY <1>1, <1>12 DEF Idle, vars
<1>13. QED
  BY <1>2, <1>3, <1>4, <1>5, <1>6, <1>7, <1>8, <1>9, <1>10, <1>11, <1>12 DEF Next, WorkerStep, RunStep

-----------------------------------------------------------------------------
LEMMA InvInit == Init => IInv
<1> SUFFICES ASSUME Init PROVE IInv
  OBVIOUS
<1>1. TypeOK
  <2>1. job \in 0 .. generation /\ generation \in 0 .. MaxJobs /\ remaining \in 0 .. NWorkers /\ n \in Nat
    BY PoolAssumption DEF Init, NoJob
  <2>2. seen \in [Workers -> Nat] /\ wjob \in [Workers -> Nat] /\ wn \in [Workers -> Nat]
    BY DEF Init, NoJob
  <2>3. ran \in [Participants -> Nat]
    BY DEF Init
  <2>4. QED
    BY <2>1, <2>2, <2>3 DEF Init, TypeOK
<1>2. Pending = {}
  BY DEF Init, Pending
<1>3. RemainingIsPending /\ PendingHasCaller
  BY <1>2, PendingCount DEF Init, RemainingIsPending, PendingHasCaller
<1>4. OneCaller /\ JobOfCaller /\ WorkerOnJob /\ RanOfJob /\ PanicIsKept
  BY PoolAssumption DEF Init, OneCaller, JobOfCaller, WorkerOnJob, RanOfJob, PanicIsKept, InJob
<1>5. QED
  BY <1>1, <1>3, <1>4 DEF IInv

-----------------------------------------------------------------------------
\* A caller that does not leave its stage of run.
Waiting == {"spin", "lock", "test", "wait", "asleep"}

SameStage(c) ==
  \/ cpc'[c] = cpc[c]
  \/ cpc[c] = "notify" /\ cpc'[c] = "call"
  \/ cpc[c] \in Waiting /\ cpc'[c] \in Waiting

\* Steps that move a thread without touching the job, its count or its history.
LEMMA QuietStep ==
  ASSUME IInv, TypeOK',
         UNCHANGED <<job, n, generation, remaining, panicked, caller, ran, hurt>>,
         \A w \in Workers : w \in Pending' <=> w \in Pending,
         \A w \in Workers : HasRun(w)' <=> HasRun(w),
         WorkerOnJob',
         \A c \in Callers : SameStage(c)
  PROVE  IInv'
<1>1. Pending' = Pending
  BY DEF Pending
<1>2. RemainingIsPending'
  BY <1>1 DEF IInv, RemainingIsPending
<1>3. OneCaller'
  BY DEF IInv, OneCaller, SameStage, Waiting
<1>4. PendingHasCaller'
  BY <1>1 DEF IInv, PendingHasCaller, SameStage, Waiting, InJob
<1>5. JobOfCaller'
  BY DEF IInv, JobOfCaller, SameStage, Waiting, InJob
<1>6. RanOfJob'
  BY DEF IInv, RanOfJob, SameStage, Waiting, InJob
<1>7. PanicIsKept'
  BY DEF IInv, PanicIsKept, SameStage, Waiting, InJob
<1>8. QED
  BY <1>2, <1>3, <1>4, <1>5, <1>6, <1>7 DEF IInv

\* The steps of a worker before and after its part of the job.
LEMMA WorkerMovesStep ==
  ASSUME IInv, TypeOK', NEW w \in Workers,
         SeeJob(w) \/ StopSpinning(w) \/ Block(w) \/ WorkerSpuriousWake(w) \/ Fetch(w) \/ Signal(w)
  PROVE  IInv'
<1> USE DEF WorkerAt, shared, worker, calling, history
<1>1. TypeOK /\ WorkerOnJob
  BY DEF IInv
<1>2. UNCHANGED <<job, n, generation, remaining, panicked, caller, ran, hurt>>
  BY DEF SeeJob, StopSpinning, Block, WorkerSpuriousWake, Fetch, Signal
<1>3. \A c \in Callers : SameStage(c)
  BY <1>1 DEF SeeJob, StopSpinning, Block, WorkerSpuriousWake, Fetch, Signal, SameStage, Waiting
<1>4. \A v \in Workers :
         v # w => wpc'[v] = wpc[v] /\ seen'[v] = seen[v] /\ wjob'[v] = wjob[v] /\ wn'[v] = wn[v]
  <2>1. CASE SeeJob(w) \/ StopSpinning(w) \/ Block(w)
    BY <1>1, <2>1, ZenonT(40) DEF SeeJob, StopSpinning, Block, TypeOK
  <2>2. CASE WorkerSpuriousWake(w) \/ Fetch(w) \/ Signal(w)
    BY <1>1, <2>2, ZenonT(40) DEF WorkerSpuriousWake, Fetch, Signal, TypeOK
  <2>3. QED
    BY <2>1, <2>2
<1>5. \/ wpc[w] = "spin" /\ wpc'[w] = "fetch" /\ generation # seen[w] /\ seen'[w] = generation
      \/ /\ wpc[w] \in {"spin", "block", "asleep", "signal"} /\ wpc'[w] \in {"spin", "block", "asleep"}
         /\ seen'[w] = seen[w]
      \/ /\ wpc[w] = "fetch" /\ wpc'[w] = "run" /\ seen'[w] = seen[w]
         /\ wjob'[w] = job /\ wn'[w] = n
  <2>1. CASE SeeJob(w)
    BY <1>1, <2>1 DEF SeeJob, TypeOK
  <2>2. CASE StopSpinning(w)
    BY <1>1, <2>2 DEF StopSpinning, TypeOK
  <2>3. CASE Block(w)
    BY <1>1, <2>3 DEF Block, TypeOK
  <2>4. CASE WorkerSpuriousWake(w)
    BY <1>1, <2>4 DEF WorkerSpuriousWake, TypeOK
  <2>5. CASE Fetch(w)
    BY <1>1, <2>5 DEF Fetch, TypeOK
  <2>6. CASE Signal(w)
    BY <1>1, <2>6 DEF Signal, TypeOK
  <2>7. QED
    BY <2>1, <2>2, <2>3, <2>4, <2>5, <2>6
<1>6. \A v \in Workers : (v \in Pending' <=> v \in Pending) /\ (HasRun(v)' <=> HasRun(v))
  BY <1>2, <1>4, <1>5 DEF Pending, HasRun
<1>7. WorkerOnJob'
  BY <1>1, <1>2, <1>4, <1>5 DEF WorkerOnJob
<1>8. QED
  BY <1>2, <1>3, <1>6, <1>7, QuietStep

\* The steps of a caller inside its wait, and its notification of the workers.
LEMMA CallerMovesStep ==
  ASSUME IInv, TypeOK', NEW c \in Callers,
         \/ NotifyAll(c) \/ GiveUpSpinning(c) \/ LockState(c) \/ Wait(c) \/ CallerSpuriousWake(c)
         \/ TestRemaining(c) /\ remaining > 0
  PROVE  IInv'
<1> USE DEF CallerAt, shared, worker, calling, history
<1>1. TypeOK /\ WorkerOnJob
  BY DEF IInv
<1>2. UNCHANGED <<job, n, generation, remaining, panicked, caller, ran, hurt, seen, wjob, wn>>
  BY DEF NotifyAll, GiveUpSpinning, LockState, Wait, CallerSpuriousWake, TestRemaining
<1>3. \A w \in Workers : wpc'[w] = wpc[w] \/ (wpc[w] = "asleep" /\ wpc'[w] = "block")
  <2>1. CASE NotifyAll(c)
    BY <2>1 DEF NotifyAll
  <2>2. CASE ~NotifyAll(c)
    BY <2>2 DEF GiveUpSpinning, LockState, Wait, CallerSpuriousWake, TestRemaining
  <2>3. QED
    BY <2>1, <2>2
<1>4. \A d \in Callers : SameStage(d)
  <2>1. \A d \in Callers : d # c => cpc'[d] = cpc[d]
    BY <1>1, ZenonT(40) DEF NotifyAll, GiveUpSpinning, LockState, Wait, CallerSpuriousWake, TestRemaining, TypeOK
  <2>2. SameStage(c)
    BY <1>1 DEF NotifyAll, GiveUpSpinning, LockState, Wait, CallerSpuriousWake, TestRemaining, TypeOK,
       SameStage, Waiting
  <2>3. QED
    BY <2>1, <2>2 DEF SameStage
<1>5. \A w \in Workers : (w \in Pending' <=> w \in Pending) /\ (HasRun(w)' <=> HasRun(w))
  BY <1>2, <1>3 DEF Pending, HasRun
<1>6. WorkerOnJob'
  BY <1>1, <1>2, <1>3 DEF WorkerOnJob
<1>7. QED
  BY <1>2, <1>4, <1>5, <1>6, QuietStep

-----------------------------------------------------------------------------
\* The caller mutex admits one caller to run at a time.
LEMMA OnlyCaller ==
  ASSUME IInv, NEW c \in Callers, NEW d \in Callers, cpc[c] # "idle", cpc[d] # "idle"
  PROVE  c = d
  BY DEF IInv, OneCaller

\* Before it has published and once it has seen the count at zero, nobody is pending.
LEMMA NonePending ==
  ASSUME IInv, NEW c \in Callers, cpc[c] \in {"publish", "clear", "return"}
  PROVE  /\ Pending = {}
         /\ \A w \in Workers : seen[w] = generation /\ wpc[w] \notin {"fetch", "run", "count"}
<1>1. \A d \in Callers : cpc[d] \notin InJob
  BY OnlyCaller DEF InJob
<1>2. Pending = {}
  BY <1>1 DEF IInv, PendingHasCaller
<1>3. QED
  BY <1>2 DEF Pending

\* A worker runs the job: its execution is counted, and its panic with it.
LEMMA ExecuteStep == ASSUME IInv, TypeOK', NEW w \in Workers, Execute(w) PROVE IInv'
<1> USE DEF WorkerAt, calling, history
<1>1. TypeOK /\ WorkerOnJob /\ RanOfJob /\ PanicIsKept
  BY DEF IInv
<1>2. UNCHANGED <<job, n, generation, remaining, caller, seen, wjob, wn, cpc>>
  BY DEF Execute
<1>3. wpc[w] = "run" /\ wpc'[w] = "count" /\ \A v \in Workers : v # w => wpc'[v] = wpc[v]
  BY <1>1 DEF Execute, TypeOK
<1>4. Pending' = Pending
  BY <1>2, <1>3 DEF Pending
<1>5. RemainingIsPending' /\ OneCaller' /\ PendingHasCaller' /\ JobOfCaller'
  BY <1>2, <1>4 DEF IInv, RemainingIsPending, OneCaller, PendingHasCaller, JobOfCaller
<1>6. WorkerOnJob'
  BY <1>1, <1>2, <1>3 DEF WorkerOnJob
<1>7. seen[w] = generation /\ wn[w] = n
  BY <1>1, <1>3 DEF WorkerOnJob
<1>8. RanOfJob'
  <2> SUFFICES ASSUME NEW c \in Callers, cpc[c] \in InJob \cup {"clear", "return"}
               PROVE /\ ran'[0] = IF cpc[c] \in {"notify", "call"} THEN 0 ELSE 1
                     /\ \A v \in Workers : ran'[v] = IF v < n /\ HasRun(v)' THEN 1 ELSE 0
    BY <1>2 DEF RanOfJob
  <2>1. /\ ran[0] = IF cpc[c] \in {"notify", "call"} THEN 0 ELSE 1
        /\ \A v \in Workers : ran[v] = IF v < n /\ HasRun(v) THEN 1 ELSE 0
    BY <1>1 DEF RanOfJob
  <2>2. \A v \in Workers : v \in Participants /\ v # 0
    BY DEF Workers, Participants
  <2>3. \A t \in Participants : t # w => ran'[t] = ran[t]
    BY <1>1, ZenonT(40) DEF Execute, TypeOK
  <2>4. 0 \in Participants
    BY PoolAssumption DEF Participants
  <2>5. \A v \in Workers : v # w => (HasRun(v)' <=> HasRun(v))
    BY <1>2, <1>3 DEF HasRun
  <2>6. ~HasRun(w) /\ HasRun(w)'
    BY <1>2, <1>3, <1>7 DEF HasRun
  <2>7. ran[w] = 0
    BY <2>1, <2>6
  <2>8. ran'[w] = IF w < n THEN 1 ELSE 0
    <3>1. ran \in [Participants -> Nat] /\ w \in Participants
      BY <1>1, <2>2 DEF TypeOK
    <3>2. QED
      BY <1>7, <2>7, <3>1 DEF Execute
  <2>9. QED
    BY <2>1, <2>2, <2>3, <2>4, <2>5, <2>6, <2>8
<1>9. PanicIsKept'
  BY <1>1, <1>2 DEF PanicIsKept, Execute
<1>10. QED
  BY <1>5, <1>6, <1>8, <1>9 DEF IInv

\* A worker counts the job down: it is pending no more.
LEMMA CountDownStep == ASSUME IInv, TypeOK', NEW w \in Workers, CountDown(w) PROVE IInv'
<1> USE DEF WorkerAt, calling, history
<1>1. TypeOK /\ WorkerOnJob
  BY DEF IInv
<1>2. UNCHANGED <<job, n, generation, panicked, caller, seen, wjob, wn, cpc, ran, hurt>>
  BY DEF CountDown
<1>3. /\ wpc[w] = "count" /\ wpc'[w] \in {"signal", "spin"} /\ remaining' = remaining - 1
      /\ \A v \in Workers : v # w => wpc'[v] = wpc[v]
  BY <1>1 DEF CountDown, TypeOK
<1>4. seen[w] = generation
  BY <1>1, <1>3 DEF WorkerOnJob
<1>5. w \in Pending /\ Pending' = Pending \ {w}
  BY <1>2, <1>3, <1>4 DEF Pending
<1>6. RemainingIsPending'
  <2>1. Cardinality(Pending \ {w}) = Cardinality(Pending) - 1
    BY <1>5, PendingCount, FS_RemoveElement
  <2>2. QED
    BY <1>3, <1>5, <2>1 DEF IInv, RemainingIsPending
<1>7. OneCaller' /\ PendingHasCaller' /\ JobOfCaller'
  BY <1>2, <1>5 DEF IInv, OneCaller, PendingHasCaller, JobOfCaller
<1>8. WorkerOnJob'
  BY <1>1, <1>2, <1>3 DEF WorkerOnJob
<1>9. \A v \in Workers : HasRun(v)' <=> HasRun(v)
  BY <1>2, <1>3 DEF HasRun
<1>10. RanOfJob' /\ PanicIsKept'
  BY <1>2, <1>9 DEF IInv, RanOfJob, PanicIsKept
<1>11. QED
  BY <1>6, <1>7, <1>8, <1>10 DEF IInv

-----------------------------------------------------------------------------
LEMMA EnterStep == ASSUME IInv, TypeOK', NEW c \in Callers, Enter(c) PROVE IInv'
<1> USE DEF CallerAt, shared, worker, history
<1>1. TypeOK /\ OneCaller
  BY DEF IInv
<1>2. UNCHANGED <<job, n, generation, remaining, panicked, wpc, seen, wjob, wn, ran, hurt>>
  BY DEF Enter
<1>3. caller = "none" /\ caller' = c /\ generation < MaxJobs
  BY DEF Enter
<1>4. \A d \in Callers : cpc[d] = "idle"
  BY <1>1, <1>3, PoolAssumption DEF OneCaller
<1>5. cpc'[c] = "publish" /\ \A d \in Callers : d # c => cpc'[d] = "idle"
  BY <1>1, <1>4 DEF Enter, TypeOK
<1>6. Pending' = Pending
  BY <1>2 DEF Pending
<1>7. RemainingIsPending' /\ WorkerOnJob'
  BY <1>2, <1>6 DEF IInv, RemainingIsPending, WorkerOnJob
<1>8. OneCaller'
  BY <1>3, <1>5 DEF OneCaller
<1>9. PendingHasCaller'
  BY <1>4, <1>6 DEF IInv, PendingHasCaller, InJob
<1>10. JobOfCaller' /\ RanOfJob' /\ PanicIsKept'
  BY <1>2, <1>3, <1>5 DEF JobOfCaller, RanOfJob, PanicIsKept, InJob
<1>11. QED
  BY <1>7, <1>8, <1>9, <1>10 DEF IInv

\* The job is published: every worker is pending.
LEMMA PublishStep == ASSUME IInv, TypeOK', NEW c \in Callers, Publish(c) PROVE IInv'
<1> USE DEF CallerAt, worker
<1>1. TypeOK /\ cpc[c] = "publish" /\ generation \in Nat /\ NWorkers \in Nat
  <2>1. TypeOK /\ cpc[c] = "publish" /\ generation \in 0 .. MaxJobs
    BY DEF IInv, TypeOK, Publish
  <2>2. QED
    BY <2>1, PoolAssumption
<1>2. UNCHANGED <<panicked, caller, wpc, seen, wjob, wn>>
  BY DEF Publish
<1>3. /\ generation' = generation + 1 /\ job' = generation'
      /\ n' \in 2 .. NWorkers + 1 /\ remaining' = NWorkers
      /\ ran' = [t \in Participants |-> 0] /\ hurt' = {}
  BY DEF Publish
<1>4. cpc'[c] = "notify" /\ \A d \in Callers : d # c => cpc'[d] = cpc[d] /\ cpc[d] = "idle"
  BY <1>1, OnlyCaller DEF Publish, TypeOK
<1>5. \A w \in Workers : seen[w] = generation /\ wpc[w] \notin {"fetch", "run", "count"}
  BY <1>1, NonePending
<1>6. RemainingIsPending'
  <2>1. Pending' = Workers
    BY <1>1, <1>2, <1>3, <1>5 DEF Pending
  <2>2. Cardinality(Workers) = NWorkers
    BY <1>1, FS_Interval DEF Workers
  <2>3. QED
    BY <1>3, <2>1, <2>2 DEF RemainingIsPending
<1>7. OneCaller'
  BY <1>1, <1>2, <1>4 DEF IInv, OneCaller
<1>8. PendingHasCaller'
  BY <1>4 DEF PendingHasCaller, InJob
<1>9. JobOfCaller'
  BY <1>1, <1>3, <1>4 DEF JobOfCaller, InJob, NoJob
<1>10. WorkerOnJob'
  BY <1>1, <1>2, <1>3, <1>5 DEF WorkerOnJob
<1>11. RanOfJob'
  <2>1. \A w \in Workers : ~HasRun(w)' /\ ran'[w] = 0
    BY <1>1, <1>2, <1>3, <1>5 DEF HasRun, Workers, Participants
  <2>2. ran'[0] = 0
    BY <1>1, <1>3 DEF Participants
  <2>3. QED
    BY <1>4, <2>1, <2>2 DEF RanOfJob, InJob
<1>12. PanicIsKept'
  BY <1>3 DEF PanicIsKept
<1>13. QED
  BY <1>6, <1>7, <1>8, <1>9, <1>10, <1>11, <1>12 DEF IInv

LEMMA CallSelfStep == ASSUME IInv, TypeOK', NEW c \in Callers, CallSelf(c) PROVE IInv'
<1> USE DEF CallerAt, shared, worker
<1>1. TypeOK /\ cpc[c] = "call" /\ 0 \in Participants
  BY PoolAssumption DEF IInv, CallSelf, Participants
<1>2. UNCHANGED <<job, n, generation, remaining, panicked, caller, wpc, seen, wjob, wn, hurt>>
  BY DEF CallSelf
<1>3. cpc'[c] = "spin" /\ \A d \in Callers : d # c => cpc'[d] = cpc[d] /\ cpc[d] = "idle"
  BY <1>1, OnlyCaller DEF CallSelf, TypeOK
<1>4. Pending' = Pending /\ \A w \in Workers : HasRun(w)' <=> HasRun(w)
  BY <1>2 DEF Pending, HasRun
<1>5. RemainingIsPending' /\ WorkerOnJob'
  BY <1>2, <1>4 DEF IInv, RemainingIsPending, WorkerOnJob
<1>6. OneCaller'
  BY <1>1, <1>2, <1>3 DEF IInv, OneCaller
<1>7. PendingHasCaller'
  BY <1>3 DEF PendingHasCaller, InJob
<1>8. JobOfCaller'
  BY <1>1, <1>2, <1>3 DEF IInv, JobOfCaller, InJob
<1>9. RanOfJob'
  <2>1. ran[0] = 0 /\ \A w \in Workers : ran[w] = IF w < n /\ HasRun(w) THEN 1 ELSE 0
    BY <1>1 DEF IInv, RanOfJob, InJob
  <2>2. ran'[0] = 1 /\ \A w \in Workers : ran'[w] = ran[w]
    <3>1. ran \in [Participants -> Nat]
      BY <1>1 DEF TypeOK
    <3>2. \A w \in Workers : w # 0 /\ w \in Participants
      BY DEF Workers, Participants
    <3>3. QED
      BY <1>1, <2>1, <3>1, <3>2 DEF CallSelf
  <2>3. QED
    BY <1>2, <1>3, <1>4, <2>1, <2>2 DEF RanOfJob, InJob
<1>10. PanicIsKept'
  BY <1>1, <1>2, <1>3 DEF IInv, PanicIsKept, InJob
<1>11. QED
  BY <1>5, <1>6, <1>7, <1>8, <1>9, <1>10 DEF IInv

\* The caller sees the counter at zero, spinning or under the mutex.
LEMMA DoneStep ==
  ASSUME IInv, TypeOK', NEW c \in Callers, SeeDone(c) \/ (TestRemaining(c) /\ remaining = 0)
  PROVE  IInv'
<1> USE DEF CallerAt, shared, worker, history
<1>1. TypeOK /\ cpc[c] \in {"spin", "test"} /\ remaining = 0
  BY DEF IInv, SeeDone, TestRemaining
<1>2. UNCHANGED <<job, n, generation, remaining, panicked, caller, wpc, seen, wjob, wn, ran, hurt>>
  BY DEF SeeDone, TestRemaining
<1>3. cpc'[c] = "clear" /\ \A d \in Callers : d # c => cpc'[d] = cpc[d] /\ cpc[d] = "idle"
  <2>1. cpc' = [cpc EXCEPT ![c] = "clear"]
    BY <1>1 DEF SeeDone, TestRemaining
  <2>2. cpc \in [Callers -> {"idle", "publish", "notify", "call", "spin", "lock", "test", "wait", "asleep",
                             "clear", "return"}]
    BY <1>1 DEF TypeOK
  <2>3. QED
    BY <1>1, <2>1, <2>2, OnlyCaller
<1>4. Pending' = Pending /\ Pending = {} /\ \A w \in Workers : HasRun(w)' <=> HasRun(w)
  BY <1>1, <1>2, PendingCount DEF IInv, RemainingIsPending, Pending, HasRun
<1>5. RemainingIsPending' /\ WorkerOnJob' /\ PendingHasCaller'
  BY <1>2, <1>4 DEF IInv, RemainingIsPending, WorkerOnJob, PendingHasCaller
<1>6. OneCaller'
  BY <1>1, <1>2, <1>3 DEF IInv, OneCaller
<1>7. JobOfCaller'
  BY <1>1, <1>2, <1>3 DEF IInv, JobOfCaller, InJob
<1>8. RanOfJob'
  BY <1>1, <1>2, <1>3, <1>4 DEF IInv, RanOfJob, InJob
<1>9. PanicIsKept'
  BY <1>1, <1>2, <1>3 DEF IInv, PanicIsKept, InJob
<1>10. QED
  BY <1>5, <1>6, <1>7, <1>8, <1>9 DEF IInv

LEMMA ClearJobStep == ASSUME IInv, TypeOK', NEW c \in Callers, ClearJob(c) PROVE IInv'
<1> USE DEF CallerAt, worker, history
<1>1. TypeOK /\ cpc[c] = "clear"
  BY DEF IInv, ClearJob
<1>2. UNCHANGED <<n, generation, remaining, panicked, caller, wpc, seen, wjob, wn, ran, hurt>>
  BY DEF ClearJob
<1>3. cpc'[c] = "return" /\ \A d \in Callers : d # c => cpc'[d] = cpc[d] /\ cpc[d] = "idle"
  BY <1>1, OnlyCaller DEF ClearJob, TypeOK
<1>4. Pending = {} /\ \A w \in Workers : seen[w] = generation /\ wpc[w] \notin {"fetch", "run", "count"}
  BY <1>1, NonePending
<1>5. Pending' = Pending /\ \A w \in Workers : HasRun(w)' <=> HasRun(w)
  BY <1>2 DEF Pending, HasRun
<1>6. RemainingIsPending' /\ PendingHasCaller'
  BY <1>2, <1>4, <1>5 DEF IInv, RemainingIsPending, PendingHasCaller
<1>7. WorkerOnJob'
  BY <1>2, <1>4 DEF WorkerOnJob
<1>8. OneCaller'
  BY <1>1, <1>2, <1>3 DEF IInv, OneCaller
<1>9. JobOfCaller'
  BY <1>1, <1>2, <1>3 DEF IInv, JobOfCaller, InJob
<1>10. RanOfJob' /\ PanicIsKept'
  BY <1>1, <1>2, <1>3, <1>5 DEF IInv, RanOfJob, PanicIsKept, InJob
<1>11. QED
  BY <1>6, <1>7, <1>8, <1>9, <1>10 DEF IInv

LEMMA ReturnStep == ASSUME IInv, TypeOK', NEW c \in Callers, Return(c) PROVE IInv'
<1> USE DEF CallerAt, worker, history
<1>1. TypeOK /\ cpc[c] = "return" /\ caller' = "none"
  BY DEF IInv, Return
<1>2. UNCHANGED <<job, n, generation, remaining, wpc, seen, wjob, wn, ran, hurt>>
  BY DEF Return
<1>3. \A d \in Callers : cpc'[d] = "idle"
  BY <1>1, OnlyCaller DEF Return, TypeOK
<1>4. Pending' = Pending /\ Pending = {}
  BY <1>1, <1>2, NonePending DEF Pending
<1>5. RemainingIsPending' /\ WorkerOnJob' /\ PendingHasCaller'
  BY <1>2, <1>4 DEF IInv, RemainingIsPending, WorkerOnJob, PendingHasCaller
<1>6. OneCaller'
  BY <1>1, <1>3, PoolAssumption DEF OneCaller
<1>7. JobOfCaller' /\ RanOfJob' /\ PanicIsKept'
  BY <1>3 DEF JobOfCaller, RanOfJob, PanicIsKept, InJob
<1>8. QED
  BY <1>5, <1>6, <1>7 DEF IInv

LEMMA InvStep == IInv /\ [Next]_vars => IInv'
<1> SUFFICES ASSUME IInv, [Next]_vars PROVE IInv'
  OBVIOUS
<1>1. TypeOK'
  BY TypeStep
<1>2. ASSUME NEW w \in Workers, WorkerStep(w) \/ WorkerSpuriousWake(w) PROVE IInv'
  BY <1>1, <1>2, WorkerMovesStep, ExecuteStep, CountDownStep DEF WorkerStep
<1>3. ASSUME NEW c \in Callers, Enter(c) \/ RunStep(c) \/ CallerSpuriousWake(c) PROVE IInv'
  <2>1. remaining = 0 \/ remaining > 0
    <3>1. remaining \in 0 .. NWorkers
      BY DEF IInv, TypeOK
    <3>2. QED
      BY <3>1, PoolAssumption
  <2>2. QED
    BY <1>1, <1>3, <2>1, CallerMovesStep, EnterStep, PublishStep, CallSelfStep, DoneStep, ClearJobStep,
       ReturnStep DEF RunStep
<1>4. CASE Idle \/ UNCHANGED vars
  <2>1. UNCHANGED vars
    BY <1>4 DEF Idle
  <2>2. QED
    BY <1>1, <2>1 DEF vars, shared, worker, calling, history, IInv, RemainingIsPending, OneCaller,
       PendingHasCaller, JobOfCaller, WorkerOnJob, RanOfJob, PanicIsKept, Pending, HasRun
<1>5. QED
  BY <1>2, <1>3, <1>4 DEF Next

LEMMA Invariance == Safety => []IInv
  BY InvInit, InvStep, PTL DEF Safety

-----------------------------------------------------------------------------
\* Every variable of the pool stays in its range; in particular `remaining`, a usize,
\* never goes below zero.
THEOREM PoolTypeOK == Safety => []TypeOK
<1>1. IInv => TypeOK
  BY DEF IInv
<1>2. QED
  BY <1>1, Invariance, PTL

\* When run is about to clear its job and return, participants 0..n-1 have run it exactly
\* once each and nobody else has, for any number of workers, callers and earlier jobs.
THEOREM PoolEveryoneRanOnce == Safety => []EveryoneRanOnce
<1>1. IInv => EveryoneRanOnce
  <2> SUFFICES ASSUME IInv, NEW c \in Callers, cpc[c] \in {"clear", "return"}, NEW t \in Participants
               PROVE ran[t] = IF t < n THEN 1 ELSE 0
    BY DEF EveryoneRanOnce
  <2>1. /\ ran[0] = 1 /\ n \in 2 .. NWorkers + 1
        /\ \A w \in Workers : ran[w] = IF w < n /\ HasRun(w) THEN 1 ELSE 0
    BY DEF IInv, RanOfJob, JobOfCaller, InJob
  <2>2. \A w \in Workers : HasRun(w)
    BY NonePending DEF HasRun
  <2>3. t = 0 \/ t \in Workers
    BY PoolAssumption DEF Participants, Workers
  <2>4. QED
    BY <2>1, <2>2, <2>3
<1>2. QED
  BY <1>1, Invariance, PTL

\* The lifetime that Pool::run promises its workers by an unsafe transmute: a worker holds
\* the closure only while the call of run it was borrowed from has not returned.
THEOREM PoolBorrowIsLive == Safety => []BorrowIsLive
<1>1. IInv => BorrowIsLive
  <2> SUFFICES ASSUME IInv, NEW w \in Workers
      PROVE /\ wpc[w] \in {"run", "count"} =>
                 /\ wjob[w] = job /\ job # NoJob /\ wn[w] = n
                 /\ caller # "none"
                 /\ cpc[caller] \in {"notify", "call", "spin", "lock", "test", "wait", "asleep"}
            /\ wpc[w] = "fetch" => job = generation /\ seen[w] = generation
            /\ seen[w] \in {generation, generation - 1}
    BY DEF BorrowIsLive
  <2>1. CASE wpc[w] \in {"fetch", "run", "count"}
    <3>1. w \in Pending
      BY <2>1 DEF Pending
    <3>2. PICK c \in Callers : cpc[c] \in InJob
      BY <3>1 DEF IInv, PendingHasCaller
    <3>3. caller = c /\ job = generation /\ generation # NoJob
      BY <3>2 DEF IInv, OneCaller, JobOfCaller, InJob
    <3>4. QED
      BY <2>1, <3>2, <3>3, PoolAssumption DEF IInv, WorkerOnJob, InJob
  <2>2. CASE wpc[w] \notin {"fetch", "run", "count"}
    BY <2>2 DEF IInv, WorkerOnJob
  <2>3. QED
    BY <2>1, <2>2
<1>2. QED
  BY <1>1, Invariance, PTL

\* A run whose job panicked in a worker never returns normally.
THEOREM PoolPanicReachesCaller == Safety => PanicReachesCaller
<1>1. IInv /\ [Next]_vars
        => [\A c \in Callers : cpc[c] = "return" /\ cpc'[c] = "idle" /\ outcome'[c] = "ok" => hurt = {}]_vars
  <2> SUFFICES ASSUME IInv, Next, NEW c \in Callers, cpc[c] = "return", cpc'[c] = "idle", outcome'[c] = "ok"
               PROVE hurt = {}
    OBVIOUS
  <2>1. /\ outcome \in [Callers -> {"none", "ok", "unwound", "worker panicked"}]
        /\ cpc \in [Callers -> {"idle", "publish", "notify", "call", "spin", "lock", "test", "wait",
                                "asleep", "clear", "return"}]
    BY DEF IInv, TypeOK
  \* only Return leaves the point, and it is this caller's
  <2>2. CASE \E w \in Workers : WorkerStep(w) \/ WorkerSpuriousWake(w)
    <3>1. cpc'[c] # "idle"
      BY <2>2 DEF WorkerStep, WorkerSpuriousWake, SeeJob, StopSpinning, Block, Fetch, Execute, CountDown, Signal,
         calling
    <3>2. QED
      BY <3>1
  <2>3. CASE \E d \in Callers : Enter(d) \/ RunStep(d) \/ CallerSpuriousWake(d)
    <3>1. PICK d \in Callers : Enter(d) \/ RunStep(d) \/ CallerSpuriousWake(d)
      BY <2>3
    <3>2. cpc' = [cpc EXCEPT ![d] = cpc'[d]] /\ d = c
      BY <2>1, <3>1 DEF Enter, RunStep, CallerSpuriousWake, Publish, NotifyAll, CallSelf, SeeDone, GiveUpSpinning,
         LockState, TestRemaining, Wait, ClearJob, Return, CallerAt
    <3>3. Return(c)
      BY <3>1, <3>2 DEF Enter, RunStep, CallerSpuriousWake, Publish, NotifyAll, CallSelf, SeeDone, GiveUpSpinning,
         LockState, TestRemaining, Wait, ClearJob, CallerAt
    <3>4. ~panicked
      BY <2>1, <3>3 DEF Return
    <3>5. QED
      BY <3>4 DEF IInv, PanicIsKept
  <2>4. CASE Idle
    BY <2>4 DEF Idle, vars, calling
  <2>5. QED
    BY <2>2, <2>3, <2>4 DEF Next
<1>2. QED
  BY <1>1, Invariance, PTL DEF Safety, PanicReachesCaller
=============================================================================
