-------------------------------- MODULE Pool --------------------------------
(***************************************************************************)
(* The worker pool of crates/core/src/kernels/pool.rs: Pool::run called by *)
(* several threads, and its NWorkers background threads. A job is known by *)
(* its generation. `generation` changes under the state mutex only, so     *)
(* what a worker does under it is one step; `remaining` changes outside    *)
(* it, so the caller's lock, test and wait are three. A spinning thread    *)
(* sees the value it spins for or gives up after SPIN_US, at any moment.   *)
(***************************************************************************)
EXTENDS Integers, FiniteSets

CONSTANTS Callers,   \* threads that call run
          NWorkers,  \* background threads
          MaxJobs,   \* bound of the model: jobs run
          MayPanic   \* whether a job may panic in a participant

ASSUME PoolAssumption ==
  /\ NWorkers \in Nat /\ MaxJobs \in Nat /\ MayPanic \in BOOLEAN
  /\ "none" \notin Callers

Workers      == 1 .. NWorkers
Participants == 0 .. NWorkers

NoJob == 0

VARIABLES
  mutex,                     \* the caller holding State's mutex between two steps, or "none"
  job, n,                    \* State: the job's generation or NoJob, its participants
  generation, remaining, panicked,
  caller,                    \* who holds the `caller` mutex
  wpc, seen, wjob, wn,       \* each worker: where it is, the generation it saw, its job and n
  cpc, own, outcome,         \* each caller: where it is, whether its part panicked, what run did
  ran, hurt                  \* history of the job: executions per participant, workers that panicked

shared  == <<mutex, job, n, generation, remaining, panicked>>
worker  == <<wpc, seen, wjob, wn>>
calling == <<cpc, own, outcome>>
history == <<ran, hurt>>
vars    == <<shared, caller, worker, calling, history>>

Init ==
  /\ mutex = "none" /\ job = NoJob /\ n = 0
  /\ generation = 0 /\ remaining = 0 /\ panicked = FALSE
  /\ caller = "none"
  /\ wpc = [w \in Workers |-> "spin"] /\ seen = [w \in Workers |-> 0]
  /\ wjob = [w \in Workers |-> NoJob] /\ wn = [w \in Workers |-> 0]
  /\ cpc = [c \in Callers |-> "idle"] /\ own = [c \in Callers |-> FALSE]
  /\ outcome = [c \in Callers |-> "none"]
  /\ ran = [t \in Participants |-> 0] /\ hurt = {}

WorkerAt(w, from, to) == wpc[w] = from /\ wpc' = [wpc EXCEPT ![w] = to]
CallerAt(c, from, to) == cpc[c] = from /\ cpc' = [cpc EXCEPT ![c] = to]

-----------------------------------------------------------------------------
(* A worker.                                                               *)

SeeJob(w) ==
  /\ generation # seen[w] /\ WorkerAt(w, "spin", "fetch")
  /\ seen' = [seen EXCEPT ![w] = generation]
  /\ UNCHANGED <<shared, caller, wjob, wn, calling, history>>

StopSpinning(w) ==
  /\ generation = seen[w] /\ WorkerAt(w, "spin", "block")
  /\ UNCHANGED <<shared, caller, seen, wjob, wn, calling, history>>

\* Under the mutex: sleep on `start` unless the generation has moved.
Block(w) ==
  /\ mutex = "none"
  /\ WorkerAt(w, "block", IF generation = seen[w] THEN "asleep" ELSE "spin")
  /\ UNCHANGED <<shared, caller, seen, wjob, wn, calling, history>>

WorkerSpuriousWake(w) ==
  /\ WorkerAt(w, "asleep", "block")
  /\ UNCHANGED <<shared, caller, seen, wjob, wn, calling, history>>

Fetch(w) ==
  /\ mutex = "none" /\ WorkerAt(w, "fetch", "run")
  /\ wjob' = [wjob EXCEPT ![w] = job] /\ wn' = [wn EXCEPT ![w] = n]
  /\ UNCHANGED <<shared, caller, seen, calling, history>>

\* The job runs in workers below n; the others only take part in the count.
Execute(w) ==
  /\ WorkerAt(w, "run", "count")
  /\ \E panic \in {FALSE, MayPanic} :
       IF w < wn[w]
       THEN /\ ran' = [ran EXCEPT ![w] = @ + 1]
            /\ panicked' = (panicked \/ panic)
            /\ hurt' = IF panic THEN hurt \cup {w} ELSE hurt
       ELSE UNCHANGED <<panicked, history>>
  /\ UNCHANGED <<mutex, job, n, generation, remaining, caller, seen, wjob, wn, calling>>

CountDown(w) ==
  /\ WorkerAt(w, "count", IF remaining = 1 THEN "signal" ELSE "spin")
  /\ remaining' = remaining - 1
  /\ UNCHANGED <<mutex, job, n, generation, panicked, caller, seen, wjob, wn, calling, history>>

\* The last worker locks the mutex and notifies `done`.
Signal(w) ==
  /\ mutex = "none" /\ WorkerAt(w, "signal", "spin")
  /\ cpc' = [c \in Callers |-> IF cpc[c] = "asleep" THEN "lock" ELSE cpc[c]]
  /\ UNCHANGED <<shared, caller, seen, wjob, wn, own, outcome, history>>

-----------------------------------------------------------------------------
(* run, for two participants or more (with one it calls f and returns).    *)

Enter(c) ==
  /\ caller = "none" /\ generation < MaxJobs
  /\ CallerAt(c, "idle", "publish") /\ caller' = c
  /\ UNCHANGED <<shared, worker, own, outcome, history>>

\* Mutant of Publish: the participants are counted, the caller among them.
PublishCountingCaller(c) ==
  /\ mutex = "none" /\ CallerAt(c, "publish", "notify")
  /\ generation' = generation + 1 /\ job' = generation'
  /\ n' \in 2 .. NWorkers + 1 /\ remaining' = n'
  /\ ran' = [t \in Participants |-> 0] /\ hurt' = {}
  /\ UNCHANGED <<mutex, panicked, caller, worker, own, outcome>>

Publish(c) ==
  /\ mutex = "none" /\ CallerAt(c, "publish", "notify")
  /\ generation' = generation + 1 /\ job' = generation'
  /\ n' \in 2 .. NWorkers + 1 /\ remaining' = NWorkers
  /\ ran' = [t \in Participants |-> 0] /\ hurt' = {}
  /\ UNCHANGED <<mutex, panicked, caller, worker, own, outcome>>

\* Mutant of NotifyAll: notify_one.
NotifyOne(c) ==
  /\ CallerAt(c, "notify", "call")
  /\ IF \E w \in Workers : wpc[w] = "asleep"
     THEN \E w \in Workers : wpc[w] = "asleep" /\ wpc' = [wpc EXCEPT ![w] = "block"]
     ELSE UNCHANGED wpc
  /\ UNCHANGED <<shared, caller, seen, wjob, wn, own, outcome, history>>

NotifyAll(c) ==
  /\ CallerAt(c, "notify", "call")
  /\ wpc' = [w \in Workers |-> IF wpc[w] = "asleep" THEN "block" ELSE wpc[w]]
  /\ UNCHANGED <<shared, caller, seen, wjob, wn, own, outcome, history>>

\* The caller's own part, as participant 0.
CallSelf(c) ==
  /\ CallerAt(c, "call", "spin")
  /\ ran' = [ran EXCEPT ![0] = @ + 1]
  /\ \E panic \in {FALSE, MayPanic} : own' = [own EXCEPT ![c] = panic]
  /\ UNCHANGED <<shared, caller, worker, outcome, hurt>>

\* Mutant of SeeDone: done while one worker still runs.
SeeDoneEarly(c) ==
  /\ remaining <= 1 /\ CallerAt(c, "spin", "clear")
  /\ UNCHANGED <<shared, caller, worker, own, outcome, history>>

SeeDone(c) ==
  /\ remaining = 0 /\ CallerAt(c, "spin", "clear")
  /\ UNCHANGED <<shared, caller, worker, own, outcome, history>>

GiveUpSpinning(c) ==
  /\ remaining > 0 /\ CallerAt(c, "spin", "lock")
  /\ UNCHANGED <<shared, caller, worker, own, outcome, history>>

LockState(c) ==
  /\ mutex = "none" /\ mutex' = c /\ CallerAt(c, "lock", "test")
  /\ UNCHANGED <<job, n, generation, remaining, panicked, caller, worker, own, outcome, history>>

TestRemaining(c) ==
  /\ CallerAt(c, "test", IF remaining > 0 THEN "wait" ELSE "clear")
  /\ mutex' = IF remaining > 0 THEN mutex ELSE "none"
  /\ UNCHANGED <<job, n, generation, remaining, panicked, caller, worker, own, outcome, history>>

Wait(c) ==
  /\ CallerAt(c, "wait", "asleep") /\ mutex' = "none"
  /\ UNCHANGED <<job, n, generation, remaining, panicked, caller, worker, own, outcome, history>>

CallerSpuriousWake(c) ==
  /\ CallerAt(c, "asleep", "lock")
  /\ UNCHANGED <<shared, caller, worker, own, outcome, history>>

\* Mutant of ClearJob: the panic flag is cleared with the job.
ClearJobAndFlag(c) ==
  /\ mutex = "none" /\ CallerAt(c, "clear", "return")
  /\ job' = NoJob /\ panicked' = FALSE
  /\ UNCHANGED <<mutex, n, generation, remaining, caller, worker, own, outcome, history>>

ClearJob(c) ==
  /\ mutex = "none" /\ CallerAt(c, "clear", "return")
  /\ job' = NoJob
  /\ UNCHANGED <<mutex, n, generation, remaining, panicked, caller, worker, own, outcome, history>>

\* The caller's own panic goes on unwinding before the workers' flag is looked at.
Return(c) ==
  /\ CallerAt(c, "return", "idle") /\ caller' = "none"
  /\ IF own[c]
     THEN outcome' = [outcome EXCEPT ![c] = "unwound"] /\ UNCHANGED panicked
     ELSE /\ outcome' = [outcome EXCEPT ![c] = IF panicked THEN "worker panicked" ELSE "ok"]
          /\ panicked' = FALSE
  /\ UNCHANGED <<mutex, job, n, generation, remaining, worker, own, history>>

WorkerStep(w) ==
  \/ SeeJob(w) \/ StopSpinning(w) \/ Block(w) \/ Fetch(w) \/ Execute(w) \/ CountDown(w) \/ Signal(w)

RunStep(c) ==
  \/ Publish(c) \/ NotifyAll(c) \/ CallSelf(c) \/ SeeDone(c) \/ GiveUpSpinning(c)
  \/ LockState(c) \/ TestRemaining(c) \/ Wait(c) \/ ClearJob(c) \/ Return(c)

Idle ==
  /\ generation = MaxJobs /\ caller = "none" /\ \A w \in Workers : wpc[w] = "asleep"
  /\ UNCHANGED vars

Next ==
  \/ \E w \in Workers : WorkerStep(w) \/ WorkerSpuriousWake(w)
  \/ \E c \in Callers : Enter(c) \/ RunStep(c) \/ CallerSpuriousWake(c)
  \/ Idle

Safety == Init /\ [][Next]_vars

(* Every thread is scheduled; the state mutex, held for a few instructions *)
(* at a time, is not withheld from one thread for ever while it is free    *)
(* again and again: strong fairness of each thread's next step. Nothing is *)
(* assumed of spurious wakeups nor of when, or whether, run is called.     *)
Fairness ==
  /\ \A w \in Workers : SF_vars(WorkerStep(w))
  /\ \A c \in Callers : SF_vars(RunStep(c))

Spec == Safety /\ Fairness

-----------------------------------------------------------------------------
(* Properties.                                                             *)

\* The type invariant of the pool.
TypeOK ==
  /\ mutex \in Callers \cup {"none"} /\ caller \in Callers \cup {"none"}
  /\ job \in 0 .. generation /\ n \in Nat
  /\ generation \in 0 .. MaxJobs /\ remaining \in 0 .. NWorkers /\ panicked \in BOOLEAN
  /\ wpc \in [Workers -> {"spin", "block", "asleep", "fetch", "run", "count", "signal"}]
  /\ seen \in [Workers -> Nat] /\ wjob \in [Workers -> Nat] /\ wn \in [Workers -> Nat]
  /\ cpc \in [Callers -> {"idle", "publish", "notify", "call", "spin", "lock", "test", "wait",
                          "asleep", "clear", "return"}]
  /\ own \in [Callers -> BOOLEAN]
  /\ outcome \in [Callers -> {"none", "ok", "unwound", "worker panicked"}]
  /\ ran \in [Participants -> Nat] /\ hurt \subseteq Workers

\* "run returns only when every participant has finished": when it does, participants
\* 0..n-1 have run the job exactly once each and nobody else has.
EveryoneRanOnce ==
  \A c \in Callers : cpc[c] \in {"clear", "return"} =>
    \A t \in Participants : ran[t] = IF t < n THEN 1 ELSE 0

\* The job borrows from the stack of the thread in run: a worker holds a job only while
\* that call of run has not returned, and it is the current job with its own n. One that saw
\* a generation finds its job there ("pool: generation without a job"), and none is skipped.
BorrowIsLive ==
  \A w \in Workers :
    /\ wpc[w] \in {"run", "count"} =>
         /\ wjob[w] = job /\ job # NoJob /\ wn[w] = n
         /\ caller # "none" /\ cpc[caller] \in {"notify", "call", "spin", "lock", "test", "wait", "asleep"}
    /\ wpc[w] = "fetch" => job = generation /\ seen[w] = generation
    /\ seen[w] \in {generation, generation - 1}

\* A panic in a worker is never swallowed: run does not return normally after one.
PanicReachesCaller ==
  [][\A c \in Callers : cpc[c] = "return" /\ cpc'[c] = "idle" /\ outcome'[c] = "ok" => hurt = {}]_vars

\* "A worker panicked inside a job": run says so only when one did, inside this job.
PanicIsOfThisJob ==
  [][\A c \in Callers : cpc[c] = "return" /\ outcome'[c] = "worker panicked" /\ cpc'[c] = "idle"
       => hurt # {}]_vars

\* Every run returns: no wakeup of a worker or of the caller is lost.
RunReturns == \A c \in Callers : cpc[c] = "publish" ~> cpc[c] = "idle"
=============================================================================
