----------------------------- MODULE DirectFile -----------------------------
(***************************************************************************)
(* DirectFile and AlignedBuf of crates/core/src/os.rs: one read_at into a  *)
(* buffer, in either of the two builds. On Windows the read is split into  *)
(* overlapped requests of at most Chunk bytes, up to QD of them in flight, *)
(* waited for in the order of issue; on Linux it is a loop of preads. The  *)
(* operating system (ReadFile, GetOverlappedResult, pread, the allocator   *)
(* and the disk) is modelled from how it is used here: an overlapped       *)
(* request ends synchronously, or stays pending and is ended by the disk   *)
(* in any order; a request transfers what the file has, or fails; a pread  *)
(* may be interrupted or come back short. Bytes are numbered from the      *)
(* offset of the call.                                                     *)
(***************************************************************************)
EXTENDS Integers, Sequences

CONSTANTS QdAsked,   \* the queue depth given to open
          ChunkAsked,\* the chunk given to open
          Sector,    \* the device's sector, floored at the page
          Page,      \* bytes of a page
          LargePage, \* bytes of a large page
          Lens,      \* lengths asked for
          FileEnds,  \* bytes the file has from the offset on
          MayFail    \* whether a request may fail

ASSUME DirectFileAssumption ==
  /\ QdAsked \in Nat /\ ChunkAsked \in Nat /\ {Sector, Page, LargePage} \subseteq Nat \ {0}
  /\ Lens \subseteq Nat /\ FileEnds \subseteq Nat /\ MayFail \in BOOLEAN

VARIABLES os,                  \* the build: "windows" or "linux"
          len, fileEnd,        \* the call and the file
          bufLen,              \* bytes of the buffer
          phase,               \* "open", "loop", "drain", "ok", "error"
          issued, total, eof,
          inflight, busy,      \* slots in order of issue; slot_busy
          req,                 \* per slot, the system's side of its OVERLAPPED
          filled,              \* bytes of the buffer that hold the file's bytes
          short                \* history: a pread came back short before the end of the file

local    == <<phase, issued, total, eof, inflight, busy>>
call     == <<os, len, fileEnd, bufLen>>
readVars == <<call, local, req, filled, short>>

Least(a, b)    == IF a < b THEN a ELSE b
Greatest(a, b) == IF a > b THEN a ELSE b
AlignUp(x, a)  == ((x + a - 1) \div a) * a

\* What open makes of the queue depth and the chunk it is given. On Linux one read at a time.
QD           == IF os = "linux" THEN 1 ELSE Greatest(QdAsked, 1)
Chunk        == AlignUp(Greatest(ChunkAsked, Sector), Sector)
RequestSlots == 1 .. Greatest(QdAsked, 1)

NoRequest == [at |-> 0, want |-> 0, got |-> 0, status |-> "none"]

ReadInit ==
  /\ os \in {"windows", "linux"}
  /\ len \in Lens /\ fileEnd \in FileEnds
  /\ bufLen = 0 /\ phase = "open" /\ issued = 0 /\ total = 0 /\ eof = FALSE
  /\ inflight = <<>> /\ busy = [s \in RequestSlots |-> FALSE]
  /\ req = [s \in RequestSlots |-> NoRequest]
  /\ filled = {} /\ short = FALSE

\* The buffer that AlignedBuf::new makes for `asked` bytes: on Windows rounded to large pages
\* when it gets them, else only floored at a page; on Linux rounded to pages either way.
BufferBytes(asked, large) ==
  IF os = "linux" THEN AlignUp(Greatest(asked, Page), Page)
  ELSE IF large THEN AlignUp(Greatest(asked, Page), LargePage)
  ELSE Greatest(asked, Page)

\* A buffer for the read, with large pages or after falling back; read_at refuses a length
\* that does not fit it or is not a multiple of the sector.
Open ==
  /\ phase = "open"
  /\ \E large \in BOOLEAN : bufLen' = BufferBytes(len, large)
  /\ len <= bufLen' /\ len % Sector = 0
  /\ phase' = "loop"
  /\ UNCHANGED <<os, len, fileEnd, issued, total, eof, inflight, busy, req, filled, short>>

\* What a request of `want` bytes at `at` finds in the file.
Available(at, want) == Least(want, IF fileEnd > at THEN fileEnd - at ELSE 0)
Bytes(at, count)    == at .. at + count - 1

-----------------------------------------------------------------------------
(* The disk ends a pending request, in any order.                          *)

Transfer(s) ==
  LET count == Available(req[s].at, req[s].want) IN
  /\ req[s].status = "pending"
  /\ req' = [req EXCEPT ![s].got = count, ![s].status = IF count = 0 THEN "eof" ELSE "done"]
  /\ filled' = filled \cup Bytes(req[s].at, count)
  /\ UNCHANGED <<call, local, short>>

Break(s) ==
  /\ MayFail /\ req[s].status = "pending"
  /\ req' = [req EXCEPT ![s].status = "failed"]
  /\ UNCHANGED <<call, local, filled, short>>

-----------------------------------------------------------------------------
(* Issuing: while a slot is free, data is left and no end was seen. The    *)
(* first slot that is not busy is used.                                    *)

\* Mutant of MayIssue: requests go on after all data was asked for.
MayIssueAlways == os = "windows" /\ phase = "loop" /\ Len(inflight) < QD /\ ~eof

MayIssue == os = "windows" /\ phase = "loop" /\ Len(inflight) < QD /\ issued < len /\ ~eof

This     == Least(len - issued, Chunk)
\* Mutant of Slot: the first slot, busy or not.
FirstSlot == 1

Slot     == CHOOSE s \in RequestSlots : ~busy[s] /\ \A r \in 1 .. s - 1 : busy[r]

IssuePending ==
  /\ MayIssue
  /\ req' = [req EXCEPT ![Slot] = [at |-> issued, want |-> This, got |-> 0, status |-> "pending"]]
  /\ busy' = [busy EXCEPT ![Slot] = TRUE]
  /\ inflight' = Append(inflight, Slot)
  /\ issued' = issued + This
  /\ UNCHANGED <<call, phase, total, eof, filled, short>>

IssueSync ==
  LET count == Available(issued, This) IN
  /\ MayIssue
  /\ filled' = filled \cup Bytes(issued, count)
  /\ total' = total + count
  /\ eof' = (count < This)
  /\ issued' = issued + This
  /\ UNCHANGED <<call, phase, inflight, busy, req, short>>

\* Mutant of IssueFails: every error is taken for the end of the file.
IssueFailsAsEof ==
  /\ MayIssue /\ MayFail /\ eof' = TRUE /\ issued' = issued + This
  /\ UNCHANGED <<call, phase, total, inflight, busy, req, filled, short>>

IssueFails ==
  /\ MayIssue /\ MayFail /\ phase' = "drain"
  /\ UNCHANGED <<call, issued, total, eof, inflight, busy, req, filled, short>>

-----------------------------------------------------------------------------
(* Waiting for the oldest request.                                         *)

WaitOldest ==
  LET s == Head(inflight) IN
  /\ phase = "loop" /\ ~MayIssue /\ inflight # <<>> /\ req[s].status # "pending"
  /\ inflight' = Tail(inflight) /\ busy' = [busy EXCEPT ![s] = FALSE]
  /\ req' = [req EXCEPT ![s] = NoRequest]
  /\ IF req[s].status = "failed"
     THEN phase' = "drain" /\ UNCHANGED <<total, eof>>
     ELSE /\ total' = total + req[s].got
          /\ eof' = (eof \/ req[s].got < req[s].want)
          /\ UNCHANGED phase
  /\ UNCHANGED <<call, issued, filled, short>>

\* Before failing, the requests still in flight are waited for, whatever became of them.
DrainOne ==
  LET s == Head(inflight) IN
  /\ phase = "drain" /\ inflight # <<>> /\ req[s].status # "pending"
  /\ inflight' = Tail(inflight)
  /\ req' = [req EXCEPT ![s] = NoRequest]
  /\ UNCHANGED <<call, phase, issued, total, eof, busy, filled, short>>

\* Mutant of ReturnErr: the requests in flight are not waited for.
ReturnErrAtOnce ==
  /\ phase = "drain" /\ phase' = "error"
  /\ UNCHANGED <<call, issued, total, eof, inflight, busy, req, filled, short>>

ReturnErr ==
  /\ phase = "drain" /\ inflight = <<>> /\ phase' = "error"
  /\ UNCHANGED <<call, issued, total, eof, inflight, busy, req, filled, short>>

ReturnOk ==
  /\ os = "windows" /\ phase = "loop" /\ ~MayIssue /\ inflight = <<>> /\ phase' = "ok"
  /\ UNCHANGED <<call, issued, total, eof, inflight, busy, req, filled, short>>

-----------------------------------------------------------------------------
(* Linux: one pread after another. An end of file, and a pread that comes  *)
(* back short, end the loop; an interrupted one is made again.             *)

Wanted == Least(len - total, Chunk)

MayRead == os = "linux" /\ phase = "loop" /\ total < len /\ ~eof

Pread ==
  LET count == Available(total, Wanted) IN
  /\ MayRead
  /\ filled' = filled \cup Bytes(total, count) /\ total' = total + count
  /\ eof' = (count < Wanted)
  /\ UNCHANGED <<call, phase, issued, inflight, busy, req, short>>

PreadShort ==
  /\ MayRead
  /\ \E count \in 1 .. Available(total, Wanted) - 1 :
       filled' = filled \cup Bytes(total, count) /\ total' = total + count
  /\ eof' = TRUE /\ short' = TRUE
  /\ UNCHANGED <<call, phase, issued, inflight, busy, req>>

PreadInterrupted == MayRead /\ UNCHANGED readVars

PreadFails ==
  /\ MayRead /\ MayFail /\ phase' = "error"
  /\ UNCHANGED <<call, issued, total, eof, inflight, busy, req, filled, short>>

PreadEnd ==
  /\ os = "linux" /\ phase = "loop" /\ ~MayRead /\ phase' = "ok"
  /\ UNCHANGED <<call, issued, total, eof, inflight, busy, req, filled, short>>

Linux == Pread \/ PreadShort \/ PreadFails \/ PreadEnd

-----------------------------------------------------------------------------
Returned == phase \in {"ok", "error"} /\ UNCHANGED readVars

System == \E s \in RequestSlots : Transfer(s) \/ Break(s)
Windows == IssuePending \/ IssueSync \/ IssueFails \/ WaitOldest \/ DrainOne \/ ReturnErr \/ ReturnOk
ReadAt == Open \/ Windows \/ Linux

ReadNext == System \/ ReadAt \/ PreadInterrupted \/ Returned

\* The thread runs, every request in flight ends, and a pread is not interrupted for ever.
ReadSpec == ReadInit /\ [][ReadNext]_readVars /\ WF_readVars(ReadAt) /\ \A s \in RequestSlots : WF_readVars(Transfer(s) \/ Break(s))

-----------------------------------------------------------------------------
(* Properties.                                                             *)

\* "We wait for every request before returning": when read_at has returned, with or
\* without an error, the system writes into the caller's buffer no more; and it never
\* writes beyond the range asked for, which lies inside the buffer.
NothingPendingAfterReturn ==
  /\ phase \in {"ok", "error"} => \A s \in RequestSlots : req[s].status # "pending"
  /\ filled \subseteq 0 .. len - 1
  /\ \A s \in RequestSlots : req[s].status = "pending" => req[s].at + req[s].want <= bufLen

\* Returns "len, or fewer only when the range runs past the end of the file", and the
\* bytes it counts are the first of the range: no later chunk hides a hole left by an
\* earlier one, and no end of file hides a request that failed. A pread that comes back
\* short before the end of the file is the exception: its bytes are all that is returned.
TotalIsPrefix ==
  phase = "ok" => filled = Bytes(0, total) /\ (~short => total = Least(len, fileEnd))

\* The in-flight table and the busy flags agree, and no OVERLAPPED is used for a second
\* request while the first is in flight: the requests in flight are of distinct bytes.
OneRequestPerSlot ==
  phase = "loop" =>
    /\ \A s \in RequestSlots : busy[s] <=> \E i \in DOMAIN inflight : inflight[i] = s
    /\ \A i, j \in DOMAIN inflight : i < j => req[inflight[i]].at + req[inflight[i]].want <= req[inflight[j]].at

\* Every read returns.
ReadReturns == <>(phase \in {"ok", "error"})
=============================================================================
