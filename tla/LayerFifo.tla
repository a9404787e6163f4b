----------------------------- MODULE LayerFifo -----------------------------
(***************************************************************************)
(* What the streaming ring promises to the decode thread, without slots,   *)
(* locks or threads: the streamed layers, numbered in the order in which   *)
(* the passes need them, go through a bounded buffer in that order; the    *)
(* consumer holds at most one of them.                                     *)
(***************************************************************************)
EXTENDS Naturals

CONSTANT Capacity

VARIABLES filled,    \* layers made ready so far
          taken,     \* layers the consumer took so far
          released   \* layers it gave back so far

fifo == <<filled, taken, released>>

Init == filled = 0 /\ taken = 0 /\ released = 0

Fill ==
  /\ filled < released + Capacity
  /\ filled' = filled + 1 /\ UNCHANGED <<taken, released>>

Take ==
  /\ taken = released /\ taken < filled
  /\ taken' = taken + 1 /\ UNCHANGED <<filled, released>>

GiveBack ==
  /\ released < taken
  /\ released' = released + 1 /\ UNCHANGED <<filled, taken>>

Next == Fill \/ Take \/ GiveBack

Spec == Init /\ [][Next]_fifo
=============================================================================
