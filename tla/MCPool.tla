------------------------------- MODULE MCPool -------------------------------
(* Pool for TLC: two callers, two workers (a job of two participants       *)
(* leaves worker 2 without work), two jobs, so that what the first leaves  *)
(* behind meets the second.                                                *)
EXTENDS Pool

CONSTANTS c1, c2

MCCallers == {c1, c2}
=============================================================================
