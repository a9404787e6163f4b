---------------------------- MODULE MCDirectFile ----------------------------
(* DirectFile for TLC: reads of up to four chunks, the last one partial,   *)
(* of files that end before, inside and after each of them.                *)
EXTENDS DirectFile
=============================================================================
