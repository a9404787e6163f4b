------------------------------- MODULE MCRing -------------------------------
(* Ring for TLC. The constants are given in the .cfg files; a read per     *)
(* pass and slot bounds idx, so no state constraint is needed.             *)
EXTENDS Ring
=============================================================================
