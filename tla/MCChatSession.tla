--------------------------- MODULE MCChatSession ---------------------------
(* ChatSession for TLC. The constants are given in the .cfg files. *)
EXTENDS ChatSession
=============================================================================
