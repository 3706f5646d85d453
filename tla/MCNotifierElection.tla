------------------------- MODULE MCNotifierElection -------------------------
(***************************************************************************)
(* An instance of NotifierElection for TLC: four members, none of whom is   *)
(* interchangeable with another.                                            *)
(***************************************************************************)
EXTENDS NotifierElection, TLC

CONSTANTS d, a, b, c
=============================================================================
