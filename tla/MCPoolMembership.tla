-------------------------- MODULE MCPoolMembership --------------------------
(***************************************************************************)
(* Instances of PoolMembership for TLC.                                     *)
(***************************************************************************)
EXTENDS PoolMembership, TLC

CONSTANTS d, a, b, c

\* Every account calls the pool itself.
DirectCalls == {<<p, p>> : p \in Principals}
=============================================================================
