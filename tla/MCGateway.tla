----------------------------- MODULE MCGateway -----------------------------
(***************************************************************************)
(* Instances of Gateway for TLC: two requests of one user, who share the   *)
(* user's single frozen counter.                                           *)
(***************************************************************************)
EXTENDS Gateway, TLC

CONSTANTS u1, r1, r2

MCOwner == [r \in Requests |-> u1]

Symmetry == Permutations(Requests)
=============================================================================
