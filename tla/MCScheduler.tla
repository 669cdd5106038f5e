---------------------------- MODULE MCScheduler ----------------------------
(***************************************************************************)
(* Instances of Scheduler for TLC.                                         *)
(***************************************************************************)
EXTENDS Scheduler, TLC

CONSTANTS a1, a2, p1, w1, w2, w3

Symmetry == Permutations(Accounts) \cup Permutations(Workers)
=============================================================================
