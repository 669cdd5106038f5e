-------------------------- MODULE MCRechargeOrders --------------------------
(***************************************************************************)
(* Instances of RechargeOrders for TLC.                                    *)
(***************************************************************************)
EXTENDS RechargeOrders, TLC

CONSTANTS u1, o1, o2, h1, h2

MCBuyer == [o \in Orders |-> u1]
MCPrice == [o \in Orders |-> 2]
MCCredits == [o \in Orders |-> 3]

Symmetry == Permutations(Orders) \cup Permutations(Handlers)
=============================================================================
