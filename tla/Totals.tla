------------------------------- MODULE Totals -------------------------------
(***************************************************************************)
(* Sums of natural-valued functions, as the number of units they denote.   *)
(* (The cardinality of a set of units can be reasoned about with the       *)
(* theorems on finite sets, and needs no induction.)                       *)
(***************************************************************************)
EXTENDS Integers, FiniteSets

\* One element <<x, i>> for each of the amount[x] units of each x in S.
Units(S, amount) == UNION {{x} \X (1 .. amount[x]) : x \in S}

\* The sum of amount[x] over x in S.
Total(S, amount) == Cardinality(Units(S, amount))
=============================================================================
