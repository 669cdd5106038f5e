----------------------------- MODULE Selections -----------------------------
(* Selecting elements of a sequence by membership in a set.                *)
EXTENDS Integers, Sequences, SequencesExt

\* The elements of s that are in S, in their order.
Only(s, S) == FoldLeft(LAMBDA r, x : IF x \in S THEN Append(r, x) ELSE r, <<>>, s)
=============================================================================
