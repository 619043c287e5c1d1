------------------------------ MODULE Selection ------------------------------
(***************************************************************************)
(* The elements of a sequence at chosen places, in their order: SelectSeq  *)
(* without its recursion.                                                  *)
(***************************************************************************)
EXTENDS Integers, Sequences, FiniteSets

\* How many places of the set I there are up to i.
Rank(I, i) == Cardinality({j \in I : j <= i})

Selected(q, I) == [k \in 1 .. Cardinality(I) |-> q[CHOOSE i \in I : Rank(I, i) = k]]
=============================================================================
