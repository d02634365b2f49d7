---------------------------- MODULE Subsequences ----------------------------
(* The elements of a sequence at given positions: what SelectSeq returns,  *)
(* by the positions it selects.  TLAPS has no definition of SelectSeq.     *)
EXTENDS Integers, Sequences, FiniteSets

\* How many positions of I are not behind i.
Rank(I, i) == Cardinality({k \in I : k <= i})

SubSeqAt(s, I) ==
  [j \in 1..Cardinality(I) |-> s[CHOOSE i \in I : Rank(I, i) = j]]
=============================================================================
