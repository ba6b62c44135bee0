------------------------------ MODULE Listings ------------------------------
(***************************************************************************)
(* The lists that the code's sorts and filters return, defined by what is  *)
(* in them and in which order, so that a proof can say so.  (SortSeq picks *)
(* among all permutations and SelectSeq recurs: the provers see into       *)
(* neither.)                                                               *)
(***************************************************************************)
EXTENDS Naturals, Sequences, FiniteSets, SequencesExt

\* The n-th element of a finite set in a strict total order is the one that
\* n - 1 others precede.
InOrder(S, precedes(_, _)) ==
  [n \in 1..Cardinality(S) |->
     CHOOSE x \in S : Cardinality({y \in S : precedes(y, x)}) = n - 1]

\* The members of S in a list, as they stand there.
Within(list, S) ==
  FoldLeft(LAMBDA kept, x : IF x \in S THEN Append(kept, x) ELSE kept, <<>>, list)
=============================================================================
