----------------------------- MODULE SeqFilter -----------------------------
(***************************************************************************)
(* What a list comprehension with a condition keeps of a list: the elements *)
(* in A, in their order; and what is at a place of a sorted set.  The first *)
(* is SelectSeq with the test as a set, as a recursive function, and the    *)
(* second an element of SetToSortSeq, by its rank, so that proofs can say   *)
(* what they compute (DataInduction).                                       *)
(***************************************************************************)
EXTENDS Integers, Sequences, FiniteSets

\* [x for x in s if x in A]
Filtered(s, A) ==
    LET kept[i \in 0..Len(s)] ==
          IF i = 0 THEN <<>> ELSE IF s[i] \in A THEN Append(kept[i - 1], s[i]) ELSE kept[i - 1]
    IN  kept[Len(s)]

\* sorted(S)[i - 1], for a set of numbers: the element that i - 1 others precede.
Nth(S, i) == CHOOSE x \in S : Cardinality({y \in S : y < x}) = i - 1

=============================================================================
