------------------------------- MODULE Retain -------------------------------
(***************************************************************************)
(* Vec::retain and array_filter: what is left of a sequence when only the  *)
(* positions of a set are kept, in their order.  SelectSeq would do for    *)
(* TLC; this form has no recursion, so that the proofs about its users can *)
(* say what it returns for every sequence.                                 *)
(***************************************************************************)
EXTENDS Naturals, Sequences, FiniteSets

\* The place a kept position moves to.
Rank(K, k) == Cardinality({j \in K : j <= k})

\* The position that moves to place i.
Kept(K, i) == CHOOSE k \in K : Rank(K, k) = i

Retain(s, K) == [i \in 1..Cardinality(K) |-> s[Kept(K, i)]]

Elements(s) == {s[k] : k \in DOMAIN s}
=============================================================================
