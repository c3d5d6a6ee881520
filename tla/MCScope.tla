------------------------------ MODULE MCScope ------------------------------
(* Fiber addresses are interchangeable, and so are requests. *)
EXTENDS Scope, TLC
Symmetry == Permutations(Addresses) \cup Permutations(Requests)
=============================================================================
