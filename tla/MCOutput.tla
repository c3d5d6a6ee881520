------------------------------ MODULE MCOutput ------------------------------
EXTENDS Output, TLC

Symmetry == Permutations(Addresses) \cup Permutations(Requests)
=============================================================================
