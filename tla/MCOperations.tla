---------------------------- MODULE MCOperations ----------------------------
EXTENDS Operations, TLC

Symmetry == Permutations(Operations) \cup Permutations(Clients)
=============================================================================
