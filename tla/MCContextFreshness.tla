------------------------ MODULE MCContextFreshness ------------------------
EXTENDS ContextFreshness, TLC

Symmetry == Permutations(Files) \cup Permutations(Contents)
=============================================================================
