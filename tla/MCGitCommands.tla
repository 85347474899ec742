----------------------------- MODULE MCGitCommands -----------------------------
EXTENDS GitCommands

Alike == Permutations(Threads) \cup Permutations(Tracked)
=============================================================================
