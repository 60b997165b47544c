----------------------------- MODULE MC_GitCache -----------------------------
EXTENDS GitCache, TLC

Symmetry == Permutations(Process) \cup Permutations(Project) \cup Permutations(Commit)
=============================================================================
