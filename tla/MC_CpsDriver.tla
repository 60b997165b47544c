--------------------------- MODULE MC_CpsDriver ---------------------------
EXTENDS CpsInitialize, CpsDriverInv, TLC
Symmetry == Permutations(Run) \cup Permutations(Tag)

\* Two answers outstanding are combined with one handler and one callback.
Bounded ==
  Len(tokens) > 1 =>
    /\ Cardinality(allocated) <= 1 /\ Len(stack) <= 3
    /\ \A r \in Run : Started(r) => Len(next[r].k) <= 1 - Cardinality(allocated)
=============================================================================
