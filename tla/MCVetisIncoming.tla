--------------------------- MODULE MCVetisIncoming ---------------------------
EXTENDS VetisRefinement, TLC

\* VSDs are interchangeable with those of their kind.
KindSymmetry == Permutations(Docs) \cup Permutations(Foreign) \cup Permutations(Vsds \ Foreign)
AllSymmetry == KindSymmetry \cup Permutations(Quenchers)
=============================================================================
