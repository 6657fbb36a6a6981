-------------------------- MODULE MCRaceProtection --------------------------
EXTENDS RaceProtection, TLC
CONSTANTS d1, d2, p1, p2, h1, h2, l1, l2
Symmetry == Permutations(Dirs) \cup Permutations(Paths) \cup Permutations(DirHandles) \cup Permutations(Leaves)
=============================================================================
