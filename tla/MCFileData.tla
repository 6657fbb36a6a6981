---------------------------- MODULE MCFileData ----------------------------
EXTENDS FileData, TLC
CONSTANTS t1, t2
Symmetry == Permutations(Threads)
=============================================================================
