----------------------------- MODULE MCDirCache -----------------------------
(* Instances of DirCache for TLC. *)
EXTENDS DirCache, TLC

Symmetry ==
  Permutations(Dirs) \cup Permutations(Paths) \cup Permutations(DirHandles) \cup Permutations(Threads)
=============================================================================
