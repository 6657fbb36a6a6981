----------------------------- MODULE MCLockFile -----------------------------
(* Instances of LockFile for TLC. *)
EXTENDS LockFile, TLC

CONSTANTS p1, p2, s1, s2

TwoEach == Processes \X Slots
TwoAndOne == {<<p1, s1>>, <<p1, s2>>, <<p2, s1>>}

Symmetry ==
  Permutations(Processes) \cup Permutations(Slots) \cup Permutations(Actuals) \cup Permutations(Inodes)
=============================================================================
