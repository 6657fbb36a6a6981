---------------------------- MODULE MCOpEngine ----------------------------
(* Instances of OpEngine for TLC. *)
EXTENDS OpEngine, TLC

CONSTANTS w1, w2, c1, c2

Symmetry == Permutations(Workers) \cup Permutations(Clients)
============================================================================
