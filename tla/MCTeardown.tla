----------------------------- MODULE MCTeardown -----------------------------
(* Instances of Teardown for TLC. *)
EXTENDS Teardown, TLC

CONSTANTS h1, h2, h3, o1, o2, o3

Symmetry == Permutations(Handles) \cup Permutations(Ops)
=============================================================================
