---------------------------- MODULE MCHandleSync ----------------------------
(* Instances of HandleSync for TLC. *)
EXTENDS HandleSync, TLC

CONSTANTS t1, t2, t3

Symmetry == Permutations(Threads)
=============================================================================
