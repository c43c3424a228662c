-------------------------- MODULE MCWispOperations --------------------------
(* WispOperations for TLC. *)
EXTENDS WispOperations, TLC

Symmetry == Permutations(Actions) \cup Permutations(Transfers)
=============================================================================
