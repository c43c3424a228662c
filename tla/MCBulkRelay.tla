---------------------------- MODULE MCBulkRelay ----------------------------
(* BulkRelay for TLC. *)
EXTENDS BulkRelay, TLC

Symmetry == Permutations(Conns) \cup Permutations(Keys) \cup Permutations(Endpoints)
=============================================================================
