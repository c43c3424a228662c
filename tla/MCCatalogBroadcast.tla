------------------------ MODULE MCCatalogBroadcast ------------------------
(* CatalogBroadcast for TLC. *)
EXTENDS CatalogBroadcast, TLC

Symmetry == Permutations(Ctrls) \cup Permutations(Relays)
=============================================================================
