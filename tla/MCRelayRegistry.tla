-------------------------- MODULE MCRelayRegistry --------------------------
(* RelayRegistry for TLC. *)
EXTENDS RelayRegistry, TLC

Symmetry == Permutations(ClientIds) \cup Permutations(Keys) \cup Permutations(Conns)
=============================================================================
