-------------------------- MODULE MCRelaySessions --------------------------
(* RelaySessions for TLC: no symmetry, as the run checks liveness. *)
EXTENDS RelaySessions
=============================================================================
