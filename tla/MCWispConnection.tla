--------------------------- MODULE MCWispConnection ---------------------------
(* WispConnection for TLC. *)
EXTENDS WispConnection
=============================================================================
