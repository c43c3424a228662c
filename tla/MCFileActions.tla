---------------------------- MODULE MCFileActions ----------------------------
(* FileActions for TLC. *)
EXTENDS FileActions
=============================================================================
