---------------------------- MODULE MCBlockWrite ----------------------------
(* BlockWrite for TLC. *)
EXTENDS BlockWrite
============================================================================
