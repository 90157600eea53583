------------------------------ MODULE MCReaders ------------------------------
(* Readers for TLC. *)
EXTENDS Readers
============================================================================
