------------------------------ MODULE MCStored ------------------------------
(* Small instances of Stored for TLC. *)
EXTENDS Stored
=============================================================================
