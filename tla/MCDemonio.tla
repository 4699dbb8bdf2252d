------------------------------ MODULE MCDemonio ------------------------------
(* Small instances of the daemon for TLC. *)
EXTENDS Demonio
=============================================================================
