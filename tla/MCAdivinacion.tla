---------------------------- MODULE MCAdivinacion ----------------------------
(* Small instances of the guessing game for TLC. *)
EXTENDS AdivinacionInvariante
=============================================================================
