--------------------------- MODULE MCMultidifusion ---------------------------
(* Small instances of the total-order multicast for TLC. *)
EXTENDS MultidifusionInvariante
=============================================================================
