---------------------------- MODULE MCServicioTCP ----------------------------
(* Two questions and a client that may send any script of MaxOrdenes lines. *)
EXTENDS ServicioTCP

BancoMC == <<2, 3>>
=============================================================================
