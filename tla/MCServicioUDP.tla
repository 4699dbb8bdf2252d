---------------------------- MODULE MCServicioUDP ----------------------------
(* Two clients of the UDP service: between them they send every kind of order, and *)
(* each answers and greets in the game the other has opened. *)
EXTENDS ServicioUDP, TLC

CONSTANTS c1, c2

BancoMC == <<2, 3>>

Palabra(p) == Orden(p, 1, 0)
LineasMC ==
    (c1 :> {Palabra("HOLA"), Palabra("+"), Palabra("ADIOS"), Orden("RESPUESTA", 2, 3)})
    @@ (c2 :> {Palabra("HOLA"), Palabra("otra"), Orden("otra", 3, 0), Orden("RESPUESTA", 2, 0)})
=============================================================================
