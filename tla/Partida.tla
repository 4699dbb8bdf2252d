-------------------------------- MODULE Partida --------------------------------
(***************************************************************************)
(* What one game promises whoever plays it: greet, answer while attempts   *)
(* are left, ask again once the question is settled, leave.                *)
(***************************************************************************)
EXTENDS Naturals

CONSTANT MaxIntentos

VARIABLES
    fase,      \* "fuera", "abierta" (a question to answer) or "resuelta"
    quedan     \* attempts left at the open question

vars == <<fase, quedan>>

Init == fase = "fuera" /\ quedan = 0

Preguntar == fase' = "abierta" /\ quedan' = MaxIntentos

Saludar == fase = "fuera" /\ Preguntar

Fallar ==
    /\ fase = "abierta"
    /\ quedan' = quedan - 1
    /\ fase' = IF quedan' = 0 THEN "resuelta" ELSE "abierta"

Acertar == fase = "abierta" /\ fase' = "resuelta" /\ quedan' = 0

Pedir == fase = "resuelta" /\ Preguntar

\* ADIOS, or silence.
Salir == fase # "fuera" /\ fase' = "fuera" /\ quedan' = 0

Next == Saludar \/ Fallar \/ Acertar \/ Pedir \/ Salir

Spec == Init /\ [][Next]_vars
=============================================================================
