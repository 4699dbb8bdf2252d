---------------------------- MODULE BolsaDeNumeros ----------------------------
(***************************************************************************)
(* What the coordinator promises about the numbers, whatever the messages: *)
(* each is given to one player, who holds no other, solved once, and the   *)
(* game is closed only when all are solved.                                *)
(***************************************************************************)
CONSTANTS Numeros, Jugadores, Nadie

VARIABLES
    duenno,     \* the player each number was given to; Nadie: not given yet
    resueltos,  \* numbers whose statistics have been collected
    cerrado     \* somebody has been told to finish

Ocupados == {j \in Numeros : duenno[j] # Nadie} \ resueltos

Init == /\ duenno = [j \in Numeros |-> Nadie]
        /\ resueltos = {}
        /\ cerrado = FALSE

Exclusivo == \A j, l \in Ocupados : duenno[j] = duenno[l] => j = l

\* One step may collect a solved number and hand out others.
Repartir ==
    /\ ~cerrado
    /\ duenno' \in [Numeros -> Jugadores \cup {Nadie}]
    /\ \A j \in Numeros : duenno[j] # Nadie => duenno'[j] = duenno[j]
    /\ resueltos \subseteq resueltos'
    /\ resueltos' \ resueltos \subseteq Ocupados
    /\ Exclusivo'
    /\ cerrado' \in BOOLEAN
    /\ cerrado' => resueltos' = Numeros

Spec == Init /\ [][Repartir]_<<duenno, resueltos, cerrado>>
=============================================================================
