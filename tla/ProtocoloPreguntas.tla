-------------------------- MODULE ProtocoloPreguntas --------------------------
(***************************************************************************)
(* grado/redes-cliente-servidor: what serverTCP and serverUDP share, the   *)
(* bank of questions and the orders of the text protocol.                  *)
(***************************************************************************)
EXTENDS Integers, Sequences, FiniteSets

CONSTANTS
    Banco,        \* answers of the questions in preguntas.txt, in order
    Numeros,      \* what atoi gives for the answers the clients send
    MaxIntentos   \* the 5 attempts per question

ASSUME BancoAssumption == Banco \in Seq(Nat \ {0}) /\ Banco # <<>>
ASSUME NumerosAssumption == Numeros \subseteq Nat
ASSUME IntentosAssumption == MaxIntentos \in Nat \ {0}

numPreguntas == Len(Banco)

\* preguntas[i].respuesta, i from 0: the array is global, zeroed after the bank.
Respuesta(i) == IF i < numPreguntas THEN Banco[i + 1] ELSE 0

\* An order as splitString leaves it: its first word, how many words, the number of
\* the second.  "otra" is any word that no comparison of the server accepts.
Orden(p, n, num) == [palabra |-> p, palabras |-> n, numero |-> num]

Ordenes ==
    {Orden(p, 1, 0) : p \in {"HOLA", "+", "ADIOS", "otra"}}
        \cup {Orden("RESPUESTA", 2, n) : n \in Numeros}
        \cup {Orden("otra", n, 0) : n \in {2, 3}}

Codigos == {"220", "221", "250", "350", "354", "375", "500"}
=============================================================================
