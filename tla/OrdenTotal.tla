------------------------------ MODULE OrdenTotal ------------------------------
(***************************************************************************)
(* What total-order multicast promises, whatever the protocol: in a round, *)
(* every message gets one order, once, and no two messages the same; and a *)
(* node delivers only when all are ordered, and then the same as any other.*)
(* A round begins when everybody has delivered the one before.             *)
(***************************************************************************)
EXTENDS Integers

CONSTANTS Nodos, Mensajes

VARIABLES
    acordado,   \* the order agreed for each message in this round; 0: none yet
    entregado   \* what each node has delivered in it: lines <<message, order>>

TypeOK == /\ acordado \in [Mensajes -> Nat]
          /\ entregado \in [Nodos -> SUBSET (Mensajes \X Nat)]

Init == /\ acordado = [m \in Mensajes |-> 0]
        /\ entregado = [n \in Nodos |-> {}]

Acordar(m) ==
    /\ acordado[m] = 0
    /\ acordado' \in [Mensajes -> Nat]
    /\ acordado'[m] > 0
    /\ \A c \in Mensajes \ {m} : acordado'[c] = acordado[c] /\ acordado[c] # acordado'[m]
    /\ UNCHANGED entregado

Entregar(n) ==
    /\ entregado[n] = {}
    /\ \A m \in Mensajes : acordado[m] # 0
    /\ entregado' = [entregado EXCEPT ![n] = {<<m, acordado[m]>> : m \in Mensajes}]
    /\ UNCHANGED acordado

NuevaRonda ==
    /\ \A n \in Nodos : entregado[n] # {}
    /\ acordado' = [m \in Mensajes |-> 0]
    /\ entregado' = [n \in Nodos |-> {}]

Next == (\E m \in Mensajes : Acordar(m)) \/ (\E n \in Nodos : Entregar(n)) \/ NuevaRonda

Spec == Init /\ [][Next]_<<acordado, entregado>>
=============================================================================
