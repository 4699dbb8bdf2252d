----------------------- MODULE MultidifusionInvariante -----------------------
(***************************************************************************)
(* The inductive invariant behind SemaforoLibre, Acuerdo, FicheroCompleto  *)
(* and ReinicioSeguro, for any number of rounds, with HTTP failures and    *)
(* /reinicio, and the refinement mapping to OrdenTotal.                    *)
(***************************************************************************)
EXTENDS MultidifusionOrdenTotal

Numeros == 1..NUM_MENSAJES

-----------------------------------------------------------------------------
(* Of round a, the one that has begun last *)

\* /start of q has already sent its type 3 to p.
Avisado(q, p, a) == arranque[q][a] > p

Difunde(p, a) == fase[p][a] \in {"apertura", "orden"}
Cerrado(p, a) == fase[p][a] \in {"fin", "terminado", "muerto"}

\* The thread of p has not yet sent message k to q in this round.
SinEnviar(p, q, k, a) == \/ k > i[p][a] \/ fase[p][a] \in {"sin", "nuevo"}
                         \/ k = i[p][a] /\ fase[p][a] = "apertura" /\ q \in faltan[p][a]

\* The order of m has been agreed in this round: node 1 is told first.  What its thread
\* has not told it is left from the round before, and there is none before the first.
Anunciado(m, a) ==
    LET p == m[1]
        k == m[2]
    IN  \/ k < i[p][a] \/ fase[p][a] \in {"fin", "terminado"}
        \/ /\ k = i[p][a] /\ fase[p][a] \in {"orden", "muerto"}
           /\ flaj[1][m] = "entregable" /\ (1 \notin faltan[p][a] \/ a = 1)

\* All nodes hold message k of p with one and the same agreed order.
MismoOrden(p, k) == \A q \in Nodos : /\ flaj[q][<<p, k>>] = "entregable"
                                     /\ orden[q][<<p, k>>] = orden[p][<<p, k>>]
                                     /\ orden[q][<<p, k>>] > 0
Completo(p) == \A k \in Numeros : MismoOrden(p, k)

\* v is an answer that some node has given if the clocks, all 0 at first, show rj.
Contestado(v, rj) == \E j \in Nodos : \E r \in 0..(rj[j] - 1) : v = Propuesta(r, j)

-----------------------------------------------------------------------------
(* What holds whatever the operator does *)

\* The rounds before this one are over and written; those after it have not begun.
InvRondas(a) ==
    /\ a = 1 \/ \E p \in Nodos : miProceso[p] = a
    /\ \A p \in Nodos :
        /\ miProceso[p] \in {a - 1, a} /\ escrituras[p] \in {a - 1, a}
        /\ \A b \in Instancias :
              /\ b < a => fase[p][b] = "terminado" /\ arranque[p][b] = N + 1
              /\ b > a => /\ fase[p][b] = "sin" /\ arranque[p][b] = 0
                          /\ i[p][b] = 1 /\ maximo[p][b] = 0

\* The start-up barrier: nobody runs before all have told it they are ready.
InvArranque(a) ==
    /\ SemaforoLibre
    /\ \A p \in Nodos : IF miProceso[p] = a
                          THEN fase[p][a] # "sin" /\ arranque[p][a] > 0
                          ELSE fase[p][a] = "sin" /\ arranque[p][a] = 0
    /\ \A p, q \in Nodos : q \in preparados[p] => Avisado(q, p, a)
    /\ \A p \in Nodos : Difunde(p, a) \/ Cerrado(p, a) => \A q \in Nodos : Avisado(q, p, a)

\* Where a thread stands in run().
InvHilo(a) ==
    \A p \in Nodos :
        /\ fase[p][a] \in {"sin", "nuevo"} => i[p][a] = 1 /\ maximo[p][a] = 0
        /\ fase[p][a] \in {"apertura", "orden", "fin"} => faltan[p][a] # {}
        /\ fase[p][a] = "apertura" => (faltan[p][a] = Nodos <=> maximo[p][a] = 0)
        /\ fase[p][a] = "orden" => maximo[p][a] > 0
        /\ fase[p][a] \in {"orden", "fin"} /\ 1 \in faltan[p][a] => faltan[p][a] = Nodos
        /\ fase[p][a] \in {"fin", "terminado"} => i[p][a] = NUM_MENSAJES

\* What the registry of q holds of message k of p, from where the thread of p stands.
EnRegistro(p, q, k, a) ==
    LET m == <<p, k>>
        f == fase[p][a]
    IN  /\ k < i[p][a] \/ f \in {"fin", "terminado"} => MismoOrden(p, k)
        /\ k = i[p][a] /\ f = "apertura" /\ q \notin faltan[p][a] => flaj[q][m] = "pendiente"
        /\ k = i[p][a] /\ f = "orden" =>
              IF q \in faltan[p][a]
                THEN flaj[q][m] = "pendiente"
                ELSE flaj[q][m] = "entregable" /\ orden[q][m] = maximo[p][a]
        /\ Anunciado(m, a) => orden[1][m] > 0
        /\ a = 1 /\ SinEnviar(p, q, k, a) => flaj[q][m] = "ausente"
InvRegistro(a) ==
    /\ \A q \in Nodos : flaj[q][SinId] = "ausente"
    /\ \A p, q \in Nodos, k \in Numeros : EnRegistro(p, q, k, a)

\* Who has announced its end has nothing left to announce, and nothing to send again.
InvFin(a) ==
    /\ \A p, q \in Nodos : q \in finalizados[p] \/ escrituras[p] = a =>
          /\ Cerrado(q, a) /\ Completo(q)
          /\ \A k \in Numeros : Anunciado(<<q, k>>, a)
          /\ fase[q][a] = "fin" => p \notin faltan[q][a]
    /\ \A p \in Nodos : escrituras[p] = 0 => fichero[p] = {}
    /\ \A p \in Nodos : escrituras[p] = a =>
          /\ fichero[p] = {<<m, orden[1][m]>> : m \in Mensajes}
          /\ preparados[p] = {} /\ finalizados[p] = {}
    /\ Acuerdo

InvRonda(a) == InvRondas(a) /\ InvArranque(a) /\ InvHilo(a) /\ InvRegistro(a) /\ InvFin(a)

-----------------------------------------------------------------------------
(* What holds as long as nobody calls /reinicio *)

\* Agreed orders, and the maxima they will come from, belong to one message each.
InvUnico(a) ==
    /\ \A m, c \in Mensajes :
          m # c /\ Anunciado(m, a) /\ Anunciado(c, a) => orden[1][m] # orden[1][c]
    /\ \A p \in Nodos, m \in Mensajes :
          Difunde(p, a) /\ m # <<p, i[p][a]>> /\ Anunciado(m, a) => maximo[p][a] # orden[1][m]
    /\ \A p, q \in Nodos :
          p # q /\ Difunde(p, a) /\ Difunde(q, a) /\ maximo[p][a] > 0 => maximo[p][a] # maximo[q][a]

\* Until every thread has closed no clock has gone back, so a new answer is new.
InvReloj(a) ==
    (\E p \in Nodos : ~Cerrado(p, a)) =>
        /\ \A m \in Mensajes : Anunciado(m, a) => Contestado(orden[1][m], reloj)
        /\ \A p \in Nodos : Difunde(p, a) /\ maximo[p][a] > 0 => Contestado(maximo[p][a], reloj)

InvOrdenes(a) == InvUnico(a) /\ InvReloj(a) /\ FicheroCompleto

-----------------------------------------------------------------------------
IInv == /\ TypeOK
        /\ \E a \in Instancias : InvRonda(a) /\ (intervenciones = 0 => InvOrdenes(a))

\* Failed calls alone do not spoil the orders.
IInvFallos == TypeOK /\ \E a \in Instancias : InvRonda(a) /\ InvOrdenes(a)

-----------------------------------------------------------------------------
\* The round that has begun last.
RondaActual == LET S == {1} \cup {miProceso[p] : p \in Nodos}
               IN  CHOOSE a \in S : \A b \in S : b <= a

\* The order of a message is agreed when the first node, in array order, is told; a file
\* is delivered in the round it was written in.  README:3-5: one order per message, the
\* same files everywhere, and no file before the last order is agreed.
Acordado == [m \in Mensajes |-> IF Anunciado(m, RondaActual) THEN orden[1][m] ELSE 0]
Entregado == [p \in Nodos |-> IF escrituras[p] = RondaActual THEN fichero[p] ELSE {}]
Abstracta == INSTANCE OrdenTotal WITH acordado <- Acordado, entregado <- Entregado
ImplementaOrdenTotal == Abstracta!Spec

\* The same in every round, over what the last one left in the nodes, also when a call of
\* /reinicio or a failed call may come at any moment: up to the first of them.
ImplementaSinIntervenir ==
    /\ Abstracta!Init
    /\ [][intervenciones' = 0 => Abstracta!Next \/ UNCHANGED <<Acordado, Entregado>>]_vars
=============================================================================
