----------------------- MODULE MultidifusionOrdenTotal -----------------------
(***************************************************************************)
(* Total-order multicast over REST: grado/sistemas-distribuidos-rest.      *)
(* N nodes, each a JAX-RS singleton (Servidor) with one mailbox (buzon)    *)
(* under the semaphore semBuzon, and one thread (Proceso) per /start.      *)
(*                                                                         *)
(* Every HTTP call between nodes is synchronous: the caller can change     *)
(* nothing until the answer arrives, and buzon runs under semBuzon.  One   *)
(* call (request, handler, answer) is therefore one step of the caller.    *)
(***************************************************************************)
EXTENDS Integers, FiniteSets

CONSTANTS
    N,                 \* nodes; the arrays matrizPreparados/Finalizados are int[3]
    NUM_MENSAJES,      \* messages each Proceso multicasts (10 in the code)
    MaxArranques,      \* bound: /start calls served by one node
    MaxIntervenciones  \* bound: operator calls and HTTP failures in a behaviour

ASSUME NAssumption == N \in 1..9     \* one digit: the node's id is the decimal part of an order
ASSUME MensajesAssumption == NUM_MENSAJES \in Nat \ {0}
ASSUME ArranquesAssumption == MaxArranques \in Nat \ {0}
ASSUME IntervencionesAssumption == MaxIntervenciones \in Nat

Nodos == 1..N
Instancias == 1..MaxArranques
Mensajes == Nodos \X (1..NUM_MENSAJES)  \* crearId: "<id>.<num>"
SinId == <<0, 0>>                       \* idMsj = "", what a bare GET /buzon stores
Claves == Mensajes \cup {SinId}

VARIABLES
    reloj,        \* Servidor.relojLamport
    orden,        \* Servidor.hashMap: orden of each stored message
    flaj,         \* Servidor.hashMap: flajApertura of each stored message
    preparados,   \* Servidor.matrizPreparados: origins whose cell is 1
    finalizados,  \* Servidor.matrizFinalizados: origins whose cell is 1
    semBuzon,     \* permits of Servidor.semBuzon between two calls of buzon
    miProceso,    \* Servidor.miProceso: 0 (null) or the number of the last /start
    arranque,     \* Proceso.preparado: next client to be told, N + 1 when all were
    fase,         \* where the thread of each Proceso is in run()
    i,            \* run(): number of the message being multicast
    faltan,       \* multidifusion: clients not called yet
    maximo,       \* multidifusion: largest answer so far (0: none)
    fichero,      \* lines <<idMsj, orden>> of the last file written
    escrituras,   \* files written
    intervenciones

servidor == <<reloj, orden, flaj, preparados, finalizados, semBuzon, fichero, escrituras>>
proceso == <<arranque, fase, i, faltan, maximo>>
vars == <<servidor, proceso, miProceso, intervenciones>>

Fases == {"sin", "nuevo", "apertura", "orden", "fin", "terminado", "muerto"}
Marcas == {"ausente", "pendiente", "entregable"}  \* no entry, flajApertura 0, flajApertura 1

TypeOK ==
    /\ reloj \in [Nodos -> Nat]
    /\ orden \in [Nodos -> [Claves -> Nat]]
    /\ flaj \in [Nodos -> [Claves -> Marcas]]
    /\ preparados \in [Nodos -> SUBSET Nodos]
    /\ finalizados \in [Nodos -> SUBSET Nodos]
    /\ semBuzon \in [Nodos -> 0..1]
    /\ miProceso \in [Nodos -> 0..MaxArranques]
    /\ arranque \in [Nodos -> [Instancias -> 0..(N + 1)]]
    /\ fase \in [Nodos -> [Instancias -> Fases]]
    /\ i \in [Nodos -> [Instancias -> 1..NUM_MENSAJES]]
    /\ faltan \in [Nodos -> [Instancias -> SUBSET Nodos]]
    /\ maximo \in [Nodos -> [Instancias -> Nat]]
    /\ fichero \in [Nodos -> SUBSET (Claves \X Nat)]
    /\ escrituras \in [Nodos -> Nat]
    /\ intervenciones \in 0..MaxIntervenciones

Init ==
    /\ reloj = [p \in Nodos |-> 0]
    /\ orden = [p \in Nodos |-> [m \in Claves |-> 0]]
    /\ flaj = [p \in Nodos |-> [m \in Claves |-> "ausente"]]
    /\ preparados = [p \in Nodos |-> {}]
    /\ finalizados = [p \in Nodos |-> {}]
    /\ semBuzon = [p \in Nodos |-> 1]
    /\ miProceso = [p \in Nodos |-> 0]
    /\ arranque = [p \in Nodos |-> [a \in Instancias |-> 0]]
    /\ fase = [p \in Nodos |-> [a \in Instancias |-> "sin"]]
    /\ i = [p \in Nodos |-> [a \in Instancias |-> 1]]
    /\ faltan = [p \in Nodos |-> [a \in Instancias |-> {}]]
    /\ maximo = [p \in Nodos |-> [a \in Instancias |-> 0]]
    /\ fichero = [p \in Nodos |-> {}]
    /\ escrituras = [p \in Nodos |-> 0]
    /\ intervenciones = 0

-----------------------------------------------------------------------------
(* Helpers *)

\* Fault: the answer without the decimal part, so equal clocks give equal orders.
PropuestaSinId(r, d) == 10 * r

\* The answer to a type 0 call: Float.parseFloat("<reloj>.<id>"), in tenths.
Propuesta(r, d) == 10 * r + d

\* encontrarMaximo, folded into the loop that fills tiemposLLegada.
EncontrarMaximo(x, y) == IF y > x THEN y ELSE x

\* multidifusion of types 1, 2 and 3 visits the clients in array order.
Primero(d, S) == d \in S /\ \A q \in S : d <= q

\* Fault: one cell set is taken for all.
ComprobarAlguna(matriz) == matriz # {}

\* Fault: the loop reads one cell too many.
ComprobarDeMas(matriz) == Cardinality(matriz) > N

\* comprobarMatriz
ComprobarMatriz(matriz) == matriz = Nodos

\* The file: one line per entry, sorted by orden (writeHashMapToFile, ordenarPorOrden).
\* As long as no two lines have the same orden the sorted file and its set of
\* lines determine each other; ties fall in the iteration order of the HashMap.
Lineas(d) == {<<m, orden[d][m]>> : m \in {c \in Claves : flaj[d][c] # "ausente"}}

-----------------------------------------------------------------------------
(* buzon, one operator per tipoMsj; d is the node that serves the call *)

\* tipoMsj = 0: store the message as not deliverable, advance the clock.
BuzonApertura(d, m) ==
    /\ semBuzon[d] = 1
    /\ reloj' = [reloj EXCEPT ![d] = @ + 1]
    /\ orden' = [orden EXCEPT ![d][m] = 0]
    /\ flaj' = [flaj EXCEPT ![d][m] = "pendiente"]
    /\ UNCHANGED <<preparados, finalizados, semBuzon, fichero, escrituras>>

\* Fault: the node writes its own clock over the order it is told.
BuzonOrdenLocal(d, m, o) ==
    /\ semBuzon[d] = 1
    /\ reloj' = [reloj EXCEPT ![d] = @ + 1]
    /\ orden' = [orden EXCEPT ![d][m] = EncontrarMaximo(o, Propuesta(reloj[d], d))]
    /\ flaj' = [flaj EXCEPT ![d][m] = "entregable"]
    /\ UNCHANGED <<preparados, finalizados, semBuzon, fichero, escrituras>>

\* tipoMsj = 1: the agreed order, kept only if the message is stored.
BuzonOrden(d, m, o) ==
    /\ semBuzon[d] = 1
    /\ reloj' = [reloj EXCEPT ![d] = @ + 1]
    /\ orden' = [orden EXCEPT ![d][m] = IF flaj[d][m] = "ausente" THEN @ ELSE o]
    /\ flaj' = [flaj EXCEPT ![d][m] = IF @ = "ausente" THEN @ ELSE "entregable"]
    /\ UNCHANGED <<preparados, finalizados, semBuzon, fichero, escrituras>>

\* Fault: the file is written and reinicio() forgets matrizPreparados.
BuzonFinSinReinicio(d, origen) ==
    /\ semBuzon[d] = 1
    /\ LET recibidos == finalizados[d] \cup {origen}
           todos == ComprobarMatriz(recibidos)
       IN  /\ fichero' = [fichero EXCEPT ![d] = IF todos THEN Lineas(d) ELSE @]
           /\ escrituras' = [escrituras EXCEPT ![d] = IF todos THEN @ + 1 ELSE @]
           /\ reloj' = [reloj EXCEPT ![d] = IF todos THEN 0 ELSE @]
           /\ finalizados' = [finalizados EXCEPT ![d] = IF todos THEN {} ELSE recibidos]
    /\ UNCHANGED <<orden, flaj, semBuzon, preparados>>

\* tipoMsj = 2: when the last origin has finished, write the file and reinicio().
BuzonFin(d, origen) ==
    /\ semBuzon[d] = 1
    /\ LET recibidos == finalizados[d] \cup {origen}
           todos == ComprobarMatriz(recibidos)
       IN  /\ fichero' = [fichero EXCEPT ![d] = IF todos THEN Lineas(d) ELSE @]
           /\ escrituras' = [escrituras EXCEPT ![d] = IF todos THEN @ + 1 ELSE @]
           /\ reloj' = [reloj EXCEPT ![d] = IF todos THEN 0 ELSE @]
           /\ preparados' = [preparados EXCEPT ![d] = IF todos THEN {} ELSE @]
           /\ finalizados' = [finalizados EXCEPT ![d] = IF todos THEN {} ELSE recibidos]
    /\ UNCHANGED <<orden, flaj, semBuzon>>

\* tipoMsj = 3, stored; whether it completes the matrix and start() can run.
Completa(d, origen) == ComprobarMatriz(preparados[d] \cup {origen})
Arrancable(d) == miProceso[d] # 0 /\ fase[d][miProceso[d]] = "nuevo"

\* Fault: release() twice, in the branch and after it.
BuzonPreparadoDosVeces(d, origen) ==
    /\ semBuzon[d] = 1
    /\ preparados' = [preparados EXCEPT ![d] = @ \cup {origen}]
    /\ semBuzon' = [semBuzon EXCEPT ![d] = IF Completa(d, origen) THEN 2 ELSE 1]
    /\ UNCHANGED <<reloj, orden, flaj, finalizados, fichero, escrituras>>

BuzonPreparado(d, origen) ==
    /\ semBuzon[d] = 1
    /\ preparados' = [preparados EXCEPT ![d] = @ \cup {origen}]
    \* start() on a null or already started thread throws before release()
    /\ semBuzon' = [semBuzon EXCEPT ![d] =
                      IF Completa(d, origen) /\ ~Arrancable(d) THEN 0 ELSE 1]
    /\ UNCHANGED <<reloj, orden, flaj, finalizados, fichero, escrituras>>

-----------------------------------------------------------------------------
(* GET /start and the thread it creates *)

\* /start: a new Proceso replaces miProceso; preparado() begins.
Start(p) ==
    /\ miProceso[p] < MaxArranques
    /\ LET a == miProceso[p] + 1
       IN  /\ miProceso' = [miProceso EXCEPT ![p] = a]
           /\ fase' = [fase EXCEPT ![p][a] = "nuevo"]
           /\ arranque' = [arranque EXCEPT ![p][a] = 1]
    /\ UNCHANGED <<servidor, i, faltan, maximo, intervenciones>>

\* preparado(): one call of type 3.  An exception in the callee comes back as a
\* 500, which get(String.class) turns into an exception that ends /start.
Preparado(p, a) ==
    /\ arranque[p][a] \in Nodos
    /\ LET d == arranque[p][a]
       IN  /\ BuzonPreparado(d, p)
           /\ IF Completa(d, p) /\ Arrancable(d)   \* the new thread enters run()
                THEN /\ fase' = [fase EXCEPT ![d][miProceso[d]] = "apertura"]
                     /\ faltan' = [faltan EXCEPT ![d][miProceso[d]] = Nodos]
                ELSE UNCHANGED <<fase, faltan>>
           /\ arranque' = [arranque EXCEPT ![p][a] =
                             IF Completa(d, p) /\ ~Arrancable(d) THEN 0 ELSE d + 1]
    /\ UNCHANGED <<i, maximo, miProceso, intervenciones>>

\* run(), tipoMsj = 0: the clients in random order; after the last, the maximum
\* of the answers becomes the order to announce.
Apertura(p, a) ==
    /\ fase[p][a] = "apertura"
    /\ \E d \in faltan[p][a] :
         /\ BuzonApertura(d, <<p, i[p][a]>>)
         /\ maximo' = [maximo EXCEPT ![p][a] = EncontrarMaximo(@, Propuesta(reloj[d], d))]
         /\ fase' = [fase EXCEPT ![p][a] = IF faltan[p][a] = {d} THEN "orden" ELSE @]
         /\ faltan' = [faltan EXCEPT ![p][a] = IF @ = {d} THEN Nodos ELSE @ \ {d}]
    /\ UNCHANGED <<i, arranque, miProceso, intervenciones>>

\* run(), tipoMsj = 1: announce the order in array order, then the next message,
\* or the end of the loop.
Orden(p, a) ==
    /\ fase[p][a] = "orden"
    /\ \E d \in faltan[p][a] :
         /\ Primero(d, faltan[p][a])
         /\ BuzonOrden(d, <<p, i[p][a]>>, maximo[p][a])
         /\ LET ultimo == faltan[p][a] = {d}
                quedan == i[p][a] < NUM_MENSAJES
            IN  /\ faltan' = [faltan EXCEPT ![p][a] = IF ultimo THEN Nodos ELSE @ \ {d}]
                /\ maximo' = [maximo EXCEPT ![p][a] = IF ultimo THEN 0 ELSE @]
                /\ i' = [i EXCEPT ![p][a] = IF ultimo /\ quedan THEN @ + 1 ELSE @]
                /\ fase' = [fase EXCEPT ![p][a] = IF ~ultimo THEN @
                                                  ELSE IF quedan THEN "apertura" ELSE "fin"]
    /\ UNCHANGED <<arranque, miProceso, intervenciones>>

\* run(), tipoMsj = 2: announce the end in array order; then the thread returns.
Fin(p, a) ==
    /\ fase[p][a] = "fin"
    /\ \E d \in faltan[p][a] :
         /\ Primero(d, faltan[p][a])
         /\ BuzonFin(d, p)
         /\ faltan' = [faltan EXCEPT ![p][a] = @ \ {d}]
         /\ fase' = [fase EXCEPT ![p][a] = IF faltan[p][a] = {d} THEN "terminado" ELSE @]
    /\ UNCHANGED <<i, maximo, arranque, miProceso, intervenciones>>

Multidifusion(p, a) == Apertura(p, a) \/ Orden(p, a) \/ Fin(p, a)

-----------------------------------------------------------------------------
(* What the environment may do beyond the README's usage *)

Intervenir == /\ intervenciones < MaxIntervenciones
              /\ intervenciones' = intervenciones + 1

\* GET /reinicio, which does not take semBuzon.
Reinicio(p) ==
    /\ Intervenir
    /\ preparados' = [preparados EXCEPT ![p] = {}]
    /\ finalizados' = [finalizados EXCEPT ![p] = {}]
    \* relojLamport++ of a handler running at the same time can overwrite the 0
    /\ \/ reloj' = [reloj EXCEPT ![p] = 0]
       \/ /\ \E q \in Nodos, a \in Instancias :
                fase[q][a] \in {"apertura", "orden"} /\ p \in faltan[q][a]
          /\ UNCHANGED reloj
    /\ UNCHANGED <<orden, flaj, semBuzon, fichero, escrituras, proceso, miProceso>>

\* GET /buzon with no parameters: tipoMsj defaults to 0 and idMsj to "".
Consulta(p) ==
    /\ Intervenir
    /\ BuzonApertura(p, SinId)
    /\ UNCHANGED <<proceso, miProceso>>

\* An HTTP call fails: the exception is not caught and ends the thread's run().
FallaHTTP(p, a) ==
    /\ Intervenir
    /\ fase[p][a] \in {"apertura", "orden", "fin"}
    /\ fase' = [fase EXCEPT ![p][a] = "muerto"]
    /\ UNCHANGED <<servidor, arranque, i, faltan, maximo, miProceso>>

-----------------------------------------------------------------------------
(* Specifications *)

\* README, "Despliegue": /start once in each node; a new round when the last has
\* ended and every node has written its file.
RondaCerrada(k) ==
    \A q \in Nodos : escrituras[q] >= k /\ \A a \in 1..k : fase[q][a] = "terminado"
StartEnTurno(p) == RondaCerrada(miProceso[p]) /\ Start(p)

Paso(p) == \E a \in Instancias : Preparado(p, a) \/ Multidifusion(p, a)

Next == \E p \in Nodos : StartEnTurno(p) \/ Paso(p)

Spec == Init /\ [][Next]_vars

\* HTTP calls between the nodes may also fail.
NextFallos == Next \/ \E p \in Nodos, a \in Instancias : FallaHTTP(p, a)
SpecFallos == Init /\ [][NextFallos]_vars

\* The user also calls GET /buzon, as step 3 of the README asks.
SpecConsulta == Init /\ [][Next \/ \E p \in Nodos : Consulta(p)]_vars

\* And the user may call /reinicio at any moment of a round.
NextIntervenciones == NextFallos \/ \E p \in Nodos : Reinicio(p)

SpecIntervenciones == Init /\ [][NextIntervenciones]_vars

\* Tomcat serves every request and the JVM runs every thread; nobody has to call
\* /start or /reinicio and no call has to fail.
FairSpec ==
    /\ SpecIntervenciones
    /\ \A p \in Nodos, a \in Instancias : WF_vars(Preparado(p, a)) /\ WF_vars(Multidifusion(p, a))

-----------------------------------------------------------------------------
(* Properties *)

\* start() of a Proceso never runs twice nor on null while the users keep their
\* turn (Servidor.java:207-209), so no handler leaves semBuzon taken.
SemaforoLibre == \A p \in Nodos : semBuzon[p] = 1

\* A file written at the end of a round holds every message of every node, and
\* no two with the same agreed order: sorting it leaves no tie to break.
FicheroCompleto ==
    \A p \in Nodos : escrituras[p] > 0 =>
        /\ {l[1] : l \in fichero[p]} = Mensajes
        /\ \A l1, l2 \in fichero[p] : l1[2] = l2[2] => l1 = l2
        /\ \A l \in fichero[p] : l[2] > 0

\* The same from round to round, over the entries the last one left in the map:
\* nothing but a call of the operator or a failed one can spoil a file.
FicheroDeRonda == intervenciones = 0 => FicheroCompleto

\* "Todos los nodos entregan los mensajes en el mismo orden" (README:3-5): two
\* nodes that have written the file of the same round wrote the same lines.
Acuerdo ==
    \A p, q \in Nodos : escrituras[p] > 0 /\ escrituras[p] = escrituras[q]
                            => fichero[p] = fichero[q]

\* A node clears its matrices and clock (reinicio at Servidor.java:194) only once
\* nobody will multicast to it again in the round: no message of the old round
\* meets the new clock.
ReinicioSeguro ==
    [][\A q \in Nodos : escrituras'[q] # escrituras[q]
         => \A p \in Nodos, a \in Instancias :
               fase[p][a] \notin {"nuevo", "apertura", "orden"}]_vars

\* Once all have been started, every node writes its file, in every round in which
\* nobody calls /reinicio and no call fails.
TodosEscriben ==
    \A k \in Instancias :
        (\A p \in Nodos : miProceso[p] >= k) ~> (intervenciones > 0 \/ \A p \in Nodos : escrituras[p] >= k)
=============================================================================
