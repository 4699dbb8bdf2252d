-------------------------------- MODULE Trenes --------------------------------
(***************************************************************************)
(* grado/sistemas-operativos-concurrencia/prueba3/lomo2.cpp: one thread    *)
(* per train and main.  The map is shared memory under scMapa; scInicio    *)
(* lets trains into the map one at a time.                                 *)
(*                                                                         *)
(* lomo2.dll is external: PetAvance gives a cell next to the head, Avance  *)
(* moves the train and gives the cell its tail has left, -1 while the      *)
(* train is still coming in.  A body between EnterCriticalSection(&scMapa) *)
(* and LeaveCriticalSection is one step.                                   *)
(***************************************************************************)
EXTENDS Integers, FiniteSets, Sequences

CONSTANTS
    Trenes,        \* the nTrenes threads
    Casillas,      \* cells of the map
    Entrada,       \* DLL: the cell where each train comes in
    Vecinas,       \* DLL: the cells PetAvance may give after each cell
    Largo,         \* DLL: cells a whole train covers
    MaxEspera,     \* MAXIMUM_WAIT_OBJECTS of WaitForMultipleObjects: 64
    MaxFallos,     \* bound: calls of TrenNuevo that return -1
    Nadie,         \* a critical section nobody owns
    SinCasilla     \* xcola = -1

ASSUME TrenesAssumption == IsFiniteSet(Trenes)
ASSUME EntradaAssumption == Entrada \in [Trenes -> Casillas]
ASSUME VecinasAssumption == Vecinas \in [Casillas -> SUBSET Casillas]
ASSUME LargoAssumption == Largo \in Nat \ {0}
ASSUME EsperaAssumption == MaxEspera \in Nat
ASSUME FallosAssumption == MaxFallos \in Nat

ASSUME NadieAssumption == Nadie \notin Trenes
ASSUME SinCasillaAssumption == SinCasilla \notin Casillas

VARIABLES
    principal,    \* where main is
    enviados,     \* trains main has posted message 110 to
    salir_bucle,
    bloqueado,
    scInicio,     \* owner of the critical section
    mapa,         \* shared memory: cells marked 1
    pc,           \* where the thread of each train is
    colaMensajes, \* PeekMessage has given the thread its message queue
    parada,       \* message 110 is in the queue
    creado,
    cabeza,       \* xcab, ycab
    xcola,        \* xcola, ycola
    cuerpo,       \* DLL: cells of each train, head first
    fallos

hilo == <<pc, colaMensajes, creado, cabeza, xcola>>
main == <<principal, enviados>>
vars == <<main, salir_bucle, bloqueado, scInicio, mapa, hilo, parada, cuerpo, fallos>>

Pasos == {"evento", "scInicio", "peticion", "mira", "scMapa", "avance", "cola", "fuera"}

TypeOK ==
    /\ principal \in {"arranque", "vigila", "envia", "espera", "fin"}
    /\ enviados \subseteq Trenes
    /\ salir_bucle \in {0, 1}
    /\ bloqueado \in {0, 1}
    /\ scInicio \in Trenes \cup {Nadie}
    /\ mapa \subseteq Casillas
    /\ pc \in [Trenes -> Pasos]
    /\ colaMensajes \in [Trenes -> BOOLEAN]
    /\ parada \in [Trenes -> BOOLEAN]
    /\ creado \in [Trenes -> {0, 1}]
    /\ cabeza \in [Trenes -> Casillas]
    /\ xcola \in [Trenes -> Casillas \cup {SinCasilla}]
    /\ cuerpo \in [Trenes -> Seq(Casillas)]
    /\ fallos \in 0..MaxFallos

Init ==
    /\ principal = "arranque"
    /\ enviados = {}
    /\ salir_bucle = 1
    /\ bloqueado = 0
    /\ scInicio = Nadie
    /\ mapa = {}
    /\ pc = [t \in Trenes |-> "evento"]
    /\ colaMensajes = [t \in Trenes |-> FALSE]
    /\ parada = [t \in Trenes |-> FALSE]
    /\ creado = [t \in Trenes |-> 0]
    /\ cabeza = Entrada
    /\ xcola = [t \in Trenes |-> SinCasilla]
    /\ cuerpo = [t \in Trenes |-> <<>>]
    /\ fallos = 0

-----------------------------------------------------------------------------
(* main *)

\* The threads exist; SetEvent(empezar).
Arrancar ==
    /\ principal = "arranque"
    /\ principal' = "vigila"
    /\ UNCHANGED <<enviados, salir_bucle, bloqueado, scInicio, mapa, hilo, parada, cuerpo, fallos>>

\* The waiting loop ends: salir_bucle = 0, or 60 seconds have gone by.
Vigilar ==
    /\ principal = "vigila"
    /\ principal' = "envia"
    /\ UNCHANGED <<enviados, salir_bucle, bloqueado, scInicio, mapa, hilo, parada, cuerpo, fallos>>

\* PostThreadMessage(110).  It fails for a thread with no message queue; the DLL
\* may or may not have made one before the thread's first PeekMessage.
Enviar(t) ==
    /\ principal = "envia"
    /\ t \notin enviados
    /\ enviados' = enviados \cup {t}
    /\ \/ parada' = [parada EXCEPT ![t] = TRUE]
       \/ ~colaMensajes[t] /\ UNCHANGED parada
    /\ UNCHANGED <<principal, salir_bucle, bloqueado, scInicio, mapa, hilo, cuerpo, fallos>>

\* WaitForMultipleObjects(nTrenes, ..., INFINITE), then Fin() and the end of the process.
\* With more than MAXIMUM_WAIT_OBJECTS handles the call fails at once.
Esperar ==
    /\ principal = "envia"
    /\ enviados = Trenes
    /\ principal' = "espera"
    /\ UNCHANGED <<enviados, salir_bucle, bloqueado, scInicio, mapa, hilo, parada, cuerpo, fallos>>

Terminar ==
    /\ principal = "espera"
    /\ Cardinality(Trenes) > MaxEspera \/ \A t \in Trenes : pc[t] = "fuera"
    /\ principal' = "fin"
    /\ UNCHANGED <<enviados, salir_bucle, bloqueado, scInicio, mapa, hilo, parada, cuerpo, fallos>>

\* CtrlHandler: CTRL+C
CtrlHandler ==
    /\ principal = "vigila"
    /\ salir_bucle' = 0
    /\ UNCHANGED <<main, bloqueado, scInicio, mapa, hilo, parada, cuerpo, fallos>>

-----------------------------------------------------------------------------
(* funcionTrenes *)

\* WaitForSingleObject(empezar)
EsperarEvento(t) ==
    /\ pc[t] = "evento"
    /\ principal # "arranque"
    /\ pc' = [pc EXCEPT ![t] = "scInicio"]
    /\ UNCHANGED <<main, salir_bucle, bloqueado, scInicio, mapa, parada, colaMensajes,
                   creado, cabeza, xcola, cuerpo, fallos>>

\* Fault: EnterCriticalSection(&scInicio) is missing.
EntrarSinSeccion(t) ==
    /\ pc[t] = "scInicio"
    /\ pc' = [pc EXCEPT ![t] = "peticion"]
    /\ UNCHANGED <<main, salir_bucle, bloqueado, mapa, parada, colaMensajes, scInicio,
                   creado, cabeza, xcola, cuerpo, fallos>>

\* EnterCriticalSection(&scInicio) and TrenNuevo, which may fail: ExitThread(-1)
\* with the section still owned.
Entrar(t) ==
    /\ pc[t] = "scInicio"
    /\ scInicio = Nadie
    /\ scInicio' = t
    /\ \/ pc' = [pc EXCEPT ![t] = "peticion"] /\ UNCHANGED fallos
       \/ /\ fallos < MaxFallos
          /\ fallos' = fallos + 1
          /\ pc' = [pc EXCEPT ![t] = "fuera"]
    /\ UNCHANGED <<main, salir_bucle, bloqueado, mapa, parada, colaMensajes,
                   creado, cabeza, xcola, cuerpo>>

\* PetAvance, outside scMapa.
PetAvance(t) ==
    /\ pc[t] = "peticion"
    /\ \E c \in IF cuerpo[t] = <<>> THEN {Entrada[t]} ELSE Vecinas[cuerpo[t][1]] :
          cabeza' = [cabeza EXCEPT ![t] = c]
    /\ pc' = [pc EXCEPT ![t] = "mira"]
    /\ UNCHANGED <<main, salir_bucle, bloqueado, scInicio, mapa, parada, colaMensajes,
                   creado, xcola, cuerpo, fallos>>

\* Fault: PeekMessage with PM_REMOVE and the result ignored.
MirarSinSalir(t) ==
    /\ pc[t] = "mira"
    /\ pc' = [pc EXCEPT ![t] = "scMapa"]
    /\ colaMensajes' = [colaMensajes EXCEPT ![t] = TRUE]
    /\ parada' = [parada EXCEPT ![t] = FALSE]
    /\ UNCHANGED <<main, salir_bucle, bloqueado, scInicio, mapa,
                   creado, cabeza, xcola, cuerpo, fallos>>

\* PeekMessage(110): with the message there, ExitThread(1), whatever it owns.
Mirar(t) ==
    /\ pc[t] = "mira"
    /\ pc' = [pc EXCEPT ![t] = IF parada[t] THEN "fuera" ELSE "scMapa"]
    /\ colaMensajes' = [colaMensajes EXCEPT ![t] = TRUE]
    /\ UNCHANGED <<main, salir_bucle, bloqueado, scInicio, mapa, parada,
                   creado, cabeza, xcola, cuerpo, fallos>>

\* Fault: the cell is marked without looking at it.
OcuparSinMirar(t) ==
    /\ pc[t] = "scMapa"
    /\ mapa' = mapa \cup {cabeza[t]}
    /\ pc' = [pc EXCEPT ![t] = "avance"]
    /\ UNCHANGED <<main, bloqueado, salir_bucle, scInicio, parada, colaMensajes, creado, cabeza,
                   xcola, cuerpo, fallos>>

\* Inside scMapa: take the cell of the head if it is free, or look again.  The first
\* train of all to have waited more than 900 ms declares the deadlock.
Ocupar(t) ==
    /\ pc[t] = "scMapa"
    /\ LET libre == cabeza[t] \notin mapa
       IN  /\ mapa' = mapa \cup {cabeza[t]}
           /\ pc' = [pc EXCEPT ![t] = IF libre THEN "avance" ELSE "mira"]
    /\ \/ UNCHANGED <<bloqueado, salir_bucle>>
       \/ bloqueado = 0 /\ bloqueado' = 1 /\ salir_bucle' = 0
    /\ UNCHANGED <<main, scInicio, parada, colaMensajes, creado, cabeza, xcola, cuerpo, fallos>>

\* Avance, outside scMapa: the DLL moves the train.
Avance(t) ==
    /\ pc[t] = "avance"
    /\ LET entero == Len(cuerpo[t]) = Largo
           resto == IF entero THEN SubSeq(cuerpo[t], 1, Largo - 1) ELSE cuerpo[t]
       IN  /\ cuerpo' = [cuerpo EXCEPT ![t] = <<cabeza[t]>> \o resto]
           /\ xcola' = [xcola EXCEPT ![t] = IF entero THEN cuerpo[t][Largo] ELSE SinCasilla]
    /\ pc' = [pc EXCEPT ![t] = "cola"]
    /\ UNCHANGED <<main, salir_bucle, bloqueado, scInicio, mapa, parada, colaMensajes,
                   creado, cabeza, fallos>>

\* Fault: creado counts the cells left instead of remembering the first.
ColaContada(t) ==
    /\ pc[t] = "cola"
    /\ LET sale == xcola[t] # SinCasilla
       IN  /\ scInicio' = IF sale /\ creado[t] = 0 THEN Nadie ELSE scInicio
           /\ creado' = [creado EXCEPT ![t] = IF sale THEN @ + 1 ELSE @]
           /\ mapa' = IF sale /\ creado[t] = 1 THEN mapa \ {xcola[t]} ELSE mapa
    /\ pc' = [pc EXCEPT ![t] = "peticion"]
    /\ UNCHANGED <<main, salir_bucle, bloqueado, parada, colaMensajes, cabeza, xcola,
                   cuerpo, fallos>>

\* Fault: the cell of the head is cleared instead of the tail's.
ColaPorCabeza(t) ==
    /\ pc[t] = "cola"
    /\ LET sale == xcola[t] # SinCasilla
       IN  /\ scInicio' = IF sale /\ creado[t] = 0 THEN Nadie ELSE scInicio
           /\ creado' = [creado EXCEPT ![t] = IF sale THEN 1 ELSE @]
           /\ mapa' = IF sale /\ creado[t] = 1 THEN mapa \ {cabeza[t]} ELSE mapa
    /\ pc' = [pc EXCEPT ![t] = "peticion"]
    /\ UNCHANGED <<main, salir_bucle, bloqueado, parada, colaMensajes, cabeza, xcola,
                   cuerpo, fallos>>

\* After Avance: the first cell the tail leaves ends the entry and stays marked;
\* the others are cleared under scMapa.  Then Espera and the next turn.
Cola(t) ==
    /\ pc[t] = "cola"
    /\ LET sale == xcola[t] # SinCasilla
       IN  /\ scInicio' = IF sale /\ creado[t] = 0 THEN Nadie ELSE scInicio
           /\ creado' = [creado EXCEPT ![t] = IF sale THEN 1 ELSE @]
           /\ mapa' = IF sale /\ creado[t] = 1 THEN mapa \ {xcola[t]} ELSE mapa
    /\ pc' = [pc EXCEPT ![t] = "peticion"]
    /\ UNCHANGED <<main, salir_bucle, bloqueado, parada, colaMensajes, cabeza, xcola,
                   cuerpo, fallos>>

-----------------------------------------------------------------------------
\* The end of main ends the process, and every thread in it.
Tren(t) == /\ principal # "fin"
           /\ \/ EsperarEvento(t) \/ Entrar(t) \/ PetAvance(t) \/ Mirar(t)
              \/ Ocupar(t) \/ Avance(t) \/ Cola(t)

Principal == Arrancar \/ Vigilar \/ (\E t \in Trenes : Enviar(t)) \/ Esperar \/ Terminar

Next == Principal \/ CtrlHandler \/ \E t \in Trenes : Tren(t)

Spec == Init /\ [][Next]_vars

\* Windows runs every thread; a free critical section goes to one that waits for it.
\* main gives up after 60 s, so it always leaves the waiting loop.
FairSpec == Spec /\ WF_vars(Principal) /\ \A t \in Trenes : WF_vars(Tren(t))

-----------------------------------------------------------------------------
(* Properties *)

Ocupadas(t) == {cuerpo[t][n] : n \in 1..Len(cuerpo[t])}

\* README:3-5, "sin colisiones": no cell belongs to two trains, stopped ones included,
\* and no train covers a cell twice.
SinColision ==
    /\ \A t, u \in Trenes : t # u => Ocupadas(t) \cap Ocupadas(u) = {}
    /\ \A t \in Trenes : Cardinality(Ocupadas(t)) = Len(cuerpo[t])

\* The map the threads look at is never ahead of the trains: a cell that a train covers,
\* or has been given and not yet entered, is marked; nobody else has been given it.
MapaMarcado ==
    \A t \in Trenes :
        /\ Ocupadas(t) \subseteq mapa
        /\ pc[t] = "avance" => /\ cabeza[t] \in mapa
                               /\ \A u \in Trenes : cabeza[t] \notin Ocupadas(u)
                               /\ \A u \in Trenes \ {t} : pc[u] = "avance" => cabeza[u] # cabeza[t]

\* scInicio: only its owner is partly in the map; trains come in one at a time, also
\* when one was stopped or failed half way.
EntradaEscalonada ==
    \A t \in Trenes : pc[t] \in {"peticion", "mira", "scMapa", "avance", "cola"} /\ creado[t] = 0
                          => scInicio = t

\* If every train is whole in the map when main starts to post the stop message,
\* all of them stop and the process ends, even with trains blocking one another.
TerminaSiCreados ==
    principal = "envia" /\ enviados = {} /\ (\A t \in Trenes : creado[t] = 1) ~> principal = "fin"

\* README:3-5, "sin ... interbloqueos": once stopped, nobody waits for ever.
Termina == principal = "envia" ~> principal = "fin"
=============================================================================
