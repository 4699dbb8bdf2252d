------------------------------- MODULE Demonio -------------------------------
(***************************************************************************)
(* grado/redes-cliente-servidor/servidor.c, main: the daemon that waits in *)
(* select for connections and datagrams, forks a child per connection and  *)
(* plays the UDP game itself, and ends on SIGTERM; and the log             *)
(* peticiones.log, which all of them write under a System V semaphore.     *)
(*                                                                         *)
(* What is said in a dialogue is in ServicioTCP and ServicioUDP.  Here an  *)
(* order is the lines of log it leads to: its own and those of its replies,*)
(* none, one or two.                                                       *)
(***************************************************************************)
EXTENDS Integers, FiniteSets

CONSTANTS
    Hijos,           \* the connections, each with the child that serves it
    Padre,           \* the daemon
    MaxOrdenes,      \* bound: orders of all the connections
    MaxDatagramas,   \* datagrams the UDP socket holds; the rest are dropped
    MaxSenales,      \* bound: SIGTERMs sent
    MaxFallos        \* bound: failed calls and killed processes

ASSUME HijosAssumption == IsFiniteSet(Hijos) /\ Padre \notin Hijos
ASSUME BoundsAssumption ==
    /\ MaxOrdenes \in Nat /\ MaxDatagramas \in Nat
    /\ MaxSenales \in Nat /\ MaxFallos \in Nat

Procesos == Hijos \cup {Padre}

VARIABLES
    sem,          \* value of the semaphore
    semExiste,    \* IPC_RMID has not been called
    semadj,       \* what the kernel adds to sem when the process ends (SEM_UNDO)
    fase,         \* the call or test each process stands at
    porEscribir,  \* lines of log it writes before its next recv, recvfrom or end
    muere,        \* recv returned -1: errout after the line it is writing
    FIN,          \* the daemon's flag
    listos,       \* readmask, after select
    alarma,       \* alarm(TIMEOUT) is running
    cola,         \* connections that wait for accept
    datagramas,   \* datagrams in the UDP socket
    ordenes,      \* orders sent over the connections
    senales,      \* SIGTERMs sent so far
    fallos,       \* failures so far
    colados       \* history: times a process entered the section without semop

control == <<FIN, listos, alarma>>
red == <<cola, datagramas, ordenes>>
semaforo == <<sem, semadj, semExiste>>
cuentas == <<senales, fallos>>
vars == <<semaforo, fase, porEscribir, muere, control, red, cuentas, colados>>

\* "espera" is recv in a child and recvfrom, under the alarm, in the daemon; "sale", errout
\* or a crash that is certain.
Fases == {"ausente", "prueba", "select", "pase", "espera", "semwait", "seccion",
          "sale", "fin"}

TypeOK ==
    /\ sem \in Nat
    /\ semExiste \in BOOLEAN
    /\ semadj \in [Procesos -> Int]
    /\ fase \in [Procesos -> Fases]
    /\ porEscribir \in [Procesos -> 0..3]
    /\ muere \in [Hijos -> BOOLEAN]
    /\ FIN \in BOOLEAN
    /\ listos \subseteq {"TCP", "UDP"}
    /\ alarma \in BOOLEAN
    /\ cola \subseteq Hijos
    /\ datagramas \in 0..MaxDatagramas
    /\ ordenes \in 0..MaxOrdenes
    /\ senales \in 0..MaxSenales
    /\ fallos \in 0..MaxFallos
    /\ colados \in Nat

Init ==
    /\ sem = 1
    /\ semExiste = TRUE
    /\ semadj = [p \in Procesos |-> 0]
    /\ fase = [p \in Procesos |-> IF p = Padre THEN "prueba" ELSE "ausente"]
    /\ porEscribir = [p \in Procesos |-> 0]
    /\ muere = [h \in Hijos |-> FALSE]
    /\ FIN = FALSE
    /\ listos = {}
    /\ alarma = FALSE
    /\ cola = {}
    /\ datagramas = 0
    /\ ordenes = 0
    /\ senales = 0
    /\ fallos = 0
    /\ colados = 0

-----------------------------------------------------------------------------
(* Processes *)

Vivo(p) == fase[p] \notin {"ausente", "fin"}

\* exit, or death by a signal: the kernel adds semadj to the semaphore, not below 0.
Deshecho(n, p) ==
    CASE ~semExiste -> n
      [] semExiste /\ n + semadj[p] >= 0 -> n + semadj[p]
      [] OTHER -> 0
Acaba(p) ==
    /\ fase' = [fase EXCEPT ![p] = "fin"]
    /\ sem' = Deshecho(sem, p)
    /\ semadj' = [semadj EXCEPT ![p] = 0]

\* Fault: recvfrom without alarm(TIMEOUT) before it.
AtiendeSinAlarma(p, n) ==
    /\ porEscribir' = [porEscribir EXCEPT ![p] = n]
    /\ fase' = [fase EXCEPT ![p] = IF n = 0 THEN "espera" ELSE "semwait"]
    /\ UNCHANGED alarma

\* Process p has n lines of log to write before it waits for the next order; the
\* daemon waits with its alarm set.
Atiende(p, n) ==
    /\ porEscribir' = [porEscribir EXCEPT ![p] = n]
    /\ fase' = [fase EXCEPT ![p] = IF n = 0 THEN "espera" ELSE "semwait"]
    /\ alarma' = (alarma \/ (p = Padre /\ n = 0))

-----------------------------------------------------------------------------
(* The log: semwait, fopen, fputs, fclose, semsignal *)

\* Fault: semwait without SEM_UNDO.
EntrarSinDeshacer(p) ==
    /\ fase[p] = "semwait" /\ semExiste /\ sem > 0
    /\ sem' = sem - 1
    /\ fase' = [fase EXCEPT ![p] = "seccion"]
    /\ UNCHANGED <<semadj, semExiste, porEscribir, muere, control, red, cuentas, colados>>

\* semwait: semop takes the semaphore.
Entrar(p) ==
    /\ fase[p] = "semwait" /\ semExiste /\ sem > 0
    /\ sem' = sem - 1
    /\ semadj' = [semadj EXCEPT ![p] = @ + 1]
    /\ fase' = [fase EXCEPT ![p] = "seccion"]
    /\ UNCHANGED <<semExiste, porEscribir, muere, control, red, cuentas, colados>>

\* semwait: semop fails, since the semaphore has been removed, and p goes on all the same.
EntrarSinSemaforo(p) ==
    /\ fase[p] = "semwait" /\ ~semExiste
    /\ fase' = [fase EXCEPT ![p] = "seccion"]
    /\ UNCHANGED <<semaforo, porEscribir, muere, control, red, cuentas, colados>>

\* A signal may find p asleep in semop, which then fails, and p goes on all the same.
Colarse(p) ==
    /\ fase[p] = "semwait" /\ semExiste /\ sem = 0
    /\ fase' = [fase EXCEPT ![p] = "seccion"]
    /\ colados' = colados + 1

\* semsignal
Devolver(p) ==
    IF semExiste
      THEN sem' = sem + 1 /\ semadj' = [semadj EXCEPT ![p] = @ - 1]
      ELSE UNCHANGED <<sem, semadj>>

\* The line a child writes after its recv failed.
Ultima(p) == p \in Hijos /\ muere[p]

\* Fault: no semsignal on the way back to recv.
SalirSinSemsignal(p) ==
    /\ fase[p] = "seccion" /\ ~Ultima(p)
    /\ Atiende(p, porEscribir[p] - 1)
    /\ UNCHANGED <<semaforo, muere, FIN, listos, red, cuentas, colados>>

\* semsignal, and on to the next line of log, or to wait.
Salir(p) ==
    /\ fase[p] = "seccion" /\ ~Ultima(p)
    /\ Devolver(p)
    /\ Atiende(p, porEscribir[p] - 1)
    /\ UNCHANGED <<semExiste, muere, FIN, listos, red, cuentas, colados>>

\* semsignal, and on to errout.
SalirPorError(p) ==
    /\ fase[p] = "seccion" /\ Ultima(p)
    /\ Devolver(p)
    /\ fase' = [fase EXCEPT ![p] = "sale"]
    /\ UNCHANGED <<semExiste, porEscribir, muere, control, red, cuentas, colados>>

\* fopen fails: semsignal, and on to fputs on no file.
FallaFopen(p) ==
    /\ fase[p] = "seccion" /\ fallos < MaxFallos
    /\ Devolver(p)
    /\ fase' = [fase EXCEPT ![p] = "sale"]
    /\ fallos' = fallos + 1
    /\ UNCHANGED <<semExiste, porEscribir, muere, control, red, senales, colados>>

\* errout, or the crash of fputs.
Morir(p) ==
    /\ fase[p] = "sale"
    /\ Acaba(p)
    /\ UNCHANGED <<semExiste, porEscribir, muere, control, red, cuentas, colados>>

-----------------------------------------------------------------------------
(* serverTCP *)

\* recv gives an order; it and its replies are logged.
Orden(h) ==
    /\ fase[h] = "espera" /\ ordenes < MaxOrdenes
    /\ ordenes' = ordenes + 1
    /\ \E respuestas \in 0..2 : Atiende(h, 1 + respuestas)
    /\ UNCHANGED <<semaforo, muere, FIN, listos, cola, datagramas, cuentas, colados>>

\* recv gives -1: the child logs once more, and then looks at len and goes to errout.
UltimaLinea(h) ==
    /\ fase[h] = "espera"
    /\ fase' = [fase EXCEPT ![h] = "semwait"]
    /\ porEscribir' = [porEscribir EXCEPT ![h] = 1]
    /\ muere' = [muere EXCEPT ![h] = TRUE]

\* The client has reset the connection.
Reiniciada(h) ==
    /\ UltimaLinea(h)
    /\ UNCHANGED <<semaforo, control, red, cuentas, colados>>

\* recv gives 0: the client has closed.
FinDeEntrada(h) ==
    /\ fase[h] = "espera"
    /\ Acaba(h)
    /\ UNCHANGED <<semExiste, porEscribir, muere, control, red, cuentas, colados>>

-----------------------------------------------------------------------------
(* main *)

\* Fault: while (1).
PruebaSinFIN ==
    /\ fase[Padre] = "prueba"
    /\ fase' = [fase EXCEPT ![Padre] = "select"]
    /\ UNCHANGED <<semaforo, porEscribir, muere, control, red, cuentas, colados>>

\* while (!FIN): into select, where nobody looks at FIN.
Prueba ==
    /\ fase[Padre] = "prueba" /\ ~FIN
    /\ fase' = [fase EXCEPT ![Padre] = "select"]
    /\ UNCHANGED <<semaforo, porEscribir, muere, control, red, cuentas, colados>>

\* Out of the loop: close the sockets, remove the semaphore, exit.
Cerrar ==
    /\ fase[Padre] = "prueba" /\ FIN
    /\ fase' = [fase EXCEPT ![Padre] = "fin"]
    /\ semExiste' = FALSE
    /\ UNCHANGED <<sem, semadj, porEscribir, muere, control, red, cuentas, colados>>

\* select returns with every socket that is ready.
Select ==
    /\ fase[Padre] = "select"
    /\ listos' = (IF cola # {} THEN {"TCP"} ELSE {}) \cup (IF datagramas > 0 THEN {"UDP"} ELSE {})
    /\ listos' # {}
    /\ fase' = [fase EXCEPT ![Padre] = "pase"]
    /\ UNCHANGED <<semaforo, porEscribir, muere, FIN, alarma, red, cuentas, colados>>

\* accept and fork: the child greets its client, a line of log.
Aceptar(h) ==
    /\ fase[Padre] = "pase" /\ "TCP" \in listos /\ h \in cola
    /\ cola' = cola \ {h}
    /\ listos' = listos \ {"TCP"}
    /\ fase' = [fase EXCEPT ![h] = "semwait",
                            ![Padre] = IF "UDP" \in listos THEN @ ELSE "prueba"]
    /\ porEscribir' = [porEscribir EXCEPT ![h] = 1]
    /\ UNCHANGED <<semaforo, muere, FIN, alarma, datagramas, ordenes, cuentas, colados>>

\* recvfrom and serverUDP, up to its first recvfrom: the replies to the first order.
EmpezarUDP ==
    /\ fase[Padre] = "pase" /\ listos = {"UDP"}
    /\ datagramas' = datagramas - 1
    /\ listos' = {}
    /\ Atiende(Padre, 1)
    /\ UNCHANGED <<semaforo, muere, FIN, cola, ordenes, cuentas, colados>>

\* Fault: recvfrom's -1 is taken for a datagram.
SeguirUDPSinMirar ==
    /\ fase[Padre] = "espera"
    /\ datagramas' = datagramas - 1
    /\ Atiende(Padre, 2)
    /\ UNCHANGED <<semaforo, muere, FIN, listos, cola, ordenes, cuentas, colados>>

\* recvfrom in serverUDP: one more order of the same game.
SeguirUDP ==
    /\ fase[Padre] = "espera" /\ datagramas > 0
    /\ datagramas' = datagramas - 1
    /\ Atiende(Padre, 2)
    /\ UNCHANGED <<semaforo, muere, FIN, listos, cola, ordenes, cuentas, colados>>

\* accept or fork fails, recvfrom fails, or len is -1 before anybody sets it: exit(1).
FallaDemonio ==
    /\ fase[Padre] \in {"pase", "espera"} /\ fallos < MaxFallos
    /\ Acaba(Padre)
    /\ fallos' = fallos + 1
    /\ UNCHANGED <<semExiste, porEscribir, muere, control, red, senales, colados>>

-----------------------------------------------------------------------------
(* Signals *)

\* A signal makes p's call return: recvfrom ends the game and select the loop; recv gives -1.
Interrumpida(p) ==
    \/ /\ p = Padre /\ fase[p] \in {"select", "espera"}
       /\ fase' = [fase EXCEPT ![p] = "prueba"]
       /\ UNCHANGED <<porEscribir, muere, colados>>
    \/ p \in Hijos /\ UltimaLinea(p) /\ UNCHANGED colados
    \/ Colarse(p) /\ UNCHANGED <<porEscribir, muere>>

\* It runs its handler and p goes on: p was in no call, or had not entered it yet.
Desapercibida == UNCHANGED <<fase, porEscribir, muere, colados>>

\* SIGTERM, whose handler finalizar the children inherit.
SIGTERM(p) ==
    /\ Vivo(p) /\ senales < MaxSenales
    /\ senales' = senales + 1
    /\ FIN' = (FIN \/ p = Padre)
    /\ Interrumpida(p) \/ Desapercibida
    /\ UNCHANGED <<semaforo, listos, alarma, red, fallos>>

\* The alarm rings six seconds after the last call of alarm(): nobody cancels it when
\* recvfrom returns.  The daemon is in recvfrom by then, if it has nothing to log.
SIGALRM ==
    /\ alarma /\ Vivo(Padre)
    /\ alarma' = FALSE
    /\ \/ Interrumpida(Padre) /\ FIN' = (FIN \/ fase[Padre] = "select")
       \/ fase[Padre] # "espera" /\ Desapercibida /\ UNCHANGED FIN
    /\ UNCHANGED <<semaforo, listos, red, cuentas>>

\* SIGKILL; or SIGPIPE, in a child whose client has gone.
Matar(p) ==
    /\ Vivo(p) /\ fallos < MaxFallos
    /\ Acaba(p)
    /\ fallos' = fallos + 1
    /\ UNCHANGED <<semExiste, porEscribir, muere, control, red, senales, colados>>

-----------------------------------------------------------------------------
(* Clients *)

Conectar(h) ==
    /\ fase[h] = "ausente" /\ h \notin cola /\ Vivo(Padre)
    /\ cola' = cola \cup {h}
    /\ UNCHANGED <<semaforo, fase, porEscribir, muere, control, datagramas, ordenes,
                   cuentas, colados>>

\* Clients may go on sending datagrams for ever.
Enviar ==
    /\ datagramas < MaxDatagramas /\ Vivo(Padre)
    /\ datagramas' = datagramas + 1
    /\ UNCHANGED <<semaforo, fase, porEscribir, muere, control, cola, ordenes, cuentas, colados>>

-----------------------------------------------------------------------------
Registro(p) == Entrar(p) \/ EntrarSinSemaforo(p) \/ Salir(p) \/ SalirPorError(p) \/ Morir(p)
PasoDemonio == \/ Registro(Padre) \/ Prueba \/ Cerrar \/ Select
               \/ (\E h \in Hijos : Aceptar(h)) \/ EmpezarUDP \/ SeguirUDP \/ SIGALRM
Cliente(h) == Orden(h) \/ Reiniciada(h) \/ FinDeEntrada(h) \/ Conectar(h)
Fallo == FallaDemonio \/ \E p \in Procesos : FallaFopen(p) \/ Matar(p)

Next == \/ PasoDemonio
        \/ \E h \in Hijos : Registro(h) \/ Cliente(h)
        \/ Enviar
        \/ \E p \in Procesos : SIGTERM(p)
        \/ Fallo

Spec == Init /\ [][Next]_vars

\* Processes run, alarms ring, and semsignal hands the semaphore to a process asleep in
\* semop; clients, signals and failures come if they want to.
FairSpec == Spec /\ WF_vars(PasoDemonio) /\ \A h \in Hijos : SF_vars(Registro(h))

-----------------------------------------------------------------------------
(* Properties *)

EnSeccion == {p \in Procesos : fase[p] = "seccion"}

\* The log is written by one process at a time, plus one for each semop a signal has
\* interrupted, whatever dies where; and an idle log is never left taken.
SemaforoCuadra ==
    semExiste => /\ Cardinality(EnSeccion) <= 1 + colados
                 /\ EnSeccion = {} => sem > 0

\* Nobody waits for the log for ever: a process that dies inside gives it back, and
\* those that wait when the daemon removes the semaphore go on.
TodosRegistran == \A p \in Procesos : fase[p] = "semwait" ~> fase[p] # "semwait"

\* README:4, "simultáneamente sobre TCP y sobre UDP": a connection is accepted, whatever
\* the UDP clients do, or the daemon ends.
ConexionAtendida == \A h \in Hijos : h \in cola ~> (h \notin cola \/ ~Vivo(Padre))

\* The UDP clients stop sending at some point.
CallanUDP == <>[][~Enviar]_vars

\* Only a UDP game that never ends keeps a connection waiting: the alarm of
\* servidor.c:1841 ends each one, six seconds after its last datagram.
ConexionTrasSilencio == CallanUDP => ConexionAtendida

\* Once its handler has run, SIGTERM ends the daemon, when the game it plays ends; only in
\* select, with nothing for it, is the flag of the handler not seen (servidor.c:248-252).
CierreTrasSenal ==
    CallanUDP => ((FIN /\ (fase[Padre] = "select" => cola # {} \/ datagramas > 0)) ~> ~Vivo(Padre))
=============================================================================
