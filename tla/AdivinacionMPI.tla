---------------------------- MODULE AdivinacionMPI ----------------------------
(***************************************************************************)
(* master/arquitectura-computadores-mpi/adivinacion_distribuida_mpi.c.     *)
(* PES (rank 0) hands out numbers; each PG holds one number and looks for  *)
(* a free PA; the PA guesses it by binary search; the PIs only wait.       *)
(*                                                                         *)
(* MPI: one FIFO channel per ordered pair of ranks, no order between       *)
(* channels.  MPI_Probe(ANY, ANY) sees the first message of any non-empty  *)
(* channel; MPI_Recv takes the first message with the tag it names.  A     *)
(* process's step is one receive and all it does until the next one, its   *)
(* sends included.  MPI may send eagerly, and MPI_Send then never blocks,  *)
(* or by rendezvous, and it blocks until the message is received: modo.    *)
(***************************************************************************)
EXTENDS BusquedaBinaria, FiniteSets, Sequences

CONSTANTS
    PGCount,     \* argv[1]
    PACount,     \* argv[2]
    PICount,     \* the rest of the ranks
    TOTALNUM     \* 25

\* No PG at all leaves PES waiting; without PAs idPAs[0] is outside its array.
ASSUME PGAssumption == PGCount \in Nat \ {0}
ASSUME PAAssumption == PACount \in 1..99   \* infoPaToPg and auxInfoPAs are int[100]
ASSUME PIAssumption == PICount \in Nat
ASSUME TotalAssumption == TOTALNUM \in Nat \ {0}

PES == 0
PGs == 1..PGCount
PAs == (PGCount + 1)..(PGCount + PACount)
PIs == (PGCount + PACount + 1)..(PGCount + PACount + PICount)
Trabajadores == PGs \cup PAs \cup PIs
Rangos == {PES} \cup Trabajadores
Indices == 1..TOTALNUM

VARIABLES
    modo,         \* how MPI sends
    canal,        \* canal[o][d]: messages from o to d, in order
    fase,         \* the receive each process stands at
    arrayNumeros, \* PES: the numbers, from cargarNumeros
    nextNumber, numRemaining, contadorFinalizados, statsRecv,  \* PES
    recibidas,    \* PES: recibidasParciales
    numAAdivinar, \* PG: index of its number in arrayNumeros
    k, idPA,      \* PG: next PA to ask; PA of its session
    contador,     \* PG: answers given in its session
    estatusPA, origenPG, numMin, numMax, numMedio   \* PA

pes == <<arrayNumeros, nextNumber, numRemaining, contadorFinalizados, statsRecv, recibidas>>
pg == <<numAAdivinar, k, idPA, contador>>
pa == <<estatusPA, origenPG, numMin, numMax, numMedio>>
vars == <<modo, canal, fase, pes, pg, pa>>

Tags == {"ID", "INFOPAS", "NOTIFICAR", "SOLICITUD", "PROCESAMIENTO",
         "ESTADISTICAS", "FINALIZACION", "FINAL"}
Fases == {"inicio", "id", "infopas", "bucle", "conecta", "adivina", "fin"}
Mensajes == [tag : Tags, dato : Nat, respuestas : Nat]

TypeOK ==
    /\ modo \in {"ansioso", "cita"}
    /\ canal \in [Rangos -> [Rangos -> Seq(Mensajes)]]
    /\ fase \in [Rangos -> Fases]
    /\ arrayNumeros \in [Indices -> Aleatorios]
    /\ nextNumber \in 0..TOTALNUM
    /\ numRemaining \in 0..TOTALNUM
    /\ contadorFinalizados \in 0..PGCount
    /\ statsRecv \in 0..Cardinality(Trabajadores)
    /\ recibidas \in Seq([numero : Indices, pg : PGs, respuestas : Nat])
    /\ numAAdivinar \in [PGs -> 0..TOTALNUM]
    /\ k \in [PGs -> 0..PACount]
    /\ idPA \in [PGs -> 0..(PACount - 1)]
    /\ contador \in [PGs -> Nat]
    /\ estatusPA \in [PAs -> {"LIBRE", "OCUPADO"}]
    /\ origenPG \in [PAs -> 0..PGCount]
    /\ numMin \in [PAs -> 0..NumMax]
    /\ numMax \in [PAs -> 0..NumMax]
    /\ numMedio \in [PAs -> 0..NumMax]

Init ==
    /\ modo \in {"ansioso", "cita"}
    /\ canal = [o \in Rangos |-> [d \in Rangos |-> <<>>]]
    /\ fase = [r \in Rangos |-> IF r = PES THEN "inicio" ELSE "id"]
    /\ arrayNumeros \in [Indices -> Aleatorios]
    /\ nextNumber = 0
    /\ numRemaining = TOTALNUM
    /\ contadorFinalizados = 0
    /\ statsRecv = 0
    /\ recibidas = <<>>
    /\ numAAdivinar = [p \in PGs |-> 0]
    /\ k = [p \in PGs |-> 0]
    /\ idPA = [p \in PGs |-> 0]
    /\ contador = [p \in PGs |-> 0]
    /\ estatusPA = [a \in PAs |-> "LIBRE"]
    /\ origenPG = [a \in PAs |-> 0]
    /\ numMin = [a \in PAs |-> 0]
    /\ numMax = [a \in PAs |-> NumMax]
    /\ numMedio = [a \in PAs |-> Medio(0, NumMax)]

-----------------------------------------------------------------------------
(* MPI *)

Msj(t, d) == [tag |-> t, dato |-> d, respuestas |-> 0]

\* A process in a send by rendezvous, and the message it has got to: the code answers a PA
\* before it reports to PES, which sends in the order of its loops.
Enviando(o) == modo = "cita" /\ \E d \in Rangos : canal[o][d] # <<>>
Vez(o, d) ==
    LET t == Head(canal[o][d]).tag
    IN  CASE t \in {"ID", "SOLICITUD", "PROCESAMIENTO"} -> 0
          [] t \in {"INFOPAS", "ESTADISTICAS", "FINAL"} -> 1
          [] t = "NOTIFICAR" -> 2
          [] t = "FINALIZACION" /\ d \in 1..(PGCount - 1) /\ fase[d] # "fin" -> 3
          [] t = "FINALIZACION" /\ d \in PIs -> 4
          [] t = "FINALIZACION" /\ d \in PAs -> 5
          [] OTHER -> 6
EnCurso(o, d) ==
    \A e \in Rangos \ {d} : canal[o][e] # <<>> =>
        Vez(o, d) < Vez(o, e) \/ (Vez(o, d) = Vez(o, e) /\ d < e)
Llega(o, d) == modo = "cita" => ~Enviando(d) /\ EnCurso(o, d)

\* Process d has a message of o with tag t; the first message of o has it.
Hay(o, d, t) == \E n \in DOMAIN canal[o][d] : canal[o][d][n].tag = t
Delante(o, d, t) == canal[o][d] # <<>> /\ Head(canal[o][d]).tag = t

\* MPI_Probe(MPI_ANY_SOURCE, MPI_ANY_TAG), and MPI_Recv from o with tag t: what d may find.
Probe(o, d, t) == Delante(o, d, t) /\ Llega(o, d)
Espera(o, d, t) == Hay(o, d, t) /\ (modo = "cita" => Delante(o, d, t)) /\ Llega(o, d)

\* Position of the first message of s with tag t.
Primero(s, t) == CHOOSE n \in DOMAIN s : s[n].tag = t /\ \A m \in 1..(n - 1) : s[m].tag # t
Recibido(o, d, t) == canal[o][d][Primero(canal[o][d], t)]

\* The channels after MPI_Recv(o, t) by d, and after MPI_Send of m in c.
TrasRecv(o, d, t) ==
    LET n == Primero(canal[o][d], t)
    IN  [canal EXCEPT ![o][d] = SubSeq(@, 1, n - 1) \o SubSeq(@, n + 1, Len(@))]
Send(c, o, d, m) == [c EXCEPT ![o][d] = Append(@, m)]

-----------------------------------------------------------------------------
(* process_pes *)

Menor(x, y) == IF x < y THEN x ELSE y
PGReal == Menor(PGCount, TOTALNUM)

\* The while of process_pes goes on.
Sigue(remaining, recv) == remaining > 0 \/ recv < Cardinality(Trabajadores)

\* Fault: the first numbers go out and nextNumber is not advanced past them all.
PESRepartirSinAvance ==
    /\ fase[PES] = "inicio"
    /\ canal' = [o \in Rangos |-> [d \in Rangos |->
                   IF o # PES \/ d = PES THEN <<>>
                   ELSE <<Msj("ID", d)>>
                        \o (IF d \in PGs THEN <<Msj("INFOPAS", PACount)>> ELSE <<>>)
                        \o (IF d \in 1..PGReal THEN <<Msj("NOTIFICAR", d)>> ELSE <<>>)]]
    /\ nextNumber' = PGReal - 1
    /\ fase' = [fase EXCEPT ![PES] = "bucle"]
    /\ UNCHANGED <<modo, arrayNumeros, numRemaining, contadorFinalizados, statsRecv, recibidas, pg, pa>>

\* TAG_ID to every process, TAG_INFOPAS and the first numbers to the PGs.
PESRepartir ==
    /\ fase[PES] = "inicio"
    /\ canal' = [o \in Rangos |-> [d \in Rangos |->
                   IF o # PES \/ d = PES THEN <<>>
                   ELSE <<Msj("ID", d)>>
                        \o (IF d \in PGs THEN <<Msj("INFOPAS", PACount)>> ELSE <<>>)
                        \o (IF d \in 1..PGReal THEN <<Msj("NOTIFICAR", d)>> ELSE <<>>)]]
    /\ nextNumber' = PGReal
    /\ fase' = [fase EXCEPT ![PES] = "bucle"]
    /\ UNCHANGED <<modo, arrayNumeros, numRemaining, contadorFinalizados, statsRecv, recibidas, pg, pa>>

\* TAG_FINALIZACION messages that the four loops send to d.
Finales(d) ==
    LET f == <<Msj("FINALIZACION", 0)>>
    IN  (IF d \in 1..(PGCount - 1) \cup PIs \cup PAs THEN f ELSE <<>>)
        \o (IF d \in PGReal..PGCount THEN f ELSE <<>>)

\* Fault: the next number goes out and nextNumber stays.
PESEstadisticasSinAvance(o) ==
    /\ fase[PES] = "bucle" /\ nextNumber < TOTALNUM
    /\ Probe(o, PES, "ESTADISTICAS")
    /\ LET m == Recibido(o, PES, "ESTADISTICAS")
       IN  recibidas' = Append(recibidas, [numero |-> m.dato, pg |-> o, respuestas |-> m.respuestas])
    /\ canal' = Send(TrasRecv(o, PES, "ESTADISTICAS"), PES, o, Msj("NOTIFICAR", nextNumber + 1))
    /\ numRemaining' = numRemaining - 1
    /\ fase' = [fase EXCEPT ![PES] = IF Sigue(numRemaining - 1, statsRecv) THEN @ ELSE "fin"]
    /\ UNCHANGED <<modo, arrayNumeros, nextNumber, contadorFinalizados, statsRecv, pg, pa>>

\* TAG_ESTADISTICAS: collect, and give o the next number or count it as finished.
PESEstadisticas(o) ==
    /\ fase[PES] = "bucle"
    /\ Probe(o, PES, "ESTADISTICAS")
    /\ LET m == Recibido(o, PES, "ESTADISTICAS")
           c == TrasRecv(o, PES, "ESTADISTICAS")
           quedan == nextNumber < TOTALNUM
           todos == ~quedan /\ contadorFinalizados + 1 = PGReal
       IN  /\ recibidas' = Append(recibidas,
                             [numero |-> m.dato, pg |-> o, respuestas |-> m.respuestas])
           /\ numRemaining' = numRemaining - 1
           /\ nextNumber' = IF quedan THEN nextNumber + 1 ELSE nextNumber
           /\ contadorFinalizados' = IF quedan THEN contadorFinalizados ELSE contadorFinalizados + 1
           /\ canal' = [e \in Rangos |-> [d \in Rangos |->
                          c[e][d] \o (IF e = PES /\ d = o /\ quedan
                                        THEN <<Msj("NOTIFICAR", nextNumber + 1)>>
                                      ELSE IF e = PES /\ todos THEN Finales(d)
                                      ELSE <<>>)]]
           /\ fase' = [fase EXCEPT ![PES] =
                         IF Sigue(numRemaining - 1, statsRecv) THEN @ ELSE "fin"]
    /\ UNCHANGED <<modo, arrayNumeros, statsRecv, pg, pa>>

\* TAG_FINAL
PESFinal(o) ==
    /\ fase[PES] = "bucle"
    /\ Probe(o, PES, "FINAL")
    /\ canal' = TrasRecv(o, PES, "FINAL")
    /\ statsRecv' = statsRecv + 1
    /\ fase' = [fase EXCEPT ![PES] = IF Sigue(numRemaining, statsRecv + 1) THEN @ ELSE "fin"]
    /\ UNCHANGED <<modo, arrayNumeros, nextNumber, numRemaining, contadorFinalizados, recibidas, pg, pa>>

-----------------------------------------------------------------------------
(* Every other process *)

\* The first MPI_Recv: TAG_ID from PES.
Identificar(r) ==
    /\ fase[r] = "id"
    /\ Espera(PES, r, "ID")
    /\ canal' = TrasRecv(PES, r, "ID")
    /\ fase' = [fase EXCEPT ![r] = IF r \in PGs THEN "infopas" ELSE "bucle"]
    /\ UNCHANGED <<modo, pes, pg, pa>>

\* TAG_FINALIZACION: send the final statistics and return.
Finalizar(r) ==
    /\ fase[r] = "bucle"
    /\ IF r \in PIs THEN TRUE ELSE \E o \in Rangos : Probe(o, r, "FINALIZACION")
    /\ Espera(PES, r, "FINALIZACION")
    /\ canal' = Send(TrasRecv(PES, r, "FINALIZACION"), r, PES, Msj("FINAL", 0))
    /\ fase' = [fase EXCEPT ![r] = "fin"]
    /\ UNCHANGED <<modo, pes, pg, pa>>

-----------------------------------------------------------------------------
(* process_pg *)

idPAs(n) == PGCount + 1 + n

PGInfoPAs(p) ==
    /\ fase[p] = "infopas"
    /\ Espera(PES, p, "INFOPAS")
    /\ canal' = TrasRecv(PES, p, "INFOPAS")
    /\ fase' = [fase EXCEPT ![p] = "bucle"]
    /\ UNCHANGED <<modo, pes, pg, pa>>

\* The PA asked when k has the value n: past the last one the loop wraps to 0.
Turno(n) == IF n = PACount THEN 0 ELSE n

\* TAG_NOTIFICAR_NUMERO, up to the first request.
PGNotificar(p) ==
    /\ fase[p] = "bucle"
    /\ \E o \in Rangos : Probe(o, p, "NOTIFICAR")
    /\ Espera(PES, p, "NOTIFICAR")
    /\ LET m == Recibido(PES, p, "NOTIFICAR")
           n == Turno(k[p])
       IN  /\ numAAdivinar' = [numAAdivinar EXCEPT ![p] = m.dato]
           /\ k' = [k EXCEPT ![p] = n]
           /\ canal' = Send(TrasRecv(PES, p, "NOTIFICAR"), p, idPAs(n), Msj("SOLICITUD", 1))
    /\ contador' = [contador EXCEPT ![p] = 0]
    /\ fase' = [fase EXCEPT ![p] = "conecta"]
    /\ UNCHANGED <<modo, pes, pa, idPA>>

\* The answer to a request: the PA is free.
PGConectado(p) ==
    /\ fase[p] = "conecta"
    /\ LET a == idPAs(k[p])
       IN  /\ Espera(a, p, "SOLICITUD")
           /\ Recibido(a, p, "SOLICITUD").dato = 1
           /\ canal' = TrasRecv(a, p, "SOLICITUD")
    /\ idPA' = [idPA EXCEPT ![p] = k[p]]
    /\ k' = [k EXCEPT ![p] = @ + 1]
    /\ fase' = [fase EXCEPT ![p] = "adivina"]
    /\ UNCHANGED <<modo, pes, pa, numAAdivinar, contador>>

\* The answer to a request: the PA is busy; ask the next one.
PGRechazado(p) ==
    /\ fase[p] = "conecta"
    /\ LET a == idPAs(k[p])
           n == Turno(k[p] + 1)
       IN  /\ Espera(a, p, "SOLICITUD")
           /\ Recibido(a, p, "SOLICITUD").dato = 0
           /\ canal' = Send(TrasRecv(a, p, "SOLICITUD"), p, idPAs(n), Msj("SOLICITUD", 1))
           /\ k' = [k EXCEPT ![p] = n]
    /\ UNCHANGED <<modo, pes, pa, fase, numAAdivinar, contador, idPA>>

\* A proposal of the PA: answer it, and after IGUAL report to PES.
PGAdivina(p) ==
    /\ fase[p] = "adivina"
    /\ LET a == idPAs(idPA[p])
           c == Caracter(arrayNumeros[numAAdivinar[p]], Recibido(a, p, "PROCESAMIENTO").dato)
           enviado == Send(TrasRecv(a, p, "PROCESAMIENTO"), p, a, Msj("PROCESAMIENTO", c))
           stats == [tag |-> "ESTADISTICAS", dato |-> numAAdivinar[p],
                     respuestas |-> contador[p] + 1]
       IN  /\ Espera(a, p, "PROCESAMIENTO")
           /\ canal' = IF c = IGUAL THEN Send(enviado, p, PES, stats) ELSE enviado
           /\ fase' = [fase EXCEPT ![p] = IF c = IGUAL THEN "bucle" ELSE @]
    /\ contador' = [contador EXCEPT ![p] = @ + 1]
    /\ UNCHANGED <<modo, pes, pa, numAAdivinar, k, idPA>>

-----------------------------------------------------------------------------
(* process_pa *)

\* Fault: estatusPA is not set, so the next request is accepted too.
PASolicitudSinOcupar(a, o) ==
    /\ fase[a] = "bucle"
    /\ Probe(o, a, "SOLICITUD")
    /\ canal' = Send(Send(TrasRecv(o, a, "SOLICITUD"), a, o, Msj("SOLICITUD", 1)),
                     a, o, Msj("PROCESAMIENTO", Medio(0, NumMax)))
    /\ origenPG' = [origenPG EXCEPT ![a] = o]
    /\ numMin' = [numMin EXCEPT ![a] = 0]
    /\ numMax' = [numMax EXCEPT ![a] = NumMax]
    /\ numMedio' = [numMedio EXCEPT ![a] = Medio(0, NumMax)]
    /\ UNCHANGED <<modo, fase, pes, pg, estatusPA>>

\* TAG_SOLICITUD_CONEXION: a free PA accepts and sends its first proposal.
PASolicitud(a, o) ==
    /\ fase[a] = "bucle"
    /\ Probe(o, a, "SOLICITUD")
    /\ LET libre == estatusPA[a] = "LIBRE"
           medio == Medio(0, NumMax)
           c == Send(TrasRecv(o, a, "SOLICITUD"), a, o, Msj("SOLICITUD", IF libre THEN 1 ELSE 0))
       IN  /\ canal' = IF libre THEN Send(c, a, o, Msj("PROCESAMIENTO", medio)) ELSE c
           /\ estatusPA' = [estatusPA EXCEPT ![a] = "OCUPADO"]
           /\ origenPG' = [origenPG EXCEPT ![a] = IF libre THEN o ELSE @]
           /\ numMin' = [numMin EXCEPT ![a] = IF libre THEN 0 ELSE @]
           /\ numMax' = [numMax EXCEPT ![a] = IF libre THEN NumMax ELSE @]
           /\ numMedio' = [numMedio EXCEPT ![a] = IF libre THEN medio ELSE @]
    /\ UNCHANGED <<modo, fase, pes, pg>>

\* Fault: after IGUAL the PA stays OCUPADO.
PAProcesaSinLiberar(a, o) ==
    /\ fase[a] = "bucle"
    /\ Probe(o, a, "PROCESAMIENTO")
    /\ Espera(origenPG[a], a, "PROCESAMIENTO")
    /\ LET c == Recibido(origenPG[a], a, "PROCESAMIENTO").dato
           recibido == TrasRecv(origenPG[a], a, "PROCESAMIENTO")
           medio == Medio(NuevoMin(c, numMin[a], numMedio[a]), NuevoMax(c, numMax[a], numMedio[a]))
       IN  /\ canal' = IF c = IGUAL THEN recibido
                       ELSE Send(recibido, a, origenPG[a], Msj("PROCESAMIENTO", medio))
           /\ numMin' = [numMin EXCEPT ![a] = NuevoMin(c, @, numMedio[a])]
           /\ numMax' = [numMax EXCEPT ![a] = NuevoMax(c, @, numMedio[a])]
           /\ numMedio' = [numMedio EXCEPT ![a] = IF c = IGUAL THEN @ ELSE medio]
    /\ UNCHANGED <<modo, fase, pes, pg, origenPG, estatusPA>>

\* TAG_PROCESAMIENTO_NUMERO: narrow the range and propose again, or close the session.
PAProcesa(a, o) ==
    /\ fase[a] = "bucle"
    /\ Probe(o, a, "PROCESAMIENTO")
    /\ Espera(origenPG[a], a, "PROCESAMIENTO")
    /\ LET c == Recibido(origenPG[a], a, "PROCESAMIENTO").dato
           recibido == TrasRecv(origenPG[a], a, "PROCESAMIENTO")
           minimo == NuevoMin(c, numMin[a], numMedio[a])
           maximo == NuevoMax(c, numMax[a], numMedio[a])
           medio == Medio(minimo, maximo)
       IN  /\ canal' = IF c = IGUAL THEN recibido
                       ELSE Send(recibido, a, origenPG[a], Msj("PROCESAMIENTO", medio))
           /\ estatusPA' = [estatusPA EXCEPT ![a] = IF c = IGUAL THEN "LIBRE" ELSE @]
           /\ numMin' = [numMin EXCEPT ![a] = minimo]
           /\ numMax' = [numMax EXCEPT ![a] = maximo]
           /\ numMedio' = [numMedio EXCEPT ![a] = IF c = IGUAL THEN @ ELSE medio]
    /\ UNCHANGED <<modo, fase, pes, pg, origenPG>>

-----------------------------------------------------------------------------
PasoPES == PESRepartir \/ \E o \in Rangos : PESEstadisticas(o) \/ PESFinal(o)
PasoPG(p) == \/ PGInfoPAs(p) \/ PGNotificar(p) \/ PGConectado(p)
             \/ PGRechazado(p) \/ PGAdivina(p)
PasoPA(a, o) == PASolicitud(a, o) \/ PAProcesa(a, o)

\* Every process has returned: nothing more happens.
Terminado == /\ \A r \in Rangos : fase[r] = "fin"
             /\ UNCHANGED vars

Next == \/ PasoPES
        \/ \E r \in Trabajadores : Identificar(r) \/ Finalizar(r)
        \/ \E p \in PGs : PasoPG(p)
        \/ \E a \in PAs, o \in Rangos : PasoPA(a, o)
        \/ Terminado

Spec == Init /\ [][Next]_vars

\* Every process runs.  A PA must not leave a waiting message for ever: the MPI
\* standard does not promise it of a wildcard receive, but OpenMPI and MPICH match
\* the queue of unexpected messages in order of arrival.
FairSpec ==
    /\ Spec
    /\ WF_vars(PasoPES)
    /\ \A p \in PGs : WF_vars(Identificar(p) \/ Finalizar(p) \/ PasoPG(p))
    /\ \A r \in PIs \cup PAs : WF_vars(Identificar(r) \/ Finalizar(r))
    /\ \A a \in PAs, o \in PGs : SF_vars(PasoPA(a, o))

-----------------------------------------------------------------------------
(* Properties *)

EnSesion(p, a) == fase[p] = "adivina" /\ idPAs(idPA[p]) = a

\* README:20-27, mutual exclusion over the PAs: a PG that believes it is connected
\* has its PA to itself, and the PA knows it.
SesionExclusiva ==
    \A p \in PGs, a \in PAs : EnSesion(p, a) =>
        /\ estatusPA[a] = "OCUPADO" /\ origenPG[a] = p
        /\ \A q \in PGs \ {p} : ~EnSesion(q, a)

\* process_pa probes any source and then receives from origenPG (lines 452, 480):
\* an answer from anybody else would block it, or be taken for this session's.
RespuestaDelOrigen ==
    \A a \in PAs, o \in Rangos : Hay(o, a, "PROCESAMIENTO") =>
        /\ o = origenPG[a] /\ estatusPA[a] = "OCUPADO"
        /\ Delante(o, a, "PROCESAMIENTO") /\ Len(canal[o][a]) <= 2

\* The number of a session stays inside the range of its PA, from which the next
\* proposal comes, however the messages of the others interleave.
RangoContiene ==
    \A p \in PGs, a \in PAs : EnSesion(p, a) =>
        /\ numMin[a] <= arrayNumeros[numAAdivinar[p]]
        /\ arrayNumeros[numAAdivinar[p]] < numMax[a]

\* The search is logarithmic: the width halves, rounding up, and width 1 is a hit.
PreguntasAcotadas == \A n \in DOMAIN recibidas : Logaritmica(recibidas[n].respuestas)

\* Everybody returns from MPI_Finalize.
Terminan == <>(\A r \in Rangos : fase[r] = "fin")

\* Each number goes to one PG that holds no other, is solved once, and nobody is told
\* to finish before the last one is solved.
Lleva(p, j) ==
    \/ \E n \in DOMAIN canal[PES][p] : canal[PES][p][n] = Msj("NOTIFICAR", j)
    \/ fase[p] \in {"conecta", "adivina"} /\ numAAdivinar[p] = j
    \/ \E n \in DOMAIN canal[p][PES] : canal[p][PES][n].tag = "ESTADISTICAS" /\ canal[p][PES][n].dato = j
NumeroEn(p, j) ==
    Lleva(p, j) \/ \E n \in DOMAIN recibidas : recibidas[n].numero = j /\ recibidas[n].pg = p
Duenno == [j \in Indices |-> IF \E p \in PGs : NumeroEn(p, j)
                               THEN CHOOSE p \in PGs : NumeroEn(p, j) ELSE PES]
Resueltos == {recibidas[n].numero : n \in DOMAIN recibidas}
Cerrado == \E r \in Trabajadores : fase[r] = "fin" \/ Hay(PES, r, "FINALIZACION")
Bolsa == INSTANCE BolsaDeNumeros WITH
            Numeros <- Indices, Jugadores <- PGs, Nadie <- PES,
            duenno <- Duenno, resueltos <- Resueltos, cerrado <- Cerrado
ImplementaBolsa == Bolsa!Spec
=============================================================================
