# Verification of *proyectos-academicos*

TLA+ models, TLC runs and TLAPS proofs for the programs of this repository. Paths in
this file are relative to `src/`; `REST`, `MPI`, `QUIZ` and `TRAINS` stand for
`grado/sistemas-distribuidos-rest`, `master/arquitectura-computadores-mpi`,
`grado/redes-cliente-servidor` and `grado/sistemas-operativos-concurrencia`. Names in the
models are those of the code.

To check it: `tlc -workers 2 -config <X>.cfg <MCmodule>` for a run of the table below,
`tlapm <Module>.tla` for a proof module.

## 1. Inventory

The repository is a collection of independent programs. Nothing connects one to another,
so the project has one family of modules for each.

### REST: total-order multicast (`REST/src/main/java/servicios/*.java`)

Three nodes, each a JAX-RS singleton (`Servidor`) and one thread per `/start` (`Proceso`).

- *State.* In `Servidor`: the Lamport clock `relojLamport`, the message table `hashMap`
  (agreed order and `flajApertura` of each message), `matrizPreparados` and
  `matrizFinalizados`, the semaphore `semBuzon`, the current `miProceso`. In `Proceso`:
  where it is in `run()`, the message it multicasts, the answers so far. On disk: the file.
- *Operations.* `GET /buzon` with `tipoMsj` 0 (store, answer with the clock and the
  node's id), 1 (agreed order), 2 (end; the last one writes the file and resets), 3 (ready;
  the last one starts the thread); `GET /start`; `GET /reinicio`; the loop of `run()`.
- *Interaction.* Synchronous HTTP calls between nodes, served one at a time per node under
  `semBuzon`.
- *Hard.* Multicasts of three threads interleave call by call; a node resets in the middle
  of the others' last announcements; `start()` is called inside the semaphore; calls fail.
- *Correct when* every node writes the same file, with every message and no two with one
  order; no handler keeps the semaphore; every round ends.

### MPI: distributed guessing (`MPI/adivinacion_distribuida_mpi.c`)

- *State.* PES: numbers still to deal, to solve, processes finished. PG: its number, the
  guesser it talks to. PA: `estatusPA`, `origenPG`, the range of the search.
- *Operations.* One per message tag and role: deal, ask for a guesser, accept or refuse,
  propose, compare, report, finish.
- *Interaction.* Point-to-point messages, received with `MPI_Probe(ANY_SOURCE)` in PES and PA.
- *Hard.* Requests arrive in the middle of another session; the wildcard picks among
  sources; the end message and the last answer travel on different channels; fewer
  guessers than managers; a send may block until it is received.
- *Correct when* a guesser serves one manager at a time, the search never loses its number
  and is logarithmic, every number is dealt and solved once, every process returns.

### TRAINS: concurrent simulation (`TRAINS/prueba3/lomo2.cpp`)

- *State.* The shared map, the critical sections `scMapa` and `scInicio`, `salir_bucle`,
  `bloqueado`; per thread its cell, its tail, `creado`, its message queue.
- *Operations.* The steps of `funcionTrenes` between critical sections; `main`; `CtrlHandler`.
- *Interaction.* Shared memory, the event that starts all threads, `PostThreadMessage(110)`.
- *Hard.* A cell is tested under a lock and entered outside it; `scInicio` is held over many
  turns of the loop; a thread may exit anywhere it looks at its queue; trains block trains.
- *Correct when* no two trains share a cell, the map covers the trains, trains come in one
  at a time, and the process ends after them.

### QUIZ: question service (`QUIZ/servidor.c`, `QUIZ/cliente.c`)

- *State.* One game: `flagConexion`, `flagPregunta`, `intentos`, the chosen question. TCP
  keeps one per connection (a forked child), UDP one for everybody (in the daemon).
- *Operations.* `HOLA`, `+`, `RESPUESTA n`, `ADIOS`, anything else: a chain of `if`s per
  order; in the client, send a line and read one reply, under an alarm in UDP.
  In the daemon: `FIN`, the set `select` leaves, the alarm of the UDP game; and, in the
  kernel, the semaphore of `peticiones.log` with what each process has to undo.
- *Interaction.* TCP stream; datagrams; the daemon's `select` loop, `fork`, `SIGTERM` and
  `SIGALRM`; the log, which the daemon and every child write under a SysV semaphore.
- *Hard.* Combinations of flags for which no branch, or two, answer; piled-up lines; several
  clients in one UDP game; datagrams lost or late; alarms; signals that break `select`,
  `recv` or `semop` and are then taken for something else; a child killed with the
  semaphore; a UDP game that keeps the daemon from `accept`.
- *Correct when* attempts are counted, a question is closed by the right answer or the last
  attempt, every order gets one reply, and the client always ends; the log has one writer,
  no writer waits for ever, connections are accepted and `SIGTERM` ends the daemon.

### BAYES: naive Bayes classifier (`master/sistemas-inteligentes/BAYES/naive_bayes.c`)

- *State.* The samples, the current training and test sets, the model, the confusion matrix,
  the fold of each sample.
- *Operations.* `load_csv`, `shuffle`, `stratified_split`, `train_nb`, `predict`,
  `evaluate`, `kfold_cv`. Sequential, with one source of chance, `rand`.
- *Hard.* Boundaries: lines that are no sample, a full array, classes with few or no samples,
  empty folds, a percentage that is no exact double.
- *Correct when* no sample is lost or counted twice, folds are stratified, and the matrix counts
  what was tested.

### The rest

The decision tree, the fuzzy and G2 rules, the quality exercises and the Terraform file keep
no concurrent or persistent state. Terraform, the rule files and the tree run in tools that
are not here.

## 2. Modules and how they correspond to the code

| module | models | notes |
|---|---|---|
| `MultidifusionOrdenTotal` | `Servidor`, `Proceso`, `Mensaje` | one action per call of `/buzon`, with its handler |
| `OrdenTotal` | – | abstract: in each round one order per message, the same delivery everywhere |
| `MultidifusionInvariante` | – | inductive invariant and refinement mapping |
| `MultidifusionPrueba` | – | proofs |
| `BusquedaBinaria` | arithmetic of a session | shared by model and proofs |
| `AdivinacionMPI` | the four roles | one action per receive and what it leads to |
| `BolsaDeNumeros` | – | abstract: numbers dealt and solved once, closed at the end |
| `AdivinacionInvariante` | – | inductive invariant |
| `BusquedaPrueba` | – | proofs about `BusquedaBinaria` |
| `AdivinacionPrueba` | – | proofs about `AdivinacionMPI` |
| `Trenes` | `main`, `funcionTrenes`, `CtrlHandler` | one action per critical section or call between |
| `TrenesPrueba` | – | proofs |
| `ProtocoloPreguntas` | bank, orders, reply codes | shared by TCP and UDP |
| `ServicioTCP` | `serverTCP` and `TCP()` | one action per branch |
| `ServicioTCPPrueba` | – | proofs |
| `Partida` | – | abstract game |
| `ServicioUDP` | `serverUDP`, `UDP()`, the network | one action per branch |
| `ServicioUDPPrueba` | – | proofs |
| `Demonio` | `main` of the server, `semwait`, `semsignal`, signals | one action per call or test between calls |
| `DemonioPrueba` | – | proofs |
| `NaiveBayes` | the whole of `naive_bayes.c` but the floating point | one action per line, swap or fold |
| `NaiveBayesPrueba` | – | inductive invariant and proofs |
| `MC*` | – | constants for TLC |

**Multicast.** A node cannot do anything else in a thread that waits for an HTTP answer, and
`buzon` runs under `semBuzon`; so request, handler and answer are one step, and `semBuzon`
between steps is 1 unless a handler left by an exception (`BuzonPreparado`). An order is
kept in tenths, `10 * relojLamport + id`, the decimal the code parses; with ids of one digit
(`NAssumption`) this is exact. (Rounding of `float` for clocks above 2^20 or so is not
modelled: three nodes and ten messages stay below 100.) `miProceso` is the number of the
last `/start`. `Reinicio` runs outside the semaphore: it may fall between the two halves of
`relojLamport++`, hence its second disjunct. Its writes of the clock and of the two matrices
(`Servidor.java:101-110`) are one step here, though a handler could run between them. The file
is always written: `writeHashMapToFile` catches an `IOException` (`Proceso.java:341`) and the
handler resets all the same, a node without a file. `FallaHTTP` ends a thread, as the uncaught
exception does. `Consulta` is the bare `GET /buzon`.

**Guessing.** `canal[o][d]` is MPI's FIFO per pair; `Probe` takes the head of any of a
process's channels, `Espera`/`Recibido` the first message with a given source and tag. `modo`
says how MPI sends, for a whole behaviour. `"ansioso"`: `MPI_Send` returns at once. `"cita"`:
it returns when the message is received; a step still puts all its messages in their
channels, but a process with one of them unread takes no step (`Enviando`), and of those a
process has sent only the one it has got to (`EnCurso`, from the order of its sends) can
arrive. Times, call counters, the busy counter and the printed tables are left out.

**Trains.** `cuerpo` is what the DLL keeps: `PetAvance` may give any cell in `Vecinas` of the
head, `Avance` adds the head and gives the tail. Waiting 900 ms in `Ocupar` is a choice: a
thread that cannot advance may, once for all of them, set `bloqueado`. `TrenNuevo` may fail
up to `MaxFallos` times.

**Quiz.** A line is its first word, its number of words and its number. `Leida` is what
`recv` and `strtok` make of several piled-up lines and of the bytes of `buf` nobody wrote
(`Basura`). Each branch of the `if` chain is an action with the conditions it is reached
under; a fall-through that answers twice is a sequence of two replies. In UDP, `Silencio` is
the alarm that ends a game, `Vencer` the client's alarm, `Perder` the network; sets of
datagrams make any delay and order possible; a network that duplicates one is not modelled.
What each client may send is a constant, `Lineas`. `LenSinIniciar` is the read of `len` before
anything sets it: the outcome -1 ends the daemon.

**Daemon.** `fase` is the call or test a process stands at. The dialogues are in the two
modules above; what they do to the rest of the server is to log: an order leads to its own
line and to none, one or two replies (`porEscribir`), each under the semaphore; a UDP order to
its line and one reply. `MaxDatagramas` is what the socket holds at a time, not how many are
sent: clients send for ever if they like, each datagram sets the alarm again, and a game ends only
when they stop (`CallanUDP`). A connection the client resets gives `recv` -1, logged as an order
before it is tested (`Reiniciada`, `UltimaLinea`). The kernel's
part is `semadj` (`SEM_UNDO`), which the end of a process adds to the semaphore, not below 0
(`Deshecho`). A signal (`SIGTERM`, whose handler the children inherit, or the daemon's
`SIGALRM`) ends the call it finds the process in: `select` and the loop with it, `recvfrom`
and the UDP game, `recv` with -1, which a child logs as an order before it tests it
(`muere`); in `semop`, the process enters the section without the semaphore (`Colarse`,
counted in `colados`). Or it finds it between two calls (`Desapercibida`). A process gets
from `alarm` to `recvfrom` in less than the six seconds of the alarm. `fopen` that fails gives
the semaphore back and crashes on the null file. `Matar` is `SIGKILL`, or the `SIGPIPE` of a
child whose client has gone.

**Bayes.** A sample is the number of its line in the file; `train` and `test` are sets of positions
in `data`, since nothing depends on the order in which a set is walked. `Puesto(n)` is the index that
`data[n]` gets in `idx[c]`, and `idx` the array it fills. What the floating-point part decides is
which class has the largest `log_p`, and `LogP` lets that be any order of the classes, with
ties, in which those without training samples are at `-INFINITY`. `load_csv` drops the text `NA`
only, and `atof` reads `nan`, `inf` and `1e300` (`naive_bayes.c:123-126`): a line with a feature
that is not finite, or whose square is not, is a kind of its own (`Desmedida`), and for it, or for a
class trained with one, `log_p` may also be `-INFINITY` or NaN. One NaN makes every
posterior NaN, and the loop that picks `best` then stays at class 0; otherwise it picks the first
of the largest (`Mejor`). `Corte` is `(int)(n * 0.7)` in doubles, without doubles: the
closed form was compared with the machine's for the 400 values of `n`, and `MCNaiveBayes`
states what it is on them.

Definitions whose comment starts with `Fault:` are not part of any specification. Each is a
plausible mistake in the definition it precedes; putting it in that one's place must break
the property it is listed with in `PROJECT.json`.

## 3. Runs

| run | instance | shows |
|---|---|---|
| `rondas` | 2 nodes, 1 message each, 2 rounds, one `/reinicio` or failed call, fair | files equal (`Acuerdo`) and `semBuzon` never kept (`SemaforoLibre`) whatever the intervention; until there is one, each round is one of `OrdenTotal` (`ImplementaSinIntervenir`), with complete files (`FicheroDeRonda`) and an end (`TodosEscriben`) |
| `tres` | 3 nodes, 1 message each | the deployed number of nodes: refinement of `OrdenTotal`, `FicheroCompleto`, `ReinicioSeguro` |
| `consulta` | 2 nodes | **violated**: a bare `GET /buzon` changes one node's file |
| `adivina` | 3 PG, 1 PA, 4 numbers of {0, 3} below 4, both ways of sending, fair | sessions exclusive, answers only from the session's manager, with refusals; a number dealt on a result; the search keeps its number, down to ranges of two and one values, and takes the 3 answers the bound allows; `BolsaDeNumeros` implemented; no deadlock; all end |
| `trenes` | 2 trains of 2 cells, two-way loop of 4, one failed `TrenNuevo`, fair | collisions, map, entry, and the end once all the trains are in |
| `trenes_parada` | the same, no failures, fair | **violated**: stopped during an entry, the process never ends |
| `tcp` | scripts of up to 8 lines, 2 attempts, 2 questions | attempts counted, a new question only when the last is settled (`PreguntaResuelta`), replies paired until `ADIOS`, the only silence |
| `tcp_callado` | scripts of up to 4 lines | **violated**: that silence |
| `udp` | 2 clients, 2 lines each, 2 attempts, losses, reordering, fair | the one game of all keeps its rules (`ImplementaPartida`) through right, wrong and non-numeric answers of either; every order that arrives has a branch (`OrdenAtendida`); replies paired until an alarm; every client ends |
| `demonio` | 2 connections and 1 order, UDP games of any length, a `SIGTERM`, a failure or killed process, fair | the log's semaphore under every death and signal (`SemaforoCuadra`), nobody waits for it for ever (`TodosRegistran`); if the UDP clients go quiet, connections are accepted (`ConexionTrasSilencio`) and `SIGTERM` ends the daemon (`CierreTrasSenal`) |
| `demonio_udp` | 1 connection, UDP games of any length, fair | **violated**: UDP clients that go on sending keep a connection waiting for ever |
| `bayes` | files of up to 4 lines, 2 classes, 3 samples, 2 and 3 folds | the partition (`ParticionExacta`), the folds (`PlieguesEquilibrados`), the matrix (`ConfusionCuadra`) for every file, shuffle and prediction |

**Bounds.** Two nodes give every pairwise interleaving of two multicasts, and every property
of the multicast but the reset compares two nodes; three give a third that can be early or
late for both. Two rounds are enough for state that survives a reset to meet the next round.
One intervention: after a failure the thread is dead, and a second `/reinicio` finds what
the first left. Three managers on one guesser give contention and refusals; four numbers for
three managers, that one is dealt when a result arrives and a manager asks a second time. Of the
numbers below 4, 0 is found by MENOR alone, in the 3 answers that `PreguntasAcotadas` allows at most
and through ranges of two values and one, and 3 by MAYOR. A second guesser multiplies the states
by more than ten and is left to the proofs: a manager that goes from guesser to guesser, and
idle processes, are in no run. Two trains of two cells on a loop of
four can face, follow and block each other. Eight lines are greeting, two attempts, a new
question, two attempts, goodbye and greeting again; two attempts separate "first" from
"last". Two questions and the answers 0, 2, 3 give right, wrong, and not a number. In UDP the
orders of one game come from both clients: one greets, asks for a question, says
goodbye or answers 3, the other greets, sends nonsense or answers 0, which is no number; the
question chosen makes 3 right or wrong. Two children
and the daemon are three writers, so that two wait while one dies with the semaphore; one
datagram in the socket at a time, and another as soon as it is read, make a UDP game as long as
one likes; one signal and one failure fall at
every point, in either order. Four lines for three samples fill the array; two classes and
three folds give empty folds, level folds and classes without samples.

**Fairness.** Weak fairness, per process, but for the guessers of MPI and the children's log. Multicast:
Tomcat serves requests and the JVM
runs threads (`FairSpec` says nothing of users calling `/start`; `TodosEscriben` assumes they
did). MPI: every process runs, and a guesser does not ignore a waiting manager for ever: the
standard does not promise that of a wildcard receive, but OpenMPI and MPICH match the queue
of unexpected messages in arrival order. That is a strong fairness (`SF_vars(PasoPA(a, o))`):
a guesser that is sending by rendezvous cannot receive meanwhile. Trains: Windows runs every thread; `main` leaves its
waiting loop because it counts to 60 seconds. A lock that is free again and again needs no
stronger fairness here, since `scInicio` is taken once per train. UDP: clients run and their
alarms ring; nothing is asked of the daemon, since a client ends without it, and nothing forces
the network to deliver. Daemon: it runs and its alarm rings; a child's part of the log
has strong fairness (`SF_vars(Registro(h))`), since a `semop` that gives the semaphore back hands
it to one of those asleep on it. Clients, signals, failures are free.

**Deadlock.** `adivina` and `bayes` are checked for it (`Terminado` is the allowed end). The
others stop by design: scripts end, nobody calls `/start` again, the train process ends, no
client comes.

## 4. What is proved

With TLAPS, for every value of the constants.

*Multicast* (`MultidifusionPrueba`), for any number of nodes up to nine, of messages and of
rounds:

- With HTTP calls that fail and `/reinicio` called at any moment (`SpecIntervenciones`):
  `TipoCorrecto`; `Invariante` (`IInv`), and from it `SemaforoSiempreLibre`,
  `AcuerdoDeFicheros`, `FicherosDeRonda` and `ReinicioSiempreSeguro`, all the safety properties
  of the run `rondas` and the action property of `tres`.
- With HTTP calls that fail (`SpecFallos`): `InvarianteFallos` (`IInvFallos`) and
  `FicherosCompletos`: failures keep files from being written and spoil none.
- The refinement of `OrdenTotal`: `ImplementaRondas` for the use the README describes (`Spec`),
  `ImplementaHastaIntervenir` for `SpecIntervenciones` up to the first intervention, and
  `Implementa` for one round in which any call may fail.

*Guessing* (`AdivinacionPrueba`), for every number of managers, guessers, idle processes and
numbers, every `NumMax`, and whether `MPI_Send` blocks or not: `Invariante`, the inductive
invariant, and from it every safety property of the run `adivina`: `TipoCorrecto`,
`SesionSiempreExclusiva`, `RespuestaSiempreDelOrigen`, `RangoSiempreContiene`,
`PreguntasSiempreAcotadas` and `ImplementaLaBolsa`, the refinement of `BolsaDeNumeros`. Under
them, in `BusquedaPrueba`, one round of the search (`RangoEstrecha`: after any answer but IGUAL
the number is still in a range at most half as wide, rounded up) and what `DosALa` is
(`Potencias`).

*Trains* (`TrenesPrueba`), for every set of trains, map and length, with any number of failed
creations and a stop at any moment: `TipoCorrecto`, `MapaSiempreMarcado`, `NuncaColision`,
`EntradaUnaAUna`.

*Quiz over TCP* (`ServicioTCPPrueba`), for every bank, script and number of attempts:
`TipoCorrecto`, `IntentosContados`, `SinPreguntaDeMas`, `RespuestasEmparejadas` and
`UnSoloSilencio`: all the properties of the run `tcp`.

*Quiz over UDP* (`ServicioUDPPrueba`), for any clients, scripts, losses and delays:
`TipoCorrecto`, `UnaPartida` (the refinement of `Partida`) and `RespuestasEmparejadas`.

*Daemon* (`DemonioPrueba`), for any number of connections, orders, datagrams, signals and
failures: `TipoCorrecto`; `LogExclusivo`, which is `SemaforoCuadra`: one writer at a time, plus
one for each wait a signal has broken, and a log that is never left taken by nobody, whatever
process dies and wherever.

*Naive Bayes* (`NaiveBayesPrueba`), for every file, shuffle and prediction, and any number of
classes, of samples and of folds: `CadaMuestraUnaVez`, `PlieguesNivelados` and `MatrizCuadra`, the
three properties of the run `bayes`. The last says what may be predicted as a class nothing was
trained for: only the first one, and only samples whose posteriors may all be NaN.

**The arguments.** *Multicast.* `Acuerdo` alone is not inductive. Two files agree because they are both the
agreed orders of all messages (`InvFin`); a node writes only after hearing the end of every
thread, and a thread announces its end only after all nodes hold its orders (`InvRegistro`,
`EnRegistro`: what each node holds of message *k* of *p* follows from where *p*'s thread
stands). Orders are unique (`InvUnico`) because an order is an answer somebody gave, an answer
carries its node's id, and a node's clock has passed every answer it gave (`InvReloj`,
`Contestado`) as long as it has not been reset; and no clock is reset while anybody still
multicasts, again by `InvFin`. `start()` never throws because a thread is ready only when
its own `/start` is among those counted (`InvArranque`). `InvHilo` says which loop variables
go with which phase.

All of it is about one round, the last that has begun, and so every part takes it as a
parameter *a*; `InvRondas` says that those before are over and those after untouched. What a
round leaves behind is its orders: a registry still holds every message as deliverable when the
next round begins, so "deliverable" no longer means that the order is agreed. `Anunciado` does:
it goes by how far the thread has come, and by the entry of node 1 only where that tells.
The first `/start` after all have written is then a step from *a* to *a + 1* with nothing
announced (`StartNueva`). The invariant comes in two halves. `InvRonda` stands whatever the
operator does, since `/reinicio` only makes nodes forget who is ready and who has ended, which
can stop a round but not let anybody write early; `InvOrdenes`, the uniqueness, it does break,
by setting a clock back in the middle of a round. `IInv` keeps the second half until an
intervention; `IInvFallos` keeps both when calls only fail.

The mapping to `OrdenTotal` takes a message as agreed when it is `Anunciado`, that is, when the
first node, in array order, is told; type 1 calls go in array order, and the invariant gives the
rest. A thread that dies no longer shows whether it stood before the first call of its last
message or after the last call of it, and after the first round the registry does not tell
either. That is why failures are in the refinement for one round only (or up to the first).

*Guessing.* None of the properties is inductive: what a guesser may do depends on what is on its way
to it. `InvCanales` and `InvSesiones` list, for each pair of processes, the contents of the two
channels between them that go with the receives the two stand at: for a manager and a guesser,
a request or a refusal when they have no session, and, when they have one, its five moments
(accepted, proposed, answered, answered with IGUAL, and that with the next request already
behind). That a session is exclusive and an answer comes from its manager are then read off the
list. The bounds go into the same cases: in a session the range holds the number (`Busca`) and
after *c* answers it is at most `NumMax / 2^c` wide (`Mengua`). `InvNumeros` follows each number:
not dealt, held by one manager (told to it, in its hands, or in a report nobody has read), or
solved; this is the mapping to `BolsaDeNumeros`. `InvCuentas` has the sums by which
`process_pes` knows when to stop: numbers solved and in work, managers at work and finished,
final messages read and to come. That blocking sends keep all of this needs nothing more: they
take steps away, and `EnCurso` only chooses which sender goes first. `DosALa` is a recursive
function, and the library's induction theorems take an operator, which the provers cannot instantiate; so
`Induccion` states induction for a *set* of naturals, by its least missing element, and
`Potencias` builds the tables of powers with it.

*Trains.* `SinColision` is not inductive, since the map could be free under a train, nor is
`MapaMarcado`, since two trains could answer for one mark. `InvMapa` gives every train the
cells it answers for (`Suyas`: those it covers, the one it has marked and not yet entered, the
one its tail has left and it has not yet cleared), says that all of them are marked, and that
no cell has two owners. Marking needs a free cell, so it adds an owner where there was none;
clearing takes away a cell that is the clearing train's alone.

*TCP.* `InvCuenta`: while a question is open or somebody is greeted, the attempts judged and
those left add up to `MaxIntentos`; a question still open has not been answered right; and
until an `ADIOS` an open question belongs to somebody greeted. The last is what rules out the
double reply of `servidor.c:612`, which together with the script's one line at a time gives
`InvVuelo`: until an `ADIOS` one message at most is on its way, the line just sent or its
reply. `Callado` needs no such limit: whatever `recv` takes at once gets a reply, or two,
unless it is the one order named.

*UDP.* The game is open or closed as `fase` and `restan` say (`InvPartida`: an open question
belongs to somebody greeted), and each branch is a step of `Partida` or a stutter. For the
pairing, `Vuelo`: a client whose alarm has not rung has one datagram on its way at most.

*Daemon.* `SemaforoCuadra` needs to know what each process would give back if it died, and a
process whose waits signals have broken has given back more than it took: its `semadj` is
negative, as far as one likes, and the kernel takes that away again at its end, stopping at 0.
`InvSem`, while the semaphore exists: only a process in the section may have something
pending, and at most 1; writers and semaphore together are at most 1 more than the waits
broken (both alone could grow); and the semaphore and what is pending make at least 1 more than
what was given in advance (`Saldo`), so that with nobody inside the semaphore is free. What was
given in advance is counted as a set of pairs, since a sum over the processes would take an
induction; `SaldoToma`, `SaldoDevuelve` and `SaldoAcaba` are the three ways it moves. That `accept` starts a process that was not
there (`InvCola`) is the rest of it. For the types, `InvListos`: the datagram `select` saw is
still there when `main` gets to it, since nothing else reads the socket meanwhile.

*Naive Bayes.* `InvDatos`: `data` lists the valid lines read, each once, and a swap keeps it so. The
places of a class, from 0 up, are each taken by one sample of it (`Puestos`: a sample's place grows
with its position, and one injective into as many has them all), so `idx` misses and repeats
nothing, and with a cut inside it (`CorteDentro`, which looks at no more of the doubles than that one
less is never below 0) the split is a partition (`InvModelo`). The folds are level because moving a
remainder by `b - a`, or by that and back by `k`, takes the places of fold *a*, but for one, into
those of fold *b* (`RestosNivelados`). An empty fold has no sample with its own number as place.
The matrix is a matter of sums: `SumaDeCuentas` says that the counts of the samples that were
predicted as each class, or as one class out of each, add up to the count of them all. `MejorEs` says when
the prediction is a class without training samples. The library defines a sum by a recursive
function over the subsets of the set; `HaySuma` shows that there is one, and `InduccionFinita`,
induction for a set of subsets, does what the library's theorem would.

**Assumptions.** `N \in 1..9`, since an id is one decimal digit of an order; at least one
message; at least one manager and one guesser (without managers `process_pes` waits for ever,
without guessers `idPAs[0]` is outside its array) and at most 99, the size of that array;
numbers below `NumMax`; naturals for the bounds; a finite set of trains, each with an entry cell in the
map; a bank with a question and positive answers; at least one class, and between 1 and 32 folds, the
size of `accs`. `MaxArranques = 1` is assumed by
`Implementa` alone, for the reason just given.

**Only model-checked.** Liveness (`TodosEscriben`, `Terminan`, `TerminaSiCreados`,
`TodosTerminan`, `TodosRegistran`, `ConexionTrasSilencio`, `CierreTrasSenal`: TLAPS has no
fairness rules here), `OrdenAtendida`, which is a state property but speaks of ENABLED, and `CorteAssumption` of
`MCNaiveBayes`, which says what the cut is for each of 400 sizes.

## 5. Findings

Each has a run.

- `consulta`: `GET /servidor/buzon`, documented in the README as a query, is a type 0 message
  with an empty id when it has no parameters (`Servidor.java:157`). The node that was asked
  writes a line that the others do not have.
- `trenes_parada`: a thread that leaves by `ExitThread` (`lomo2.cpp:321`, `:301`) while it owns
  `scInicio` never releases it; threads at `:291` and `main` at `:228` wait for ever.
- `tcp_callado`: after a right answer with attempts left `+` meets no branch (`servidor.c:693`
  wants no attempts, `:738` an open question) and gets no reply.
- `demonio_udp`: the UDP game is played in the daemon and each datagram sets its alarm again
  (`servidor.c:1841`), so clients that send oftener than every `TIMEOUT` seconds keep it from
  `accept`; the README offers both services "simultáneamente".

Seen while modelling, with no run of their own:

- `servidor.c:248-260`: a `SIGTERM` after the test of `FIN` and before `select` is seen only when
  something else arrives; `select` then waits, for ever if nothing does. `CierreTrasSenal`
  therefore leaves out the signals seen in `select`; without that condition TLC finds the
  counterexample. `:2004`: nobody looks at what `semop` returns, so a signal
  lets its process write the log beside another, and give back a semaphore it did not take.
  `:339`: the semaphore is removed under the children, which go on without it. `:283-286`: a
  failed `accept` or `fork` ends the daemon and leaves the semaphore in the kernel.
- `naive_bayes.c:282`: the product falls short of 70% for 90, 170, 180, 330, 340, 350 and 360
  samples of a class, and trains with one less. `:313`: an empty fold counts as an accuracy of 0.
- `adivinacion_distribuida_mpi.c:383`: with more managers than numbers and sends that block, PES
  stays in the second end message to a manager that has ended.

- `lomo2.cpp:228` waits on one handle per train and ignores the result. With 65 to 100 trains
  (`NUM_TREN_MAX` is 100, the README says "hasta 100 trenes") the wait fails at once: after a
  stop `main` frees the sections and the DLL while the trains still use them. `Terminar` has that
  case, with `MaxEspera` for the 64; the runs stay below it, and no theorem speaks of the end.
- `naive_bayes.c:123-126`, `:183-208`: a feature `nan` or `inf`, or so large that its square
  overflows, can make every posterior NaN and the answer class 0, also in a fold where class 0 has no
  training samples. `ConfusionCuadra` bounds how many predictions that can spoil.
- `servidor.c:773`: an `ADIOS` leaves the question open. Until the next `HOLA` a `RESPUESTA` is
  judged, against "toda orden fuera de secuencia se rechaza con 500", and a `+` gets 500 twice (`:612`
  has no `else`); the client is then one reply behind for the rest of its script.
- `adivinacion_distribuida_mpi.c:383`: with more managers than numbers a manager is sent two end
  messages. `:220`: the busy counter is not reset between numbers. `:507`: a guesser may
  take the end message before its last IGUAL and not add that session's time. `:392`: the last
  rank writes one past `recibidasTotales`. The README's table gives PG and PA each other's role.
- `servidor.c:655` can choose the entry after the last question (`:1404` too, and never
  question 0). `:982`: `RESPUESTA` before `HOLA` gets 375, not the 500 of the README. `:1234`
  reads `len` before it is set.
- `serverUDP` keeps one game for all clients; the README (`:35-36`) says the server tells clients
  by address and keeps a table of games. What `ImplementaPartida` says is of that one game: a client's
  answer is judged against the question another was given, and spends its attempts.
- `cliente.c:601-622`: an alarm counts a retry but sends nothing again, and the next line follows.

## 6. Not modelled, and why

- The text of the log, the creation of the sockets, the drawing of the trains, statistics and printed tables: no property is about them.
- The daemon and the dialogues in one state space: `Demonio` keeps of a dialogue the lines it
  logs, and the dialogues need of the daemon only that it runs them.
- Partial TCP reads of a 1024-byte message; a `CreateThread` that fails
  (the program goes on with freed resources, which has no defined behaviour).
- `lomo2.dll`, MPI, Win32 and the network are external, modelled from how the code uses them.
- The features, means, variances and probabilities of naive Bayes: floating point.
- The decision tree, rule files, exercises and Terraform: see the inventory.

## 7. Plan

Done, in this order: multicast (model, runs, invariant, proofs), guessing, trains, TCP and UDP
(models, runs), the proofs about trains, UDP and TCP; then `Demonio` with its proofs, the sends
that block in `AdivinacionMPI`, and `NaiveBayes`; then the proofs about guessing,
the multicast over any number of rounds, the daemon with signals, and naive Bayes.

Next:

Models: a `CreateThread` that fails in the trains, if its undefined part can be left out; TCP
messages that arrive in pieces.
