------------------------------ MODULE ServicioUDP ------------------------------
(***************************************************************************)
(* The UDP service: serverUDP runs inside the daemon, one call at a time,  *)
(* until nothing arrives for TIMEOUT seconds; UDP() of cliente.c runs in   *)
(* every client.  The network may delay, reorder and lose datagrams; it    *)
(* does not duplicate them.                                                *)
(***************************************************************************)
EXTENDS ProtocoloPreguntas

CONSTANTS
    Clientes,
    Lineas,      \* orders the script of each client is made of
    MaxOrdenes,  \* bound: lines of a script
    RETRIES      \* cliente.c:28, 5

ASSUME LineasAssumption == Lineas \in [Clientes -> SUBSET Ordenes]
ASSUME OrdenesAssumption == MaxOrdenes \in Nat
ASSUME RetriesAssumption == RETRIES \in Nat \ {0}

VARIABLES
    daemon,        \* "select", "sesion" (in serverUDP) or "fin"
    flagConexion, flagPregunta, intentos, preguntaElegida, respuestaPregunta,
    alServidor,    \* datagrams on their way: <<client, place in its script, order>>
    alCliente,     \* replies on their way to each client: <<code, place of the order>>
    cliente,       \* "inicio", "ready", "envia", "espera", "fin" or "error"
    enviadas, n_retry,
    leida,         \* history: place of the order the last reply read is for
    vencida        \* history: clients whose alarm has gone off

partida == <<flagConexion, flagPregunta, intentos, preguntaElegida, respuestaPregunta>>
ladoCliente == <<cliente, enviadas, n_retry, leida, vencida>>
vars == <<daemon, partida, alServidor, alCliente, ladoCliente>>

READY == Orden("READY", 1, 0)

TypeOK ==
    /\ daemon \in {"select", "sesion", "fin"}
    /\ flagConexion \in {0, 1} /\ flagPregunta \in {0, 1}
    /\ intentos \in 0..MaxIntentos
    /\ preguntaElegida \in 0..numPreguntas
    /\ respuestaPregunta \in Nat
    /\ alServidor \subseteq Clientes \X (0..MaxOrdenes) \X (Ordenes \cup {READY})
    /\ alCliente \in [Clientes -> SUBSET (Codigos \X (0..MaxOrdenes))]
    /\ cliente \in [Clientes -> {"inicio", "ready", "envia", "espera", "fin", "error"}]
    /\ enviadas \in [Clientes -> 0..MaxOrdenes]
    /\ n_retry \in [Clientes -> 0..RETRIES]
    /\ leida \in [Clientes -> 0..MaxOrdenes]
    /\ vencida \subseteq Clientes

SesionVacia ==
    /\ flagConexion = 0 /\ flagPregunta = 0 /\ intentos = 0
    /\ preguntaElegida = 0 /\ respuestaPregunta = 0

Init ==
    /\ daemon = "select"
    /\ SesionVacia
    /\ alServidor = {}
    /\ alCliente = [c \in Clientes |-> {}]
    /\ cliente = [c \in Clientes |-> "inicio"]
    /\ enviadas = [c \in Clientes |-> 0]
    /\ n_retry = [c \in Clientes |-> RETRIES]
    /\ leida = [c \in Clientes |-> 0]
    /\ vencida = {}

-----------------------------------------------------------------------------
(* serverUDP *)

\* Fault: the top of the loop does not look at the attempts.
AbiertaSinIntentos == flagPregunta = 1

\* Top of the loop: without attempts the question is closed.
Abierta == flagPregunta = 1 /\ intentos # 0
flagP == IF Abierta THEN 1 ELSE 0
respP == IF intentos = 0 THEN 0 ELSE respuestaPregunta

SinCambio ==
    /\ flagPregunta' = flagP
    /\ respuestaPregunta' = respP
    /\ UNCHANGED <<flagConexion, intentos, preguntaElegida>>

\* preguntas[rand() % numPreguntas + 1]
NuevaPregunta ==
    /\ flagPregunta' = 1
    /\ intentos' = MaxIntentos
    /\ preguntaElegida' \in 1..numPreguntas
    /\ respuestaPregunta' = Respuesta(preguntaElegida')

\* sendto goes to clientaddr_in, where the last datagram came from.
Contestar(d, codigo) == alCliente' = [alCliente EXCEPT ![d[1]] = @ \cup {<<codigo, d[2]>>}]

ErrorSintaxis(d) ==
    /\ d[3].palabra \notin {"HOLA", "ADIOS", "+", "READY"} /\ d[3].palabras = 1
    /\ Contestar(d, "500")
    /\ SinCambio

ServicioPreparado(d) ==
    /\ d[3].palabra = "READY"
    /\ Contestar(d, "220")
    /\ SinCambio

MasSinSaludo(d) ==
    /\ d[3].palabra = "+" /\ flagConexion = 0
    /\ Contestar(d, "500")
    /\ SinCambio

HolaRepetido(d) ==
    /\ d[3].palabra = "HOLA" /\ flagConexion = 1
    /\ Contestar(d, "500")
    /\ SinCambio

Hola(d) ==
    /\ d[3].palabra = "HOLA" /\ flagConexion = 0
    /\ flagConexion' = 1
    /\ NuevaPregunta
    /\ Contestar(d, "250")

\* Fault: the condition of serverTCP, attempts spent.
OtraPreguntaAgotada(d) ==
    /\ d[3].palabra = "+" /\ intentos = 0 /\ flagConexion = 1
    /\ NuevaPregunta
    /\ Contestar(d, "250")
    /\ UNCHANGED flagConexion

OtraPregunta(d) ==
    /\ d[3].palabra = "+" /\ ~Abierta /\ flagConexion = 1
    /\ NuevaPregunta
    /\ Contestar(d, "250")
    /\ UNCHANGED flagConexion

MasConPregunta(d) ==
    /\ d[3].palabra = "+" /\ Abierta /\ flagConexion = 1
    /\ Contestar(d, "500")
    /\ SinCambio

\* Fault: the question stays open, as in serverTCP.
AdiosAbierto(d) ==
    /\ d[3].palabra = "ADIOS"
    /\ flagConexion' = 0
    /\ flagPregunta' = flagP
    /\ respuestaPregunta' = respP
    /\ Contestar(d, "221")
    /\ UNCHANGED <<intentos, preguntaElegida>>

Adios(d) ==
    /\ d[3].palabra = "ADIOS"
    /\ flagConexion' = 0
    /\ flagPregunta' = 0
    /\ respuestaPregunta' = respP
    /\ Contestar(d, "221")
    /\ UNCHANGED <<intentos, preguntaElegida>>

Intento(d) ==
    /\ d[3].palabra = "RESPUESTA" /\ d[3].palabras = 2 /\ Abierta
    /\ intentos' = intentos - 1
    /\ UNCHANGED <<flagConexion, preguntaElegida, respuestaPregunta>>

\* atoi gives 0: an attempt is spent, and the order is a syntax error.
RespuestaNula(d) ==
    /\ Intento(d) /\ d[3].numero = 0
    /\ Contestar(d, "500")
    /\ UNCHANGED flagPregunta

\* MAYOR and MENOR
RespuestaErrada(d) ==
    /\ Intento(d) /\ d[3].numero # 0 /\ d[3].numero # respuestaPregunta
    /\ Contestar(d, "354")
    /\ UNCHANGED flagPregunta

Acierto(d) ==
    /\ Intento(d) /\ d[3].numero # 0 /\ d[3].numero = respuestaPregunta
    /\ flagPregunta' = 0
    /\ Contestar(d, "350")

RespuestaCerrada(d) ==
    /\ d[3].palabras = 2
    /\ ~(d[3].palabra = "RESPUESTA" /\ Abierta)
    /\ Contestar(d, "500")
    /\ SinCambio

OrdenLarga(d) ==
    /\ d[3].palabras > 2
    /\ Contestar(d, "500")
    /\ SinCambio

Atender(d) ==
    \/ ErrorSintaxis(d) \/ ServicioPreparado(d) \/ MasSinSaludo(d) \/ HolaRepetido(d)
    \/ Hola(d) \/ OtraPregunta(d) \/ MasConPregunta(d) \/ Adios(d)
    \/ RespuestaNula(d) \/ RespuestaErrada(d) \/ Acierto(d)
    \/ RespuestaCerrada(d) \/ OrdenLarga(d)

\* The recvfrom of main or that of the loop, and the branch the order leads to.
Recibir(d) ==
    /\ daemon # "fin" /\ d \in alServidor
    /\ Atender(d)
    /\ alServidor' = alServidor \ {d}
    /\ daemon' = "sesion"
    /\ UNCHANGED ladoCliente

\* serverUDP reads len before anything sets it: with -1 there, errout ends the daemon.
LenSinIniciar(d) ==
    /\ daemon = "select" /\ d \in alServidor
    /\ daemon' = "fin"
    /\ alServidor' = alServidor \ {d}
    /\ UNCHANGED <<partida, alCliente, ladoCliente>>

\* SIGALRM in recvfrom: back to main, and the variables of the game are gone.
Silencio ==
    /\ daemon = "sesion"
    /\ daemon' = "select"
    /\ flagConexion' = 0 /\ flagPregunta' = 0 /\ intentos' = 0
    /\ preguntaElegida' = 0 /\ respuestaPregunta' = 0
    /\ UNCHANGED <<alServidor, alCliente, ladoCliente>>

-----------------------------------------------------------------------------
(* UDP() of cliente.c *)

EnviarReady(c) ==
    /\ cliente[c] = "inicio"
    /\ alServidor' = alServidor \cup {<<c, 0, READY>>}
    /\ cliente' = [cliente EXCEPT ![c] = "ready"]
    /\ UNCHANGED <<daemon, partida, alCliente, enviadas, n_retry, leida, vencida>>

\* Fault: the exit after the alarm is missing.
RecibirSaludoSinExit(c) ==
    /\ cliente[c] = "ready"
    /\ \/ \E r \in alCliente[c] : alCliente' = [alCliente EXCEPT ![c] = @ \ {r}]
       \/ UNCHANGED alCliente
    /\ cliente' = [cliente EXCEPT ![c] = "envia"]
    /\ UNCHANGED <<daemon, partida, alServidor, enviadas, n_retry, leida, vencida>>

\* recvfrom, with the alarm cancelled; a client that gets no greeting gives up.
RecibirSaludo(c) ==
    /\ cliente[c] = "ready"
    /\ \/ \E r \in alCliente[c] :
             /\ alCliente' = [alCliente EXCEPT ![c] = @ \ {r}]
             /\ cliente' = [cliente EXCEPT ![c] = "envia"]
       \/ /\ cliente' = [cliente EXCEPT ![c] = "error"]
          /\ UNCHANGED alCliente
    /\ UNCHANGED <<daemon, partida, alServidor, enviadas, n_retry, leida, vencida>>

Enviar(c, o) ==
    /\ cliente[c] = "envia" /\ enviadas[c] < MaxOrdenes
    /\ enviadas' = [enviadas EXCEPT ![c] = @ + 1]
    /\ alServidor' = alServidor \cup {<<c, enviadas'[c], o>>}
    /\ n_retry' = [n_retry EXCEPT ![c] = RETRIES]
    /\ cliente' = [cliente EXCEPT ![c] = "espera"]
    /\ UNCHANGED <<daemon, partida, alCliente, leida, vencida>>

RecibirRespuesta(c) ==
    /\ cliente[c] = "espera"
    /\ \E r \in alCliente[c] :
          /\ alCliente' = [alCliente EXCEPT ![c] = @ \ {r}]
          /\ leida' = [leida EXCEPT ![c] = r[2]]
    /\ cliente' = [cliente EXCEPT ![c] = "envia"]
    /\ UNCHANGED <<daemon, partida, alServidor, enviadas, n_retry, vencida>>

\* Fault: SIGALRM restarts recvfrom.
VencerReanudado(c) ==
    /\ cliente[c] = "espera" /\ n_retry[c] > 0
    /\ n_retry' = [n_retry EXCEPT ![c] = @ - 1]
    /\ vencida' = vencida \cup {c}
    /\ UNCHANGED <<daemon, partida, alServidor, alCliente, cliente, enviadas, leida>>

\* SIGALRM in recvfrom: a retry is counted, and the next line follows.
Vencer(c) ==
    /\ cliente[c] = "espera"
    /\ n_retry' = [n_retry EXCEPT ![c] = @ - 1]
    /\ vencida' = vencida \cup {c}
    /\ cliente' = [cliente EXCEPT ![c] = "envia"]
    /\ UNCHANGED <<daemon, partida, alServidor, alCliente, enviadas, leida>>

Terminar(c) ==
    /\ cliente[c] = "envia"
    /\ cliente' = [cliente EXCEPT ![c] = "fin"]
    /\ UNCHANGED <<daemon, partida, alServidor, alCliente, enviadas, n_retry, leida, vencida>>

Cliente(c) ==
    \/ EnviarReady(c) \/ RecibirSaludo(c) \/ (\E o \in Lineas[c] : Enviar(c, o))
    \/ RecibirRespuesta(c) \/ Vencer(c) \/ Terminar(c)

-----------------------------------------------------------------------------
(* The network *)

Perder ==
    /\ \/ \E d \in alServidor : alServidor' = alServidor \ {d} /\ UNCHANGED alCliente
       \/ \E c \in Clientes : \E r \in alCliente[c] :
             alCliente' = [alCliente EXCEPT ![c] = @ \ {r}] /\ UNCHANGED alServidor
    /\ UNCHANGED <<daemon, partida, ladoCliente>>

Daemon == Silencio \/ \E d \in alServidor : Recibir(d) \/ LenSinIniciar(d)

Next == Daemon \/ (\E c \in Clientes : Cliente(c)) \/ Perder

Spec == Init /\ [][Next]_vars

\* The clients run and their alarms go off.
FairSpec == Spec /\ \A c \in Clientes : WF_vars(Cliente(c))

-----------------------------------------------------------------------------
(* Properties *)

fase == IF Abierta THEN "abierta" ELSE IF flagConexion = 1 THEN "resuelta" ELSE "fuera"

restan == IF Abierta THEN intentos ELSE 0

Juego == INSTANCE Partida WITH fase <- fase, quedan <- restan

\* serverUDP keeps one set of variables: whatever clients it hears, what it plays is one
\* game, and that game keeps its rules.  Answers count against the open question only, a
\* new one comes when the last is settled, and ADIOS or six seconds of silence end it.
\* (README.md:35-36 of the server speaks of a table of games by address: there is none.)
ImplementaPartida == Juego!Spec

\* A client whose alarm has never gone off reads, after each line, the reply to it.
Emparejadas ==
    \A c \in Clientes \ vencida : cliente[c] = "envia" => leida[c] = enviadas[c]

\* cliente.c:456-468 and 584-614: the alarm gets every client to the end of its script,
\* whatever is lost, also with the daemon gone.
TodosTerminan == \A c \in Clientes : <>(cliente[c] \in {"fin", "error"})

\* Every order that waits in the socket of a living daemon has a branch that answers it,
\* in whatever state the other clients have left the game (lines 1242-1835, no last else).
OrdenAtendida == daemon # "fin" => \A d \in alServidor : ENABLED Recibir(d)
=============================================================================
