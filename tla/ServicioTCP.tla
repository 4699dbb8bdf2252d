------------------------------ MODULE ServicioTCP ------------------------------
(***************************************************************************)
(* One TCP connection: serverTCP in the child the daemon forks for it, and *)
(* TCP() of cliente.c, which sends a line of its script and waits for one  *)
(* message.  The dialogue is private to the two processes; children share  *)
(* only the log.  recv, the branch it leads to and its send are one step.  *)
(***************************************************************************)
EXTENDS ProtocoloPreguntas, SequencesExt

CONSTANTS
    MaxOrdenes,  \* bound: lines of the script
    Basura       \* words the uninitialised buf may add to the first order

ASSUME OrdenesAssumption == MaxOrdenes \in Nat
ASSUME BasuraAssumption == Basura \subseteq 0..2 /\ 0 \in Basura

VARIABLES
    servidor,           \* "arranque", "bucle" or "fin"
    flagConexion, flagPregunta, intentos, preguntaElegida, respuestaPregunta,
    alServidor,         \* lines on their way: <<order, its place in the script>>
    alCliente,          \* replies on their way: <<code, place of the order answered>>
    cliente,            \* "saludo", "envia", "espera" or "fin"
    enviadas,           \* lines sent
    leida,              \* history: place of the order the last reply read is for
    evaluadas,          \* history: answers judged since the question was given
    acertada,           \* history: one of them was right
    despedida           \* history: an ADIOS has been served

partida == <<flagConexion, flagPregunta, intentos, preguntaElegida, respuestaPregunta>>
historia == <<evaluadas, acertada, despedida>>
ladoCliente == <<cliente, enviadas, leida>>
vars == <<servidor, partida, alServidor, alCliente, ladoCliente, historia>>

TypeOK ==
    /\ servidor \in {"arranque", "bucle", "fin"}
    /\ flagConexion \in {0, 1} /\ flagPregunta \in {0, 1}
    /\ intentos \in 0..MaxIntentos
    /\ preguntaElegida \in 0..numPreguntas
    /\ respuestaPregunta \in {0} \cup Range(Banco)
    /\ alServidor \in Seq(Ordenes \X (1..MaxOrdenes))
    /\ alCliente \in Seq(Codigos \X (0..MaxOrdenes))
    /\ cliente \in {"saludo", "envia", "espera", "fin"}
    /\ enviadas \in 0..MaxOrdenes /\ leida \in 0..enviadas
    /\ evaluadas \in 0..MaxIntentos
    /\ acertada \in BOOLEAN /\ despedida \in BOOLEAN

Init ==
    /\ servidor = "arranque"
    /\ flagConexion = 0 /\ flagPregunta = 0 /\ intentos = 0
    /\ preguntaElegida = 0 /\ respuestaPregunta = 0
    /\ alServidor = <<>> /\ alCliente = <<>>
    /\ cliente = "saludo" /\ enviadas = 0 /\ leida = 0
    /\ evaluadas = 0 /\ acertada = FALSE /\ despedida = FALSE

-----------------------------------------------------------------------------
(* The loop of serverTCP *)

\* 220, before the loop.
ServicioPreparado ==
    /\ servidor = "arranque"
    /\ servidor' = "bucle"
    /\ alCliente' = Append(alCliente, <<"220", 0>>)
    /\ UNCHANGED <<partida, alServidor, ladoCliente, historia>>

\* recv takes k lines at once when they have piled up; strtok on spaces counts the words
\* of all of them.  A line of one word glued to the next is no known word of two.
Leida(k, b) ==
    LET primera == alServidor[1][1]
        total == FoldSeq(LAMBDA o, n : n + o[1].palabras - 1, 1 + b, SubSeq(alServidor, 1, k))
    IN  IF total = primera.palabras THEN primera
        ELSE Orden("otra", IF total > 3 THEN 3 ELSE total, 0)

\* Fault: neither the top of the loop nor the branch looks at the attempts.
AbiertaSinIntentos == flagPregunta = 1

\* Top of the loop: without attempts the question is closed.
Abierta == intentos # 0 /\ flagPregunta = 1
flagP == IF Abierta THEN 1 ELSE 0
respP == IF intentos = 0 THEN 0 ELSE respuestaPregunta

Contestar(codigos) == alCliente' = alCliente \o [n \in DOMAIN codigos |-> <<codigos[n], alServidor[1][2]>>]

SinCambio == /\ flagPregunta' = flagP
             /\ respuestaPregunta' = respP
             /\ UNCHANGED <<flagConexion, intentos, preguntaElegida, historia>>

\* preguntas[rand() % (numPreguntas + 1)]
NuevaPregunta ==
    /\ flagPregunta' = 1
    /\ intentos' = MaxIntentos
    /\ preguntaElegida' \in 0..numPreguntas
    /\ respuestaPregunta' = Respuesta(preguntaElegida')
    /\ evaluadas' = 0
    /\ acertada' = FALSE
    /\ UNCHANGED despedida

ErrorSintaxis(o) ==
    /\ o.palabra \notin {"HOLA", "ADIOS", "+"} /\ o.palabras = 1
    /\ Contestar(<<"500">>)
    /\ SinCambio

\* The first if answers 500 and falls into the second, which may do it again.
MasSinSaludo(o) ==
    /\ o.palabra = "+" /\ flagConexion = 0
    /\ Contestar(IF Abierta THEN <<"500", "500">> ELSE <<"500">>)
    /\ SinCambio

HolaRepetido(o) ==
    /\ o.palabra = "HOLA" /\ flagConexion = 1
    /\ Contestar(<<"500">>)
    /\ SinCambio

Hola(o) ==
    /\ o.palabra = "HOLA" /\ flagConexion = 0
    /\ flagConexion' = 1
    /\ NuevaPregunta
    /\ Contestar(<<"250">>)

\* Fault: the if after this one is not an else if.
OtraPreguntaSinElse(o) ==
    /\ o.palabra = "+" /\ intentos = 0 /\ flagConexion = 1
    /\ NuevaPregunta
    /\ Contestar(<<"250", "500">>)
    /\ UNCHANGED flagConexion

\* Fault: the attempts left are not looked at.
OtraPreguntaSinAgotar(o) ==
    /\ o.palabra = "+" /\ flagConexion = 1
    /\ NuevaPregunta
    /\ Contestar(<<"250">>)
    /\ UNCHANGED flagConexion

OtraPregunta(o) ==
    /\ o.palabra = "+" /\ intentos = 0 /\ flagConexion = 1
    /\ NuevaPregunta
    /\ Contestar(<<"250">>)
    /\ UNCHANGED flagConexion

\* Fault: the attempts left are compared with one too many.
MasConIntentosDeMas(o) ==
    /\ o.palabra = "+" /\ flagConexion = 1 /\ Abierta
    /\ Contestar(IF intentos > 1 THEN <<"500">> ELSE <<>>)
    /\ SinCambio

MasConIntentos(o) ==
    /\ o.palabra = "+" /\ flagConexion = 1 /\ Abierta
    /\ Contestar(<<"500">>)
    /\ SinCambio

\* No branch takes a "+" after a right answer with attempts left.
MasTrasAcierto(o) ==
    /\ o.palabra = "+" /\ flagConexion = 1 /\ intentos # 0 /\ flagPregunta = 0
    /\ Contestar(<<>>)
    /\ SinCambio

Adios(o) ==
    /\ o.palabra = "ADIOS"
    /\ flagConexion' = 0
    /\ flagPregunta' = flagP /\ respuestaPregunta' = respP
    /\ despedida' = TRUE
    /\ Contestar(<<"221">>)
    /\ UNCHANGED <<intentos, preguntaElegida, evaluadas, acertada>>

Intento(o) ==
    /\ o.palabra = "RESPUESTA" /\ o.palabras = 2 /\ Abierta
    /\ intentos' = intentos - 1
    /\ evaluadas' = evaluadas + 1
    /\ UNCHANGED <<flagConexion, preguntaElegida, respuestaPregunta, despedida>>

\* atoi gives 0: an attempt is spent, and the order is a syntax error.
RespuestaNula(o) ==
    /\ Intento(o) /\ o.numero = 0
    /\ Contestar(<<"500">>)
    /\ UNCHANGED <<flagPregunta, acertada>>

\* MAYOR and MENOR
RespuestaErrada(o) ==
    /\ Intento(o) /\ o.numero # 0 /\ o.numero # respuestaPregunta
    /\ Contestar(<<"354">>)
    /\ UNCHANGED <<flagPregunta, acertada>>

\* Fault: the question stays open.
AciertoAbierto(o) ==
    /\ Intento(o) /\ o.numero # 0 /\ o.numero = respuestaPregunta
    /\ acertada' = TRUE
    /\ Contestar(<<"350">>)
    /\ UNCHANGED flagPregunta

Acierto(o) ==
    /\ Intento(o) /\ o.numero # 0 /\ o.numero = respuestaPregunta
    /\ flagPregunta' = 0
    /\ acertada' = TRUE
    /\ Contestar(<<"350">>)

\* Two words, but no answer that can be judged.
RespuestaCerrada(o) ==
    /\ o.palabras = 2
    /\ ~(o.palabra = "RESPUESTA" /\ Abierta)
    /\ Contestar(IF intentos = 0 THEN <<"375">> ELSE <<"500">>)
    /\ SinCambio

OrdenLarga(o) ==
    /\ o.palabras > 2
    /\ Contestar(<<"500">>)
    /\ SinCambio

Atender(o) ==
    \/ ErrorSintaxis(o) \/ MasSinSaludo(o) \/ HolaRepetido(o) \/ Hola(o)
    \/ OtraPregunta(o) \/ MasConIntentos(o) \/ MasTrasAcierto(o) \/ Adios(o)
    \/ RespuestaNula(o) \/ RespuestaErrada(o) \/ Acierto(o)
    \/ RespuestaCerrada(o) \/ OrdenLarga(o)

Recibir ==
    /\ servidor = "bucle" /\ alServidor # <<>>
    /\ \E k \in 1..Len(alServidor), b \in IF alServidor[1][2] = 1 THEN Basura ELSE {0} :
          /\ Atender(Leida(k, b))
          /\ alServidor' = SubSeq(alServidor, k + 1, Len(alServidor))
    /\ UNCHANGED <<servidor, ladoCliente>>

\* recv gives 0, or -1 and errout when the client left replies unread.
Cerrar ==
    /\ servidor = "bucle" /\ cliente = "fin"
    /\ alServidor = <<>> \/ alCliente # <<>>
    /\ servidor' = "fin"
    /\ UNCHANGED <<partida, alServidor, alCliente, ladoCliente, historia>>

-----------------------------------------------------------------------------
(* TCP() of cliente.c *)

RecibirSaludo ==
    /\ cliente = "saludo" /\ alCliente # <<>>
    /\ alCliente' = Tail(alCliente)
    /\ cliente' = "envia"
    /\ UNCHANGED <<servidor, partida, alServidor, enviadas, leida, historia>>

Enviar(o) ==
    /\ cliente = "envia" /\ enviadas < MaxOrdenes
    /\ alServidor' = Append(alServidor, <<o, enviadas + 1>>)
    /\ enviadas' = enviadas + 1
    /\ cliente' = "espera"
    /\ UNCHANGED <<servidor, partida, alCliente, leida, historia>>

RecibirRespuesta ==
    /\ cliente = "espera" /\ alCliente # <<>>
    /\ leida' = alCliente[1][2]
    /\ alCliente' = Tail(alCliente)
    /\ cliente' = "envia"
    /\ UNCHANGED <<servidor, partida, alServidor, enviadas, historia>>

\* End of the script: shutdown, and the end of the process.
Terminar ==
    /\ cliente = "envia"
    /\ cliente' = "fin"
    /\ UNCHANGED <<servidor, partida, alServidor, alCliente, enviadas, leida, historia>>

Servidor == ServicioPreparado \/ Recibir \/ Cerrar

Cliente == RecibirSaludo \/ (\E o \in Ordenes : Enviar(o)) \/ RecibirRespuesta \/ Terminar

Next == Servidor \/ Cliente

Spec == Init /\ [][Next]_vars

-----------------------------------------------------------------------------
(* Properties *)

\* servidor.c:812-814 and 932-933: a question takes MaxIntentos answers at most, those
\* that are no number included, and none after the right one, whatever comes between.
OportunidadesContadas ==
    [][evaluadas' > evaluadas => ~acertada /\ evaluadas < MaxIntentos]_vars

\* README:22-23 and servidor.c:694: a new question comes only to a player who has to greet
\* first, or when the last one was answered right or every attempt at it is spent; lines
\* that piled up, goodbyes and wrong answers bring none.
PreguntaResuelta ==
    [][(\E n \in 1..MaxOrdenes : alCliente' = Append(alCliente, <<"250", n>>))
          => flagConexion = 0 \/ acertada \/ evaluadas = MaxIntentos]_vars

\* Before the first ADIOS the client, which tells messages apart by their order alone,
\* reads after each line the reply to that line.
Emparejadas == ~despedida /\ cliente = "envia" => leida = enviadas

\* Both ends wait for the other: nothing on its way and nobody has finished.
Callado == cliente = "espera" /\ servidor = "bucle" /\ alServidor = <<>> /\ alCliente = <<>>

\* serverTCP leaves a client without a reply in one case only: a "+" after a right
\* answer with attempts to spare.  No pile-up, double reply or ADIOS adds another.
SoloCallaTrasAcierto == Callado => flagConexion = 1 /\ acertada /\ intentos # 0

\* servidor.c:694, "Se puede enviar otra pregunta porque la pregunta anterior la acerto o se
\* le acabaron los intentos": a "+" is answered in both cases.
CadaOrdenContestada == ~Callado
=============================================================================
