--------------------------- MODULE ServicioUDPPrueba ---------------------------
(***************************************************************************)
(* The UDP service for every set of clients, bank of questions and script: *)
(* its game is a Partida, and replies pair with orders until an alarm.     *)
(***************************************************************************)
EXTENDS ServicioUDP, TLAPS

-----------------------------------------------------------------------------
(* The game *)

\* An open question belongs to somebody who has greeted: ADIOS closes it.
InvPartida ==
    /\ flagConexion \in {0, 1} /\ flagPregunta \in {0, 1}
    /\ intentos \in 0..MaxIntentos
    /\ flagPregunta = 1 => flagConexion = 1

PasoJuego == Juego!Next \/ UNCHANGED <<fase, restan>>

LEMMA SinCambioPartida ==
    ASSUME InvPartida, SinCambio
    PROVE  InvPartida' /\ PasoJuego
<1>1. Abierta' <=> Abierta
  BY DEF SinCambio, Abierta, flagP, InvPartida
<1>2. fase' = fase /\ restan' = restan
  BY <1>1 DEF SinCambio, fase, restan
<1> QED BY <1>2 DEF SinCambio, flagP, Abierta, InvPartida, PasoJuego

LEMMA NuevaPartida ==
    ASSUME InvPartida, NuevaPregunta, flagConexion' = 1, fase \in {"fuera", "resuelta"}
    PROVE  InvPartida' /\ PasoJuego
<1>1. InvPartida'
  BY IntentosAssumption DEF InvPartida, NuevaPregunta
<1>2. fase' = "abierta" /\ restan' = MaxIntentos
  BY IntentosAssumption DEF NuevaPregunta, fase, restan, Abierta
<1>3. Juego!Saludar \/ Juego!Pedir
  BY <1>2 DEF Juego!Saludar, Juego!Pedir, Juego!Preguntar
<1> QED BY <1>1, <1>3 DEF PasoJuego, Juego!Next

LEMMA SalirPartida ==
    ASSUME InvPartida, flagConexion' = 0, flagPregunta' = 0, intentos' \in 0..MaxIntentos
    PROVE  InvPartida' /\ PasoJuego
<1>1. InvPartida'
  BY DEF InvPartida
<1>2. fase' = "fuera" /\ restan' = 0
  BY DEF fase, restan, Abierta
<1>3. CASE fase = "fuera"
  <2>1. restan = 0
    BY <1>3 DEF fase, restan
  <2> QED BY <1>1, <1>2, <1>3, <2>1 DEF PasoJuego
<1>4. CASE fase # "fuera"
  BY <1>1, <1>2, <1>4 DEF PasoJuego, Juego!Next, Juego!Salir
<1> QED BY <1>3, <1>4

\* A wrong answer, or one that is no number: the question closes with the last attempt.
LEMMA FalloPartida ==
    ASSUME NEW d, InvPartida, Intento(d), UNCHANGED flagPregunta
    PROVE  InvPartida' /\ PasoJuego
<1>1. Abierta /\ intentos' = intentos - 1 /\ flagConexion' = flagConexion
  BY DEF Intento
<1>2. intentos \in 1..MaxIntentos /\ flagPregunta = 1 /\ flagConexion = 1
  BY <1>1 DEF Abierta, InvPartida
<1>3. InvPartida'
  BY <1>1, <1>2, IntentosAssumption DEF InvPartida
<1>4. fase = "abierta" /\ restan = intentos
  BY <1>1 DEF fase, restan
<1>5. fase' = IF intentos' = 0 THEN "resuelta" ELSE "abierta"
  BY <1>1, <1>2 DEF fase, Abierta
<1>6. restan' = restan - 1
  BY <1>1, <1>2, <1>4 DEF restan, Abierta
<1>7. Juego!Fallar
  BY <1>1, <1>4, <1>5, <1>6 DEF Juego!Fallar
<1> QED BY <1>3, <1>7 DEF PasoJuego, Juego!Next

LEMMA AciertoPartida ==
    ASSUME NEW d, InvPartida, Acierto(d)
    PROVE  InvPartida' /\ PasoJuego
<1>1. Abierta /\ intentos' = intentos - 1 /\ flagConexion' = flagConexion /\ flagPregunta' = 0
  BY DEF Acierto, Intento
<1>2. intentos \in 1..MaxIntentos /\ flagConexion = 1
  BY <1>1 DEF Abierta, InvPartida
<1>3. InvPartida'
  BY <1>1, <1>2, IntentosAssumption DEF InvPartida
<1>4. fase = "abierta" /\ fase' = "resuelta" /\ restan' = 0
  BY <1>1, <1>2 DEF fase, restan, Abierta
<1> QED BY <1>3, <1>4 DEF PasoJuego, Juego!Next, Juego!Acertar

LEMMA AtenderPartida ==
    ASSUME NEW d, InvPartida, Atender(d)
    PROVE  InvPartida' /\ PasoJuego
<1>1. CASE \/ ErrorSintaxis(d) \/ ServicioPreparado(d) \/ MasSinSaludo(d) \/ HolaRepetido(d)
           \/ MasConPregunta(d) \/ RespuestaCerrada(d) \/ OrdenLarga(d)
  <2>1. SinCambio
    BY <1>1 DEF ErrorSintaxis, ServicioPreparado, MasSinSaludo, HolaRepetido,
                MasConPregunta, RespuestaCerrada, OrdenLarga
  <2> QED BY <2>1, SinCambioPartida
<1>2. CASE Hola(d) \/ OtraPregunta(d)
  <2>1. NuevaPregunta /\ flagConexion' = 1
    BY <1>2 DEF Hola, OtraPregunta
  <2>2. ~Abierta
    BY <1>2 DEF Hola, OtraPregunta, Abierta, InvPartida
  <2>3. fase \in {"fuera", "resuelta"}
    BY <2>2 DEF fase
  <2> QED BY <2>1, <2>3, NuevaPartida
<1>3. CASE Adios(d)
  BY <1>3, SalirPartida DEF Adios, InvPartida
<1>4. CASE RespuestaNula(d) \/ RespuestaErrada(d)
  BY <1>4, FalloPartida DEF RespuestaNula, RespuestaErrada
<1>5. CASE Acierto(d)
  BY <1>5, AciertoPartida
<1> QED BY <1>1, <1>2, <1>3, <1>4, <1>5 DEF Atender

LEMMA PasoPartida ==
    ASSUME InvPartida, [Next]_vars
    PROVE  InvPartida' /\ PasoJuego
<1>1. CASE UNCHANGED partida
  <2>1. fase' = fase /\ restan' = restan
    BY <1>1 DEF partida, fase, restan, Abierta
  <2> QED BY <1>1, <2>1 DEF partida, InvPartida, PasoJuego
<1>2. CASE \E d \in alServidor : Recibir(d)
  BY <1>2, AtenderPartida DEF Recibir
<1>3. CASE Silencio
  BY <1>3, IntentosAssumption, SalirPartida DEF Silencio
<1>4. [Next]_vars => \/ UNCHANGED partida \/ Silencio \/ \E d \in alServidor : Recibir(d)
  <2>1. (\E d \in alServidor : LenSinIniciar(d)) \/ Perder \/ UNCHANGED vars => UNCHANGED partida
    BY DEF LenSinIniciar, Perder, vars
  <2>2. ASSUME NEW c \in Clientes, Cliente(c)
        PROVE  UNCHANGED partida
    BY <2>2 DEF Cliente, EnviarReady, RecibirSaludo, Enviar, RecibirRespuesta, Vencer, Terminar
  <2> QED BY <2>1, <2>2 DEF Next, Daemon
<1> QED BY <1>1, <1>2, <1>3, <1>4

\* serverUDP plays one Partida with all its clients, whatever they send, in whatever
\* order it arrives, whatever is lost (servidor.c:1237-1885).
THEOREM UnaPartida == Spec => ImplementaPartida
<1>1. Init => InvPartida /\ Juego!Init
  BY IntentosAssumption DEF Init, SesionVacia, InvPartida, Juego!Init, fase, restan, Abierta
<1>2. InvPartida /\ [Next]_vars => InvPartida' /\ [Juego!Next]_(Juego!vars)
  BY PasoPartida DEF PasoJuego, Juego!vars
<1> QED BY <1>1, <1>2, PTL DEF Spec, ImplementaPartida, Juego!Spec
-----------------------------------------------------------------------------
(* Types *)

\* Between a line and its reply or alarm no retry has been counted.
InvTipo == /\ TypeOK
           /\ \A c \in Clientes : cliente[c] = "espera" => n_retry[c] = RETRIES

LEMMA RespuestaNat ==
    ASSUME NEW n \in 0..numPreguntas
    PROVE  Respuesta(n) \in Nat
<1>1. Banco \in Seq(Nat \ {0}) /\ n \in Nat
  BY BancoAssumption
<1> QED BY <1>1 DEF Respuesta, numPreguntas

LEMMA NumPreguntasNat == numPreguntas \in Nat \ {0}
<1>1. Banco \in Seq(Nat \ {0}) /\ Banco # <<>>
  BY BancoAssumption
<1> QED BY <1>1 DEF numPreguntas

\* Every branch of serverUDP answers the datagram it serves, once.
LEMMA AtenderContesta ==
    ASSUME NEW d, Atender(d)
    PROVE  \E codigo \in Codigos : Contestar(d, codigo)
BY DEF Atender, ErrorSintaxis, ServicioPreparado, MasSinSaludo, HolaRepetido, Hola, OtraPregunta,
       MasConPregunta, Adios, RespuestaNula, RespuestaErrada, Acierto, RespuestaCerrada,
       OrdenLarga, Codigos

LEMMA AtenderPregunta ==
    ASSUME NEW d, TypeOK, Atender(d)
    PROVE  preguntaElegida' \in 0..numPreguntas /\ respuestaPregunta' \in Nat
<1>1. preguntaElegida \in 0..numPreguntas /\ respuestaPregunta \in Nat
  BY DEF TypeOK
<1>2. CASE NuevaPregunta
  <2>1. preguntaElegida' \in 0..numPreguntas /\ respuestaPregunta' = Respuesta(preguntaElegida')
    BY <1>2, NumPreguntasNat DEF NuevaPregunta
  <2>2. Respuesta(preguntaElegida') \in Nat
    BY <2>1, RespuestaNat
  <2> QED BY <2>1, <2>2
<1>3. CASE preguntaElegida' = preguntaElegida /\ respuestaPregunta' \in {respP, respuestaPregunta}
  BY <1>1, <1>3 DEF respP
<1> QED BY <1>2, <1>3 DEF Atender, ErrorSintaxis, ServicioPreparado, MasSinSaludo, HolaRepetido,
             Hola, OtraPregunta, MasConPregunta, Adios, RespuestaNula, RespuestaErrada, Acierto,
             RespuestaCerrada, OrdenLarga, SinCambio, Intento

LEMMA RecibirTipo ==
    ASSUME InvTipo, InvPartida, NEW d \in alServidor, Recibir(d)
    PROVE  InvTipo'
<1>1. TypeOK /\ Atender(d) /\ UNCHANGED ladoCliente
  BY DEF InvTipo, Recibir
<1>2. flagConexion' \in {0, 1} /\ flagPregunta' \in {0, 1} /\ intentos' \in 0..MaxIntentos
  BY <1>1, AtenderPartida DEF InvPartida
<1>3. preguntaElegida' \in 0..numPreguntas /\ respuestaPregunta' \in Nat
  BY <1>1, AtenderPregunta
<1>4. PICK codigo \in Codigos : Contestar(d, codigo)
  BY <1>1, AtenderContesta
<1>5. d[1] \in Clientes /\ d[2] \in 0..MaxOrdenes
  BY <1>1 DEF TypeOK
<1>6. alCliente' \in [Clientes -> SUBSET (Codigos \X (0..MaxOrdenes))]
  BY <1>1, <1>4, <1>5 DEF Contestar, TypeOK
<1>7. TypeOK'
  BY <1>1, <1>2, <1>3, <1>6 DEF TypeOK, Recibir, ladoCliente
<1> QED BY <1>1, <1>7 DEF InvTipo, ladoCliente

LEMMA ClienteTipo ==
    ASSUME InvTipo, NEW c \in Clientes, Cliente(c)
    PROVE  InvTipo'
<1> USE DEF InvTipo, TypeOK, partida, READY
<1>1. CASE EnviarReady(c)
  BY <1>1, OrdenesAssumption DEF EnviarReady
<1>2. CASE RecibirSaludo(c)
  BY <1>2 DEF RecibirSaludo
<1>3. ASSUME NEW o \in Lineas[c], Enviar(c, o)
      PROVE  InvTipo'
  <2>1. o \in Ordenes
    BY LineasAssumption
  <2> QED BY <1>3, <2>1, RetriesAssumption, OrdenesAssumption DEF Enviar
<1>4. CASE RecibirRespuesta(c)
  BY <1>4 DEF RecibirRespuesta
<1>5. CASE Vencer(c)
  BY <1>5, RetriesAssumption DEF Vencer
<1>6. CASE Terminar(c)
  BY <1>6 DEF Terminar
<1> QED BY <1>1, <1>2, <1>3, <1>4, <1>5, <1>6 DEF Cliente

LEMMA PasoTipo ==
    ASSUME InvTipo, InvPartida, [Next]_vars
    PROVE  InvTipo'
<1>1. ASSUME NEW d \in alServidor, LenSinIniciar(d)
      PROVE  InvTipo'
  BY <1>1 DEF LenSinIniciar, InvTipo, TypeOK, partida, ladoCliente
<1>2. CASE Silencio
  BY <1>2, IntentosAssumption, NumPreguntasNat DEF Silencio, InvTipo, TypeOK, ladoCliente
<1>3. CASE Perder
  BY <1>3 DEF Perder, InvTipo, TypeOK, partida, ladoCliente
<1>4. CASE UNCHANGED vars
  BY <1>4 DEF vars, InvTipo, TypeOK, partida, ladoCliente
<1> QED BY <1>1, <1>2, <1>3, <1>4, RecibirTipo, ClienteTipo DEF Next, Daemon

LEMMA InicioTipo == Init => InvTipo /\ InvPartida
BY IntentosAssumption, OrdenesAssumption, RetriesAssumption, NumPreguntasNat
   DEF Init, SesionVacia, InvTipo, InvPartida, TypeOK

\* Every state of the UDP service has its type, for every set of clients and script.
THEOREM TipoCorrecto == Spec => []TypeOK
<1>1. InvTipo /\ InvPartida /\ [Next]_vars => (InvTipo /\ InvPartida)'
  BY PasoTipo, PasoPartida
<1>2. InvTipo => TypeOK
  BY DEF InvTipo
<1> QED BY <1>1, <1>2, InicioTipo, PTL DEF Spec

-----------------------------------------------------------------------------
(* Orders and replies *)

Suyos(c) == {d \in alServidor : d[1] = c}

\* Until its alarm goes off a client has one datagram on its way at most, order or
\* reply, and it is that of the line it waits for.
Vuelo(c) ==
    /\ cliente[c] \in {"inicio", "envia", "fin"} => Suyos(c) = {} /\ alCliente[c] = {}
    /\ Suyos(c) = {} \/ alCliente[c] = {}
    /\ \A d, e \in Suyos(c) : d = e /\ d[2] = enviadas[c]
    /\ \A r, s \in alCliente[c] : r = s /\ r[2] = enviadas[c]
    /\ cliente[c] \in {"inicio", "ready", "envia"} => leida[c] = enviadas[c]
    /\ cliente[c] = "inicio" => enviadas[c] = 0

InvVuelo == \A c \in Clientes \ vencida : Vuelo(c)

\* What concerns one client stays as it was, or a datagram of its own is lost.
LEMMA VueloAjeno ==
    ASSUME NEW c \in Clientes, Vuelo(c),
           Suyos(c)' \subseteq Suyos(c), alCliente'[c] \subseteq alCliente[c],
           cliente'[c] = cliente[c], enviadas'[c] = enviadas[c], leida'[c] = leida[c]
    PROVE  Vuelo(c)'
BY DEF Vuelo

LEMMA RecibirVuelo ==
    ASSUME TypeOK, InvVuelo, NEW d \in alServidor, Recibir(d)
    PROVE  InvVuelo'
<1>1. PICK codigo \in Codigos : Contestar(d, codigo)
  BY AtenderContesta DEF Recibir
<1>2. d[1] \in Clientes /\ alCliente \in [Clientes -> SUBSET (Codigos \X (0..MaxOrdenes))]
  BY DEF TypeOK
<1>3. alServidor' = alServidor \ {d} /\ UNCHANGED ladoCliente
  BY DEF Recibir
<1> SUFFICES ASSUME NEW c \in Clientes \ vencida'
             PROVE  Vuelo(c)'
  BY DEF InvVuelo
<1>4. Vuelo(c)
  BY <1>3 DEF InvVuelo, ladoCliente
<1>5. CASE c # d[1]
  <2>1. alCliente'[c] = alCliente[c] /\ Suyos(c)' = Suyos(c)
    BY <1>1, <1>2, <1>3, <1>5 DEF Contestar, Suyos
  <2> QED BY <1>3, <1>4, <2>1, VueloAjeno DEF ladoCliente
<1>6. CASE c = d[1]
  <2>1. d \in Suyos(c)
    BY <1>6 DEF Suyos
  <2>2. d[2] = enviadas[c] /\ alCliente[c] = {} /\ cliente[c] \notin {"inicio", "envia", "fin"}
    BY <1>4, <2>1 DEF Vuelo
  <2>3. Suyos(c)' = {}
    BY <1>3, <1>4, <2>1 DEF Vuelo, Suyos
  <2>4. alCliente'[c] = {<<codigo, d[2]>>}
    BY <1>1, <1>2, <1>6, <2>2 DEF Contestar
  <2> QED BY <1>3, <1>4, <2>2, <2>3, <2>4 DEF Vuelo, ladoCliente
<1> QED BY <1>5, <1>6

LEMMA ClienteVuelo ==
    ASSUME TypeOK, InvVuelo, NEW b \in Clientes, Cliente(b)
    PROVE  InvVuelo'
<1> SUFFICES ASSUME NEW c \in Clientes \ vencida'
             PROVE  Vuelo(c)'
  BY DEF InvVuelo
<1>1. c \in Clientes \ vencida
  BY DEF Cliente, EnviarReady, RecibirSaludo, Enviar, RecibirRespuesta, Vencer, Terminar
<1>2. Vuelo(c)
  BY <1>1 DEF InvVuelo
<1>3. CASE c # b
  <2>1. Suyos(c)' = Suyos(c)
    BY <1>3 DEF Suyos, Cliente, EnviarReady, RecibirSaludo, Enviar, RecibirRespuesta, Vencer, Terminar
  <2>2. /\ alCliente'[c] = alCliente[c] /\ cliente'[c] = cliente[c]
        /\ enviadas'[c] = enviadas[c] /\ leida'[c] = leida[c]
    BY <1>3, <1>1 DEF TypeOK, Cliente, EnviarReady, RecibirSaludo, Enviar, RecibirRespuesta, Vencer, Terminar
  <2> QED BY <1>1, <1>2, <2>1, <2>2, VueloAjeno
<1>4. CASE c = b
  <2>1. CASE EnviarReady(c)
    BY <1>1, <1>2, <2>1 DEF EnviarReady, Vuelo, Suyos, TypeOK
  <2>2. CASE RecibirSaludo(c)
    BY <1>1, <1>2, <2>2 DEF RecibirSaludo, Vuelo, Suyos, TypeOK
  <2>3. ASSUME NEW o \in Lineas[c], Enviar(c, o)
        PROVE  Vuelo(c)'
    BY <1>1, <1>2, <2>3 DEF Enviar, Vuelo, Suyos, TypeOK
  <2>4. CASE RecibirRespuesta(c)
    BY <1>1, <1>2, <2>4 DEF RecibirRespuesta, Vuelo, Suyos, TypeOK
  <2>5. ~Vencer(c)
    BY DEF Vencer
  <2>6. CASE Terminar(c)
    BY <1>1, <1>2, <2>6 DEF Terminar, Vuelo, Suyos, TypeOK
  <2> QED BY <1>4, <2>1, <2>2, <2>3, <2>4, <2>5, <2>6 DEF Cliente
<1> QED BY <1>3, <1>4

LEMMA PasoVuelo ==
    ASSUME TypeOK, InvVuelo, [Next]_vars
    PROVE  InvVuelo'
<1>1. CASE (\E d \in alServidor : LenSinIniciar(d)) \/ Silencio \/ Perder \/ UNCHANGED vars
  <2>1. /\ alServidor' \subseteq alServidor /\ UNCHANGED ladoCliente
        /\ \A c \in Clientes : alCliente'[c] \subseteq alCliente[c]
    BY <1>1 DEF TypeOK, LenSinIniciar, Silencio, Perder, vars
  <2> SUFFICES ASSUME NEW c \in Clientes \ vencida'
               PROVE  Vuelo(c)'
    BY DEF InvVuelo
  <2>2. Vuelo(c) /\ Suyos(c)' \subseteq Suyos(c)
    BY <2>1 DEF InvVuelo, ladoCliente, Suyos
  <2> QED BY <2>1, <2>2, VueloAjeno DEF ladoCliente
<1> QED BY <1>1, RecibirVuelo, ClienteVuelo DEF Next, Daemon

\* A client whose alarm has never gone off reads the reply to the line it sent, however
\* the datagrams of the others mix with its own (cliente.c:557-646).
THEOREM RespuestasEmparejadas == Spec => []Emparejadas
<1>1. Init => InvVuelo
  BY DEF Init, InvVuelo, Vuelo, Suyos
<1>2. TypeOK /\ InvVuelo /\ [Next]_vars => InvVuelo'
  BY PasoVuelo
<1>3. InvVuelo => Emparejadas
  BY DEF InvVuelo, Vuelo, Emparejadas
<1> QED BY <1>1, <1>2, <1>3, TipoCorrecto, PTL DEF Spec
=============================================================================
