--------------------------- MODULE ServicioTCPPrueba ---------------------------
(***************************************************************************)
(* The TCP dialogue for every bank, every script and every number of       *)
(* attempts: types, the count of attempts, and the pairing of replies.     *)
(***************************************************************************)
EXTENDS ServicioTCP, SequenceTheorems, TLAPS

-----------------------------------------------------------------------------
(* Types *)

\* No order or reply is for a line that has not been sent.
InvTipo == /\ TypeOK
           /\ alServidor \in Seq(Ordenes \X (1..enviadas))
           /\ alCliente \in Seq(Codigos \X (0..enviadas))

LEMMA SeqCorta ==
    ASSUME NEW S, NEW s \in Seq(S)
    PROVE  /\ Len(s) \in Nat /\ (s # <<>> <=> Len(s) >= 1)
           /\ Len(s) = 1 => Tail(s) = <<>>
           /\ Len(s) = 1 => SubSeq(s, 2, 1) = <<>>
<1>1. Len(s) \in Nat
  BY LenProperties
<1>2. s # <<>> => Len(s) >= 1
  BY <1>1, EmptySeq
<1>3. SubSeq(s, 2, 1) = <<>>
  BY SubSeqEmpty
<1>4. ASSUME Len(s) = 1 PROVE Tail(s) = <<>>
  <2>1. s # <<>>
    BY <1>4, EmptySeq
  <2>2. Tail(s) = SubSeq(s, 2, Len(s))
    BY <2>1, TailIsSubSeq
  <2> QED BY <1>3, <1>4, <2>2
<1> QED BY <1>1, <1>2, <1>3, <1>4, EmptySeq

\* preguntaElegida may be the entry after the last question, whose answer is 0.
LEMMA RespuestaTipo ==
    ASSUME NEW n \in 0..numPreguntas
    PROVE  Respuesta(n) \in {0} \cup Range(Banco)
<1>1. Banco \in Seq(Nat \ {0}) /\ n \in Nat
  BY BancoAssumption
<1>2. CASE n < Len(Banco)
  <2>1. n + 1 \in 1..Len(Banco) /\ DOMAIN Banco = 1..Len(Banco)
    BY <1>1, <1>2
  <2>2. Banco[n + 1] \in Range(Banco)
    BY <2>1 DEF Range
  <2> QED BY <1>2, <2>2 DEF Respuesta, numPreguntas
<1>3. CASE ~(n < Len(Banco))
  BY <1>3 DEF Respuesta, numPreguntas
<1> QED BY <1>2, <1>3

\* The replies of a branch: two only before a greeting with the question open, 250 only
\* with a new question, none only for a "+" after a right answer.
Respuestas(o, codigos) ==
    /\ Contestar(codigos)
    /\ codigos = <<"500", "500">> => flagConexion = 0 /\ flagPregunta = 1
    /\ codigos = <<"250">> => Hola(o) \/ OtraPregunta(o)
    /\ codigos = <<>> => MasTrasAcierto(o)

LEMMA AtenderContesta ==
    ASSUME NEW o, Atender(o)
    PROVE  \E codigos \in {<<>>, <<"500", "500">>} \cup {<<c>> : c \in Codigos} : Respuestas(o, codigos)
<1>1. CASE ErrorSintaxis(o) \/ HolaRepetido(o) \/ MasConIntentos(o) \/ RespuestaNula(o) \/ OrdenLarga(o)
  <2>1. Contestar(<<"500">>) /\ "500" \in Codigos
    BY <1>1 DEF ErrorSintaxis, HolaRepetido, MasConIntentos, RespuestaNula, OrdenLarga, Codigos
  <2>2. Respuestas(o, <<"500">>)
    BY <2>1 DEF Respuestas
  <2> QED BY <2>1, <2>2
<1>2. CASE MasSinSaludo(o)
  <2>1. CASE Abierta
    <3>1. Respuestas(o, <<"500", "500">>)
      BY <1>2, <2>1 DEF MasSinSaludo, Respuestas, Abierta
    <3> QED BY <3>1
  <2>2. CASE ~Abierta
    <3>1. Respuestas(o, <<"500">>) /\ "500" \in Codigos
      BY <1>2, <2>2 DEF MasSinSaludo, Respuestas, Codigos
    <3> QED BY <3>1
  <2> QED BY <2>1, <2>2
<1>3. CASE MasTrasAcierto(o)
  <2>1. Respuestas(o, <<>>)
    BY <1>3 DEF MasTrasAcierto, Respuestas
  <2> QED BY <2>1
<1>4. CASE Hola(o) \/ OtraPregunta(o)
  <2>1. Respuestas(o, <<"250">>) /\ "250" \in Codigos
    BY <1>4 DEF Hola, OtraPregunta, Respuestas, Codigos
  <2> QED BY <2>1
<1>5. CASE Adios(o) \/ RespuestaErrada(o) \/ Acierto(o) \/ RespuestaCerrada(o)
  <2>1. PICK c \in Codigos \ {"250"} : Contestar(<<c>>)
    BY <1>5 DEF Adios, RespuestaErrada, Acierto, RespuestaCerrada, Codigos
  <2>2. Respuestas(o, <<c>>)
    BY <2>1 DEF Respuestas
  <2> QED BY <2>1, <2>2
<1> QED BY <1>1, <1>2, <1>3, <1>4, <1>5 DEF Atender

LEMMA LargoDeRespuestas ==
    ASSUME NEW codigos \in {<<>>, <<"500", "500">>} \cup {<<c>> : c \in Codigos}
    PROVE  /\ codigos \in Seq(Codigos) /\ Len(codigos) \in 0..2
           /\ Len(codigos) = 1 => \E c \in Codigos : codigos = <<c>>
<1>1. CASE codigos = <<>>
  BY <1>1
<1>2. CASE codigos = <<"500", "500">>
  BY <1>2 DEF Codigos
<1>3. ASSUME NEW c \in Codigos, codigos = <<c>>
      PROVE  /\ codigos \in Seq(Codigos) /\ Len(codigos) = 1
             /\ \E d \in Codigos : codigos = <<d>>
  BY <1>3
<1> QED BY <1>1, <1>2, <1>3

\* What Contestar does to the replies on their way.
LEMMA ContestarBien ==
    ASSUME InvTipo, alServidor # <<>>,
           NEW codigos \in {<<>>, <<"500", "500">>} \cup {<<c>> : c \in Codigos}, Contestar(codigos)
    PROVE  /\ alCliente' \in Seq(Codigos \X (0..enviadas))
           /\ Len(alCliente') = Len(alCliente) + Len(codigos)
           /\ Len(codigos) = 1 =>
                 alCliente' = Append(alCliente, <<codigos[1], alServidor[1][2]>>)
<1> DEFINE k == alServidor[1][2]
           r == [n \in DOMAIN codigos |-> <<codigos[n], k>>]
<1>1. k \in 1..enviadas /\ enviadas \in Nat /\ alCliente \in Seq(Codigos \X (0..enviadas))
  BY OrdenesAssumption DEF InvTipo, TypeOK
<1>2. codigos \in Seq(Codigos) /\ Len(codigos) \in 0..2
  BY LargoDeRespuestas
<1>3. r \in Seq(Codigos \X (0..enviadas)) /\ Len(r) = Len(codigos)
  <2>1. DOMAIN codigos = 1..Len(codigos) /\ \A n \in 1..Len(codigos) : codigos[n] \in Codigos
    BY <1>2
  <2> QED BY <1>1, <1>2, <2>1
<1>4. alCliente' = alCliente \o r
  BY DEF Contestar
<1>5. Len(codigos) = 1 => r = <<<<codigos[1], k>>>>
  BY <1>2
<1>6. Len(codigos) = 1 => alCliente \o r = Append(alCliente, <<codigos[1], k>>)
  BY <1>1, <1>3, <1>5
<1>7. alCliente \o r \in Seq(Codigos \X (0..enviadas)) /\ Len(alCliente \o r) = Len(alCliente) + Len(r)
  BY <1>1, <1>3
<1> QED BY <1>3, <1>4, <1>6, <1>7

-----------------------------------------------------------------------------
(* The count of attempts *)

\* Attempts judged and attempts left add up while somebody may still answer or ask.
InvCuenta ==
    /\ flagConexion \in {0, 1} /\ flagPregunta \in {0, 1}
    /\ intentos \in 0..MaxIntentos /\ evaluadas \in 0..MaxIntentos
    /\ flagConexion = 1 \/ flagPregunta = 1 => evaluadas + intentos = MaxIntentos
    /\ flagPregunta = 1 => ~acertada
    /\ ~despedida /\ flagPregunta = 1 => flagConexion = 1
    /\ flagConexion = 1 /\ flagPregunta = 0 /\ intentos # 0 => acertada

LEMMA SinCambioCuenta ==
    ASSUME InvCuenta, SinCambio
    PROVE  InvCuenta'
BY DEF InvCuenta, SinCambio, flagP, Abierta, historia

LEMMA AtenderCuenta ==
    ASSUME NEW o, InvCuenta, Atender(o)
    PROVE  InvCuenta'
<1>1. CASE \/ ErrorSintaxis(o) \/ MasSinSaludo(o) \/ HolaRepetido(o) \/ MasConIntentos(o)
           \/ MasTrasAcierto(o) \/ RespuestaCerrada(o) \/ OrdenLarga(o)
  BY <1>1, SinCambioCuenta DEF ErrorSintaxis, MasSinSaludo, HolaRepetido, MasConIntentos,
           MasTrasAcierto, RespuestaCerrada, OrdenLarga
<1>2. CASE Hola(o) \/ OtraPregunta(o)
  BY <1>2, IntentosAssumption DEF Hola, OtraPregunta, NuevaPregunta, InvCuenta
<1>3. CASE Adios(o)
  BY <1>3 DEF Adios, flagP, Abierta, InvCuenta
<1>4. CASE RespuestaNula(o) \/ RespuestaErrada(o) \/ Acierto(o)
  <2>1. Intento(o) /\ flagPregunta = 1 /\ intentos \in 1..MaxIntentos
    BY <1>4, IntentosAssumption DEF RespuestaNula, RespuestaErrada, Acierto, Intento, Abierta, InvCuenta
  <2>2. /\ intentos' = intentos - 1 /\ evaluadas' = evaluadas + 1
        /\ evaluadas + intentos = MaxIntentos /\ UNCHANGED <<flagConexion, despedida>>
    BY <2>1 DEF Intento, InvCuenta
  <2>3. (flagPregunta' = 0 /\ acertada') \/ (flagPregunta' = 1 /\ acertada' = acertada)
    BY <1>4, <2>1 DEF RespuestaNula, RespuestaErrada, Acierto
  <2> QED BY <2>1, <2>2, <2>3, IntentosAssumption DEF InvCuenta
<1> QED BY <1>1, <1>2, <1>3, <1>4 DEF Atender

LEMMA PasoCuenta ==
    ASSUME InvCuenta, [Next]_vars
    PROVE  InvCuenta'
<1>1. CASE Recibir
  BY <1>1, AtenderCuenta DEF Recibir
<1>2. CASE UNCHANGED <<partida, historia>>
  BY <1>2 DEF partida, historia, InvCuenta
<1>3. Recibir \/ UNCHANGED <<partida, historia>>
  BY DEF Next, Servidor, ServicioPreparado, Cerrar, Cliente, RecibirSaludo, Enviar,
         RecibirRespuesta, Terminar, vars
<1> QED BY <1>1, <1>2, <1>3

LEMMA InicioCuenta == Init => InvCuenta
BY IntentosAssumption DEF Init, InvCuenta

\* A question takes no more answers than it has attempts, and none after the right one,
\* goodbyes and new greetings included (servidor.c:808-969).
THEOREM IntentosContados == Spec => OportunidadesContadas
<1>1. InvCuenta /\ [Next]_vars => (evaluadas' > evaluadas => ~acertada /\ evaluadas < MaxIntentos)
  <2> SUFFICES ASSUME InvCuenta, [Next]_vars, evaluadas' > evaluadas
               PROVE  ~acertada /\ evaluadas < MaxIntentos
    OBVIOUS
  <2>1. evaluadas \in 0..MaxIntentos /\ evaluadas' # evaluadas /\ ~(evaluadas' = 0)
    BY IntentosAssumption DEF InvCuenta
  <2>2. Recibir
    BY <2>1 DEF Next, Servidor, ServicioPreparado, Cerrar, Cliente, RecibirSaludo, Enviar,
         RecibirRespuesta, Terminar, vars, historia
  <2>3. PICK o : Atender(o)
    BY <2>2 DEF Recibir
  <2>4. Intento(o)
    BY <2>1, <2>3 DEF Atender, ErrorSintaxis, MasSinSaludo, HolaRepetido, Hola, OtraPregunta,
         MasConIntentos, MasTrasAcierto, Adios, RespuestaNula, RespuestaErrada, Acierto,
         RespuestaCerrada, OrdenLarga, SinCambio, NuevaPregunta, historia
  <2>5. flagPregunta = 1 /\ intentos \in 1..MaxIntentos
    BY <2>4 DEF Intento, Abierta, InvCuenta
  <2> QED BY <2>1, <2>5, IntentosAssumption DEF InvCuenta
<1> QED BY <1>1, InicioCuenta, PasoCuenta, PTL DEF Spec, OportunidadesContadas

-----------------------------------------------------------------------------
(* Types of the whole state *)

LEMMA RecibirTipo ==
    ASSUME InvTipo, InvCuenta, Recibir
    PROVE  InvTipo'
<1>0. PICK k \in 1..Len(alServidor) : \E o :
         Atender(o) /\ alServidor' = SubSeq(alServidor, k + 1, Len(alServidor))
  BY DEF Recibir
<1>1. PICK o :
         Atender(o) /\ alServidor' = SubSeq(alServidor, k + 1, Len(alServidor))
  BY <1>0
<1>2. PICK codigos \in {<<>>, <<"500", "500">>} \cup {<<c>> : c \in Codigos} : Contestar(codigos)
  BY <1>1, AtenderContesta DEF Respuestas
<1>3. UNCHANGED <<servidor, cliente, enviadas, leida>> /\ alServidor # <<>>
  BY DEF Recibir, ladoCliente
<1>4. alCliente' \in Seq(Codigos \X (0..enviadas))
  BY <1>2, <1>3, ContestarBien
<1>5. alServidor' \in Seq(Ordenes \X (1..enviadas))
  BY <1>1 DEF InvTipo
<1>6. enviadas \in 0..MaxOrdenes
  BY DEF InvTipo, TypeOK
<1>7. alCliente' \in Seq(Codigos \X (0..MaxOrdenes)) /\ alServidor' \in Seq(Ordenes \X (1..MaxOrdenes))
  <2>1. Codigos \X (0..enviadas) \subseteq Codigos \X (0..MaxOrdenes)
    BY <1>6, OrdenesAssumption
  <2>2. Ordenes \X (1..enviadas) \subseteq Ordenes \X (1..MaxOrdenes)
    BY <1>6, OrdenesAssumption
  <2> QED BY <1>4, <1>5, <2>1, <2>2, SeqMonotonic
<1>8. preguntaElegida' \in 0..numPreguntas /\ respuestaPregunta' \in {0} \cup Range(Banco)
  <2>1. CASE NuevaPregunta
    <3>1. numPreguntas \in Nat
      BY BancoAssumption DEF numPreguntas
    <3>2. preguntaElegida' \in 0..numPreguntas /\ respuestaPregunta' = Respuesta(preguntaElegida')
      BY <2>1, <3>1 DEF NuevaPregunta
    <3>3. Respuesta(preguntaElegida') \in {0} \cup Range(Banco)
      BY <3>2, RespuestaTipo
    <3> QED BY <3>2, <3>3
  <2>2. CASE preguntaElegida' = preguntaElegida /\ respuestaPregunta' \in {respP, respuestaPregunta}
    BY <2>2 DEF respP, InvTipo, TypeOK
  <2> QED BY <1>1, <2>1, <2>2
       DEF Atender, ErrorSintaxis, MasSinSaludo, HolaRepetido, Hola, OtraPregunta, MasConIntentos,
           MasTrasAcierto, Adios, RespuestaNula, RespuestaErrada, Acierto, RespuestaCerrada,
           OrdenLarga, SinCambio, Intento
<1>9. acertada' \in BOOLEAN /\ despedida' \in BOOLEAN
  BY <1>1 DEF InvTipo, TypeOK, historia, Atender, ErrorSintaxis, MasSinSaludo, HolaRepetido, Hola,
           OtraPregunta, MasConIntentos, MasTrasAcierto, Adios, RespuestaNula, RespuestaErrada,
           Acierto, RespuestaCerrada, OrdenLarga, SinCambio, NuevaPregunta, Intento
<1>10. /\ flagConexion' \in {0, 1} /\ flagPregunta' \in {0, 1}
       /\ intentos' \in 0..MaxIntentos /\ evaluadas' \in 0..MaxIntentos
  BY <1>1, AtenderCuenta DEF InvCuenta
<1>11. TypeOK'
  BY <1>3, <1>7, <1>8, <1>9, <1>10 DEF InvTipo, TypeOK
<1> QED BY <1>3, <1>4, <1>5, <1>11 DEF InvTipo

LEMMA EnviarTipo ==
    ASSUME InvTipo, NEW o \in Ordenes, Enviar(o)
    PROVE  InvTipo'
<1>1. /\ enviadas \in 0..MaxOrdenes /\ enviadas' = enviadas + 1 /\ enviadas' \in 1..MaxOrdenes
      /\ alCliente' = alCliente /\ alServidor' = Append(alServidor, <<o, enviadas'>>)
  BY OrdenesAssumption DEF Enviar, InvTipo, TypeOK
<1>2. /\ Ordenes \X (1..enviadas) \subseteq Ordenes \X (1..enviadas')
      /\ Codigos \X (0..enviadas) \subseteq Codigos \X (0..enviadas')
      /\ Ordenes \X (1..enviadas') \subseteq Ordenes \X (1..MaxOrdenes)
      /\ <<o, enviadas'>> \in Ordenes \X (1..enviadas')
  BY <1>1, OrdenesAssumption
<1>3. alServidor \in Seq(Ordenes \X (1..enviadas'))
  BY <1>2, SeqMonotonic DEF InvTipo
<1>4. alServidor' \in Seq(Ordenes \X (1..enviadas'))
  BY <1>1, <1>2, <1>3
<1>5. alServidor' \in Seq(Ordenes \X (1..MaxOrdenes))
  BY <1>2, <1>4, SeqMonotonic
<1>6. alCliente' \in Seq(Codigos \X (0..enviadas'))
  BY <1>1, <1>2, SeqMonotonic DEF InvTipo
<1>7. leida' \in 0..enviadas'
  BY <1>1 DEF Enviar, InvTipo, TypeOK
<1>8. TypeOK'
  BY <1>1, <1>5, <1>7 DEF Enviar, InvTipo, TypeOK, partida, historia
<1> QED BY <1>4, <1>6, <1>8 DEF InvTipo

LEMMA LeerTipo ==
    ASSUME InvTipo, alCliente # <<>>
    PROVE  /\ alCliente[1][2] \in 0..enviadas
           /\ Tail(alCliente) \in Seq(Codigos \X (0..enviadas))
           /\ Tail(alCliente) \in Seq(Codigos \X (0..MaxOrdenes))
<1>1. alCliente \in Seq(Codigos \X (0..enviadas)) /\ alCliente \in Seq(Codigos \X (0..MaxOrdenes))
  BY DEF InvTipo, TypeOK
<1>2. alCliente[1] \in Codigos \X (0..enviadas)
  BY <1>1
<1> QED BY <1>1, <1>2

LEMMA ServicioPreparadoTipo ==
    ASSUME InvTipo, ServicioPreparado
    PROVE  InvTipo'
<1>1. enviadas \in 0..MaxOrdenes /\ "220" \in Codigos
  BY DEF InvTipo, TypeOK, Codigos
<1>2. <<"220", 0>> \in Codigos \X (0..enviadas) /\ <<"220", 0>> \in Codigos \X (0..MaxOrdenes)
  BY <1>1, OrdenesAssumption
<1>3. /\ Append(alCliente, <<"220", 0>>) \in Seq(Codigos \X (0..enviadas))
      /\ Append(alCliente, <<"220", 0>>) \in Seq(Codigos \X (0..MaxOrdenes))
  BY <1>2 DEF InvTipo, TypeOK
<1> QED BY <1>3 DEF ServicioPreparado, InvTipo, TypeOK, partida, ladoCliente, historia

LEMMA PasoTipo ==
    ASSUME InvTipo, InvCuenta, [Next]_vars
    PROVE  InvTipo'
<1>1. CASE RecibirSaludo
  BY <1>1, LeerTipo DEF RecibirSaludo, InvTipo, TypeOK, partida, historia
<1>2. CASE RecibirRespuesta
  BY <1>2, LeerTipo DEF RecibirRespuesta, InvTipo, TypeOK, partida, historia
<1>3. CASE Cerrar
  BY <1>3 DEF Cerrar, InvTipo, TypeOK, partida, historia, ladoCliente
<1>4. CASE Terminar
  BY <1>4 DEF Terminar, InvTipo, TypeOK, partida, historia
<1>5. CASE UNCHANGED vars
  BY <1>5 DEF vars, InvTipo, TypeOK, partida, historia, ladoCliente
<1> QED BY <1>1, <1>2, <1>3, <1>4, <1>5, RecibirTipo, EnviarTipo, ServicioPreparadoTipo
     DEF Next, Servidor, Cliente

LEMMA InicioTipo == Init => InvTipo
<1> SUFFICES ASSUME Init PROVE InvTipo
  OBVIOUS
<1>1. preguntaElegida \in 0..numPreguntas /\ respuestaPregunta \in {0} \cup Range(Banco)
  <2>1. numPreguntas \in Nat
    BY BancoAssumption DEF numPreguntas
  <2> QED BY <2>1 DEF Init
<1>2. /\ alServidor \in Seq(Ordenes \X (1..MaxOrdenes)) /\ alServidor \in Seq(Ordenes \X (1..enviadas))
      /\ alCliente \in Seq(Codigos \X (0..MaxOrdenes)) /\ alCliente \in Seq(Codigos \X (0..enviadas))
  <2>1. alServidor = <<>> /\ alCliente = <<>>
    BY DEF Init
  <2>2. \A S : <<>> \in Seq(S)
    OBVIOUS
  <2> QED BY <2>1, <2>2
<1>3. /\ intentos \in 0..MaxIntentos /\ evaluadas \in 0..MaxIntentos
      /\ enviadas \in 0..MaxOrdenes /\ leida \in 0..enviadas
  BY OrdenesAssumption, IntentosAssumption DEF Init
<1>4. /\ servidor \in {"arranque", "bucle", "fin"} /\ cliente \in {"saludo", "envia", "espera", "fin"}
      /\ flagConexion \in {0, 1} /\ flagPregunta \in {0, 1}
      /\ acertada \in BOOLEAN /\ despedida \in BOOLEAN
  BY DEF Init
<1> QED BY <1>1, <1>2, <1>3, <1>4 DEF InvTipo, TypeOK

\* Every state of the dialogue has its type.
THEOREM TipoCorrecto == Spec => []TypeOK
<1>1. InvTipo /\ InvCuenta /\ [Next]_vars => (InvTipo /\ InvCuenta)'
  BY PasoTipo, PasoCuenta
<1>2. InvTipo => TypeOK
  BY DEF InvTipo
<1> QED BY <1>1, <1>2, InicioTipo, InicioCuenta, PTL DEF Spec

-----------------------------------------------------------------------------
(* New questions, and replies on their way *)

\* A new question is announced only when the last one is settled, by a right answer or by
\* its last attempt, or the player has yet to greet (servidor.c:693-735).
THEOREM SinPreguntaDeMas == Spec => PreguntaResuelta
<1> DEFINE Anuncia == \E n \in 1..MaxOrdenes : alCliente' = Append(alCliente, <<"250", n>>)
<1>1. InvTipo /\ InvCuenta /\ Next => (Anuncia => flagConexion = 0 \/ acertada \/ evaluadas = MaxIntentos)
  <2> SUFFICES ASSUME InvTipo, InvCuenta, Next,
                      NEW n \in 1..MaxOrdenes, alCliente' = Append(alCliente, <<"250", n>>)
               PROVE  flagConexion = 0 \/ acertada \/ evaluadas = MaxIntentos
    OBVIOUS
  <2>1. alCliente \in Seq(Codigos \X (0..enviadas)) /\ Len(alCliente') = Len(alCliente) + 1
        /\ alCliente'[Len(alCliente) + 1] = <<"250", n>>
    BY DEF InvTipo
  <2>2. ~(alCliente' = alCliente) /\ ~(alCliente # <<>> /\ alCliente' = Tail(alCliente))
    BY <2>1
  <2>3. ~ServicioPreparado
    <3> SUFFICES ASSUME ServicioPreparado PROVE FALSE
      OBVIOUS
    <3>1. alCliente'[Len(alCliente) + 1] = <<"220", 0>>
      BY <2>1 DEF ServicioPreparado
    <3> QED BY <2>1, <3>1
  <2>4. Recibir
    BY <2>2, <2>3 DEF Next, Servidor, Cliente, Cerrar, RecibirSaludo, Enviar, RecibirRespuesta, Terminar
  <2>5. PICK o : Atender(o)
    BY <2>4 DEF Recibir
  <2>6. PICK codigos \in {<<>>, <<"500", "500">>} \cup {<<c>> : c \in Codigos} : Respuestas(o, codigos)
    BY <2>5, AtenderContesta
  <2>7. Len(alCliente') = Len(alCliente) + Len(codigos)
        /\ (Len(codigos) = 1 => alCliente' = Append(alCliente, <<codigos[1], alServidor[1][2]>>))
    BY <2>4, <2>6, ContestarBien DEF Recibir, Respuestas
  <2>8. PICK c \in Codigos : codigos = <<c>>
    <3>1. Len(alCliente) \in Nat /\ Len(codigos) \in Nat
      BY <2>1, <2>6, SeqCorta, LargoDeRespuestas
    <3>2. Len(alCliente') = Len(alCliente) + 1 /\ Len(alCliente') = Len(alCliente) + Len(codigos)
      BY <2>1, <2>7
    <3>3. Len(codigos) = 1
      <4>1. \A a, b \in Nat : a + 1 = a + b => b = 1
        OBVIOUS
      <4> QED BY <3>1, <3>2, <4>1, Zenon
    <3> QED BY <2>6, <3>3, LargoDeRespuestas
  <2>9. alCliente' = Append(alCliente, <<c, alServidor[1][2]>>)
    BY <2>7, <2>8
  <2>10. alCliente'[Len(alCliente) + 1] = <<c, alServidor[1][2]>>
    BY <2>1, <2>9
  <2>11. c = "250"
    BY <2>1, <2>10
  <2>12. Hola(o) \/ OtraPregunta(o)
    BY <2>6, <2>8, <2>11 DEF Respuestas
  <2> QED BY <2>12, IntentosAssumption DEF Hola, OtraPregunta, InvCuenta
<1>2. InvTipo /\ InvCuenta /\ [Next]_vars => (InvTipo /\ InvCuenta)'
  BY PasoTipo, PasoCuenta
<1>3. InvTipo /\ InvCuenta /\ [Next]_vars => [Anuncia => flagConexion = 0 \/ acertada \/ evaluadas = MaxIntentos]_vars
  BY <1>1
<1> QED BY <1>2, <1>3, InicioTipo, InicioCuenta, PTL DEF Spec, PreguntaResuelta

\* Until an ADIOS at most one message is on its way: the line just sent or its reply.
InvVuelo ==
    /\ servidor = "arranque" => cliente = "saludo" /\ alServidor = <<>> /\ alCliente = <<>>
    /\ cliente = "saludo" => alServidor = <<>> /\ enviadas = 0 /\ leida = 0
                             /\ (servidor # "arranque" => Len(alCliente) = 1)
    /\ ~despedida => /\ cliente = "envia" => alServidor = <<>> /\ alCliente = <<>> /\ leida = enviadas
                     /\ cliente = "espera" =>
                           /\ Len(alServidor) + Len(alCliente) <= 1
                           /\ alServidor # <<>> => alServidor[1][2] = enviadas
                           /\ alCliente # <<>> => alCliente[1][2] = enviadas
    /\ SoloCallaTrasAcierto

LEMMA RecibirVuelo ==
    ASSUME InvTipo, InvCuenta, InvCuenta', InvVuelo, Recibir
    PROVE  InvVuelo'
<1>0. PICK k \in 1..Len(alServidor) : \E o :
         Atender(o) /\ alServidor' = SubSeq(alServidor, k + 1, Len(alServidor))
  BY DEF Recibir
<1>1. PICK o :
         Atender(o) /\ alServidor' = SubSeq(alServidor, k + 1, Len(alServidor))
  BY <1>0
<1>2. PICK codigos \in {<<>>, <<"500", "500">>} \cup {<<c>> : c \in Codigos} : Respuestas(o, codigos)
  BY <1>1, AtenderContesta
<1>3. /\ Len(alCliente') = Len(alCliente) + Len(codigos)
      /\ Len(codigos) = 1 => alCliente' = Append(alCliente, <<codigos[1], alServidor[1][2]>>)
      /\ alCliente' \in Seq(Codigos \X (0..enviadas))
  BY <1>2, ContestarBien DEF Recibir, Respuestas
<1>4. /\ servidor = "bucle" /\ alServidor # <<>>
      /\ UNCHANGED <<servidor, cliente, enviadas, leida>>
      /\ alServidor \in Seq(Ordenes \X (1..enviadas)) /\ alCliente \in Seq(Codigos \X (0..enviadas))
  BY DEF Recibir, ladoCliente, InvTipo
<1>5. cliente # "saludo"
  BY <1>4 DEF InvVuelo
<1>6. despedida => despedida'
  BY <1>1 DEF Atender, ErrorSintaxis, MasSinSaludo, HolaRepetido, Hola, OtraPregunta,
           MasConIntentos, MasTrasAcierto, Adios, RespuestaNula, RespuestaErrada, Acierto,
           RespuestaCerrada, OrdenLarga, SinCambio, NuevaPregunta, Intento, historia
<1>7. ASSUME ~despedida, cliente = "espera"
      PROVE  /\ Len(alServidor') + Len(alCliente') <= 1 /\ alServidor' = <<>>
             /\ alCliente' # <<>> => alCliente'[1][2] = enviadas
  <2>1. Len(alServidor) = 1 /\ alCliente = <<>> /\ alServidor[1][2] = enviadas
    <3>1. Len(alServidor) >= 1 /\ Len(alServidor) \in Nat /\ Len(alCliente) \in Nat
      BY <1>4, SeqCorta
    <3>2. Len(alServidor) + Len(alCliente) <= 1 /\ alServidor[1][2] = enviadas
      BY <1>4, <1>7 DEF InvVuelo
    <3>3. Len(alServidor) = 1 /\ ~(Len(alCliente) >= 1)
      BY <3>1, <3>2
    <3>4. alCliente = <<>>
      BY <1>4, <3>3, SeqCorta
    <3> QED BY <3>2, <3>3, <3>4
  <2>2. alServidor' = <<>>
    BY <1>1, <1>4, <2>1, SeqCorta
  <2>3. codigos = <<>> \/ Len(codigos) = 1
    BY <1>2, <1>7 DEF Respuestas, InvCuenta
  <2>4. Len(codigos) = 1 => alCliente' = <<<<codigos[1], enviadas>>>>
    BY <1>3, <2>1
  <2>5. codigos = <<>> => alCliente' = <<>>
    BY <1>3, <2>1, SeqCorta
  <2> QED BY <2>2, <2>3, <2>4, <2>5
<1>8. ~(~despedida /\ cliente = "envia")
  BY <1>4 DEF InvVuelo
<1>9. SoloCallaTrasAcierto'
  <2> SUFFICES ASSUME alCliente' = <<>>
               PROVE  flagConexion' = 1 /\ acertada' /\ intentos' # 0
    BY DEF SoloCallaTrasAcierto, Callado
  <2>1. Len(codigos) = 0
    BY <1>2, <1>3, <1>4, SeqCorta
  <2>2. codigos = <<>>
    BY <1>2, <2>1
  <2>3. MasTrasAcierto(o)
    BY <1>2, <2>2 DEF Respuestas
  <2>4. flagConexion = 1 /\ intentos # 0 /\ acertada
    BY <2>3 DEF MasTrasAcierto, InvCuenta
  <2> QED BY <2>3, <2>4 DEF MasTrasAcierto, SinCambio, historia
<1> QED BY <1>4, <1>5, <1>6, <1>7, <1>8, <1>9 DEF InvVuelo

LEMMA PasoVuelo ==
    ASSUME InvTipo, InvCuenta, InvCuenta', InvVuelo, [Next]_vars
    PROVE  InvVuelo'
<1>1. CASE ServicioPreparado
  <2>1. alCliente' = <<<<"220", 0>>>> /\ cliente = "saludo"
    BY <1>1 DEF ServicioPreparado, InvVuelo
  <2> QED BY <1>1, <2>1 DEF ServicioPreparado, InvVuelo, ladoCliente, historia, partida,
             SoloCallaTrasAcierto, Callado
<1>2. CASE RecibirSaludo
  <2>1. Len(alCliente) = 1
    BY <1>2 DEF RecibirSaludo, InvVuelo
  <2>2. Tail(alCliente) = <<>>
    BY <2>1, SeqCorta DEF InvTipo
  <2> QED BY <1>2, <2>2 DEF RecibirSaludo, InvVuelo, SoloCallaTrasAcierto, Callado, historia
<1>3. ASSUME NEW o \in Ordenes, Enviar(o) PROVE InvVuelo'
  <2>1. /\ alServidor' = Append(alServidor, <<o, enviadas + 1>>) /\ cliente' = "espera"
        /\ UNCHANGED <<servidor, despedida, alCliente>> /\ cliente = "envia" /\ enviadas' = enviadas + 1
    BY <1>3 DEF Enviar, historia
  <2>2. alServidor' # <<>>
    <3>1. alServidor \in Seq(Ordenes \X (1..MaxOrdenes)) /\ enviadas \in Nat
      BY OrdenesAssumption DEF InvTipo, TypeOK
    <3>2. alServidor \in Seq(Ordenes \X Nat)
      BY <3>1, SeqMonotonic
    <3> QED BY <2>1, <3>1, <3>2, AppendProperties
  <2>3. ~despedida => alServidor' = <<<<o, enviadas'>>>> /\ alCliente' = <<>>
    BY <2>1 DEF InvVuelo
  <2>4. servidor # "arranque"
    BY <2>1 DEF InvVuelo
  <2> QED BY <2>1, <2>2, <2>3, <2>4 DEF InvVuelo, SoloCallaTrasAcierto, Callado
<1>4. CASE RecibirRespuesta
  <2>1. ~despedida => alServidor = <<>> /\ Len(alCliente) = 1 /\ alCliente[1][2] = enviadas
    <3>1. /\ Len(alCliente) >= 1 /\ Len(alCliente) \in Nat /\ Len(alServidor) \in Nat
          /\ alServidor # <<>> => Len(alServidor) >= 1
      <4>1. alServidor \in Seq(Ordenes \X (1..enviadas)) /\ alCliente \in Seq(Codigos \X (0..enviadas))
        BY DEF InvTipo
      <4>2. alCliente # <<>>
        BY <1>4 DEF RecibirRespuesta
      <4> QED BY <4>1, <4>2, SeqCorta
    <3>2. ~despedida => Len(alServidor) + Len(alCliente) <= 1 /\ alCliente[1][2] = enviadas
      BY <1>4 DEF RecibirRespuesta, InvVuelo
    <3>3. Len(alServidor) + Len(alCliente) <= 1 => Len(alCliente) = 1 /\ ~(Len(alServidor) >= 1)
      <4>1. \A a, b \in Nat : b >= 1 /\ a + b <= 1 => b = 1 /\ ~(a >= 1)
        OBVIOUS
      <4> QED BY <3>1, <4>1, Zenon
    <3> QED BY <3>1, <3>2, <3>3
  <2>2. ~despedida => Tail(alCliente) = <<>>
    BY <2>1, SeqCorta DEF InvTipo
  <2>3. servidor # "arranque"
    BY <1>4 DEF RecibirRespuesta, InvVuelo
  <2> QED BY <1>4, <2>1, <2>2, <2>3 DEF RecibirRespuesta, InvVuelo, SoloCallaTrasAcierto, Callado, historia
<1>5. CASE Terminar
  BY <1>5 DEF Terminar, InvVuelo, SoloCallaTrasAcierto, Callado, historia
<1>6. CASE Cerrar
  BY <1>6 DEF Cerrar, InvVuelo, SoloCallaTrasAcierto, Callado, historia, ladoCliente
<1>7. CASE UNCHANGED vars
  BY <1>7 DEF vars, InvVuelo, SoloCallaTrasAcierto, Callado, historia, ladoCliente, partida
<1> QED BY <1>1, <1>2, <1>3, <1>4, <1>5, <1>6, <1>7, RecibirVuelo DEF Next, Servidor, Cliente

LEMMA DialogoInvariante == Spec => [](InvTipo /\ InvCuenta /\ InvVuelo)
<1>1. Init => InvVuelo
  BY DEF Init, InvVuelo, SoloCallaTrasAcierto, Callado
<1>2. InvTipo /\ InvCuenta /\ InvVuelo /\ [Next]_vars => (InvTipo /\ InvCuenta /\ InvVuelo)'
  BY PasoTipo, PasoCuenta, PasoVuelo
<1> QED BY <1>1, <1>2, InicioTipo, InicioCuenta, PTL DEF Spec

\* Until an ADIOS the client reads the reply to the line it has just sent (cliente.c:292).
THEOREM RespuestasEmparejadas == Spec => []Emparejadas
<1>1. InvVuelo => Emparejadas
  BY DEF InvVuelo, Emparejadas
<1> QED BY <1>1, DialogoInvariante, PTL

\* The only order without a reply is a "+" after a right answer with attempts to spare
\* (servidor.c:693, 738), whatever has piled up or been answered twice.
THEOREM UnSoloSilencio == Spec => []SoloCallaTrasAcierto
<1>1. InvVuelo => SoloCallaTrasAcierto
  BY DEF InvVuelo
<1> QED BY <1>1, DialogoInvariante, PTL
=============================================================================
