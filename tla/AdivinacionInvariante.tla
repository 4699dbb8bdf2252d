------------------------- MODULE AdivinacionInvariante -------------------------
(***************************************************************************)
(* The inductive invariant of AdivinacionMPI: what is on each channel,     *)
(* given the receives its two ends stand at.  It says nothing of modo: a   *)
(* send by rendezvous only takes steps away.                               *)
(***************************************************************************)
EXTENDS AdivinacionMPI

Empezado == fase[PES] # "inicio"
Fin == Msj("FINALIZACION", 0)
Ultimo == Msj("FINAL", 0)
Solicitud(b) == Msj("SOLICITUD", b)
Propuesta(n) == Msj("PROCESAMIENTO", n)

-----------------------------------------------------------------------------
(* Between PES and the others *)

\* What PES may have told p after the first messages.
Encargos == {<<>>, <<Fin>>, <<Fin, Fin>>} \cup {<<Msj("NOTIFICAR", j)>> : j \in Indices}

\* The first messages that r has not read yet.
Previos(r) ==
    CASE fase[r] = "id" /\ r \in PGs -> <<Msj("ID", r), Msj("INFOPAS", PACount)>>
      [] fase[r] = "id" /\ r \notin PGs -> <<Msj("ID", r)>>
      [] fase[r] = "infopas" -> <<Msj("INFOPAS", PACount)>>
      [] OTHER -> <<>>

\* One report of a solved number, and nothing else.
Informe(s) ==
    /\ Len(s) = 1 /\ s[1].tag = "ESTADISTICAS"
    /\ s[1].dato \in Indices /\ Logaritmica(s[1].respuestas)

\* A manager reads its first messages, then takes numbers one at a time: it is told the
\* next one only when the statistics of the last one have been read.
CanalesPG(p) ==
    \/ /\ fase[p] \in {"id", "infopas", "bucle"}
       /\ \E x \in Encargos : canal[PES][p] = Previos(p) \o x
       /\ canal[p][PES] = <<>>
    \/ /\ fase[p] = "bucle" /\ canal[PES][p] = <<>> /\ Informe(canal[p][PES])
    \/ /\ fase[p] \in {"conecta", "adivina"}
       /\ canal[PES][p] = <<>> /\ canal[p][PES] = <<>> /\ numAAdivinar[p] \in Indices
    \/ /\ fase[p] = "fin"
       /\ canal[PES][p] \in {<<>>, <<Fin>>} /\ canal[p][PES] \in {<<>>, <<Ultimo>>}

\* The others are told to finish, once.
CanalesOtro(r) ==
    \/ /\ fase[r] \in {"id", "bucle"}
       /\ \E x \in {<<>>, <<Fin>>} : canal[PES][r] = Previos(r) \o x
       /\ canal[r][PES] = <<>>
    \/ /\ fase[r] = "fin" /\ canal[PES][r] = <<>> /\ canal[r][PES] \in {<<>>, <<Ultimo>>}

\* Nobody else talks to anybody.
Mudo(o, d) == ~ \/ o = PES /\ d \in Trabajadores
                \/ o \in Trabajadores /\ d = PES
                \/ o \in PGs /\ d \in PAs
                \/ o \in PAs /\ d \in PGs

InvCanales ==
    /\ \A o, d \in Rangos : Mudo(o, d) => canal[o][d] = <<>>
    /\ fase[PES] \in {"inicio", "bucle", "fin"}
    /\ IF Empezado
       THEN /\ \A p \in PGs : CanalesPG(p)
            /\ \A r \in PAs \cup PIs : CanalesOtro(r)
       ELSE /\ \A o, d \in Rangos : canal[o][d] = <<>>
            /\ \A r \in Trabajadores : fase[r] = "id"

-----------------------------------------------------------------------------
(* Between a manager and a guesser *)

Conecta(p, a) == fase[p] = "conecta" /\ idPAs(k[p]) = a
Propia(p, a) == estatusPA[a] = "OCUPADO" /\ origenPG[a] = p

\* The number of p is in the range of a, whose middle a proposes.
Busca(p, a) ==
    /\ numMin[a] <= arrayNumeros[numAAdivinar[p]] /\ arrayNumeros[numAAdivinar[p]] < numMax[a]
    /\ numMedio[a] = Medio(numMin[a], numMax[a])

\* a is free, or somebody else's.
SinSesion(p, a) ==
    \/ canal[p][a] = <<>> /\ canal[a][p] = <<>> /\ ~Conecta(p, a) /\ ~EnSesion(p, a)
    \/ canal[p][a] = <<Solicitud(1)>> /\ canal[a][p] = <<>> /\ Conecta(p, a)
    \/ canal[p][a] = <<>> /\ canal[a][p] = <<Solicitud(0)>> /\ Conecta(p, a)

\* a is p's: accepted; proposed; answered; and answered with IGUAL, when p may already
\* be asking for the next number.
ConSesion(p, a) ==
    LET c == Caracter(arrayNumeros[numAAdivinar[p]], numMedio[a])
    IN  \/ /\ canal[p][a] = <<>> /\ canal[a][p] = <<Solicitud(1), Propuesta(numMedio[a])>>
           /\ Conecta(p, a) /\ Busca(p, a)
           /\ contador[p] = 0 /\ numMin[a] = 0 /\ numMax[a] = NumMax
        \/ /\ canal[p][a] = <<>> /\ canal[a][p] = <<Propuesta(numMedio[a])>>
           /\ EnSesion(p, a) /\ Busca(p, a)
           /\ Mengua(numMax[a] - numMin[a], contador[p])
        \/ /\ canal[p][a] = <<Propuesta(c)>> /\ canal[a][p] = <<>>
           /\ EnSesion(p, a) /\ Busca(p, a) /\ c # IGUAL
           /\ Mengua(NuevoMax(c, numMax[a], numMedio[a]) - NuevoMin(c, numMin[a], numMedio[a]), contador[p])
        \/ /\ canal[p][a] = <<Propuesta(IGUAL)>> /\ canal[a][p] = <<>>
           /\ ~Conecta(p, a) /\ ~EnSesion(p, a)
        \/ /\ canal[p][a] = <<Propuesta(IGUAL), Solicitud(1)>> /\ canal[a][p] = <<>>
           /\ Conecta(p, a)

InvSesiones ==
    /\ \A p \in PGs, a \in PAs : IF Propia(p, a) THEN ConSesion(p, a) ELSE SinSesion(p, a)
    /\ \A p \in PGs : fase[p] = "conecta" => k[p] < PACount /\ contador[p] = 0
    /\ \A a \in PAs : estatusPA[a] = "OCUPADO" => origenPG[a] \in PGs

-----------------------------------------------------------------------------
(* The numbers, and who is still at work *)

Activos == {p \in PGs : \E j \in Indices : Lleva(p, j)}
PorAcabar == {r \in Trabajadores : fase[r] # "fin" \/ canal[r][PES] # <<>>}

InvNumeros ==
    /\ \A p, q \in PGs : \A j \in Indices : Lleva(p, j) /\ Lleva(q, j) => p = q
    /\ \A p \in PGs : \A j, l \in Indices : Lleva(p, j) /\ Lleva(p, l) => j = l
    /\ \A p \in PGs : \A j \in Indices : Lleva(p, j) => j <= nextNumber /\ j \notin Resueltos
    /\ \A j \in Indices : j <= nextNumber => j \in Resueltos \/ \E p \in PGs : Lleva(p, j)
    /\ \A n \in DOMAIN recibidas : recibidas[n].numero <= nextNumber
    /\ \A n, m \in DOMAIN recibidas : recibidas[n].numero = recibidas[m].numero => n = m
    /\ Activos \subseteq 1..PGReal

InvCuentas ==
    /\ numRemaining + Len(recibidas) = TOTALNUM
    /\ Len(recibidas) + Cardinality(Activos) = nextNumber
    /\ IF Empezado THEN contadorFinalizados + Cardinality(Activos) = PGReal
                   ELSE contadorFinalizados = 0 /\ nextNumber = 0
    /\ contadorFinalizados > 0 => nextNumber = TOTALNUM
    /\ statsRecv + Cardinality(PorAcabar) = Cardinality(Trabajadores)
    /\ Cerrado => Empezado /\ contadorFinalizados = PGReal

IInv == TypeOK /\ InvCanales /\ InvSesiones /\ InvNumeros /\ InvCuentas /\ PreguntasAcotadas
=============================================================================
