--------------------------- MODULE AdivinacionPrueba ---------------------------
(***************************************************************************)
(* Proofs about AdivinacionMPI, for every number of processes and numbers  *)
(* to guess, whether MPI sends eagerly or by rendezvous.                   *)
(***************************************************************************)
EXTENDS AdivinacionInvariante, BusquedaPrueba, FiniteSetTheorems, SequenceTheorems, TLAPS

USE NumMaxAssumption, AleatoriosAssumption, PGAssumption, PAAssumption, PIAssumption,
    TotalAssumption

-----------------------------------------------------------------------------
(* Ranks *)

LEMMA Roles ==
  /\ PES \in Rangos /\ Trabajadores \subseteq Rangos /\ PES \notin Trabajadores
  /\ PGs \subseteq Trabajadores /\ PAs \subseteq Trabajadores /\ PIs \subseteq Trabajadores
  /\ PGs \cap PAs = {} /\ PGs \cap PIs = {} /\ PAs \cap PIs = {}
  /\ Trabajadores = PGs \cup PAs \cup PIs /\ Rangos = {PES} \cup Trabajadores
  /\ PGs \subseteq Nat /\ PES = 0 /\ Rangos \subseteq Nat
  <1>1. PGCount \in Nat /\ PACount \in Nat /\ PICount \in Nat
    OBVIOUS
  <1> QED BY <1>1 DEF PES, PGs, PAs, PIs, Trabajadores, Rangos

LEMMA RolesFinitos ==
  IsFiniteSet(PGs) /\ IsFiniteSet(Trabajadores) /\ Cardinality(Trabajadores) \in Nat
  <1>1. PGCount \in Nat /\ PACount \in Nat /\ PICount \in Nat
    OBVIOUS
  <1>2. IsFiniteSet(PGs) /\ IsFiniteSet(PAs) /\ IsFiniteSet(PIs)
    BY <1>1, FS_Interval DEF PGs, PAs, PIs
  <1>3. IsFiniteSet(Trabajadores)
    BY <1>2, FS_Union DEF Trabajadores
  <1> QED BY <1>2, <1>3, FS_CardinalityType

LEMMA PGRealTipo == PGReal \in 1..PGCount /\ PGReal \in 1..TOTALNUM /\ 1..PGReal \subseteq PGs
  BY DEF PGReal, Menor, PGs

LEMMA AnillosPA == \A n \in 0..(PACount - 1) : idPAs(n) \in PAs
  BY DEF idPAs, PAs

LEMMA TurnoTipo == \A n \in 0..PACount : Turno(n) \in 0..(PACount - 1)
  BY DEF Turno

-----------------------------------------------------------------------------
(* Messages and sequences of them *)

LEMMA MsjTipo ==
  ASSUME NEW t \in Tags, NEW n \in Nat
  PROVE  Msj(t, n) \in Mensajes /\ Msj(t, n).tag = t /\ Msj(t, n).dato = n
  BY DEF Msj, Mensajes

LEMMA MsjIguales ==
  ASSUME NEW t, NEW n, NEW u, NEW m
  PROVE  Msj(t, n) = Msj(u, m) <=> t = u /\ n = m
  BY DEF Msj

\* The messages the invariant names.
LEMMA Cartas ==
  /\ Fin \in Mensajes /\ Fin.tag = "FINALIZACION"
  /\ Ultimo \in Mensajes /\ Ultimo.tag = "FINAL"
  /\ \A b \in Nat : Solicitud(b) \in Mensajes /\ Solicitud(b).tag = "SOLICITUD" /\ Solicitud(b).dato = b
  /\ \A n \in Nat : Propuesta(n) \in Mensajes /\ Propuesta(n).tag = "PROCESAMIENTO" /\ Propuesta(n).dato = n
  BY MsjTipo DEF Fin, Ultimo, Solicitud, Propuesta, Tags

LEMMA Unas ==
  ASSUME NEW a
  PROVE  /\ <<a>> # <<>> /\ Len(<<a>>) = 1 /\ Head(<<a>>) = a /\ Tail(<<a>>) = <<>>
         /\ Append(<<>>, a) = <<a>> /\ DOMAIN <<a>> = {1} /\ <<a>>[1] = a /\ DOMAIN <<>> = {}
  <1>1. Append(<<>>, a) = <<a>>
    OBVIOUS
  <1>2. DOMAIN <<a>> = {1}
    OBVIOUS
  <1>3. DOMAIN <<>> = {}
    <2>1. DOMAIN <<>> = 1..0
      OBVIOUS
    <2> QED BY <2>1
  <1> QED BY <1>1, <1>2, <1>3

LEMMA Dobles ==
  ASSUME NEW a, NEW b
  PROVE  /\ <<a, b>> # <<>> /\ Len(<<a, b>>) = 2 /\ Head(<<a, b>>) = a /\ Tail(<<a, b>>) = <<b>>
         /\ Append(<<a>>, b) = <<a, b>> /\ DOMAIN <<a, b>> = {1, 2}
         /\ <<a, b>>[1] = a /\ <<a, b>>[2] = b
  <1>1. Append(<<a>>, b) = <<a, b>>
    <2> DEFINE S == {a, b}
               s == Append(<<a>>, b)
    <2>1. <<a>> \in Seq(S) /\ <<a, b>> \in Seq(S) /\ b \in S
      OBVIOUS
    <2>2. s \in Seq(S) /\ Len(s) = 2 /\ s[1] = a /\ s[2] = b
      BY <2>1, AppendProperties
    <2>3. \A n \in 1..2 : s[n] = <<a, b>>[n]
      <3>1. \A n \in 1..2 : n = 1 \/ n = 2
        OBVIOUS
      <3> QED BY <2>2, <3>1
    <2>4. Len(<<a, b>>) = Len(s)
      BY <2>2
    <2>5. s = <<a, b>>
      <3> HIDE DEF S, s
      <3> QED BY <2>1, <2>2, <2>3, <2>4, SeqEqual
    <2> QED BY <2>5
  <1>2. DOMAIN <<a, b>> = {1, 2}
    OBVIOUS
  <1> QED BY <1>1, <1>2

LEMMA Encabeza ==
  ASSUME NEW M, NEW a \in M, NEW x \in Seq(M)
  PROVE  /\ <<a>> \o x \in Seq(M) /\ <<a>> \o x # <<>>
         /\ Head(<<a>> \o x) = a /\ Tail(<<a>> \o x) = x
  <1> DEFINE s == <<a>> \o x
  <1>1. <<a>> \in Seq(M) /\ Len(<<a>>) = 1 /\ <<a>>[1] = a
    OBVIOUS
  <1>2. /\ s \in Seq(M) /\ Len(s) = 1 + Len(x) /\ Len(x) \in Nat
        /\ s[1] = a /\ \A n \in 1..Len(x) : s[1 + n] = x[n]
    <2>1. /\ s \in Seq(M) /\ Len(s) = Len(<<a>>) + Len(x)
          /\ \A n \in 1..Len(<<a>>) + Len(x) :
                s[n] = IF n <= Len(<<a>>) THEN <<a>>[n] ELSE x[n - Len(<<a>>)]
      BY <1>1, ConcatProperties
    <2>2. Len(x) \in Nat
      OBVIOUS
    <2> HIDE DEF s
    <2>3. \A n \in 1..1 + Len(x) : s[n] = IF n <= 1 THEN a ELSE x[n - 1]
      BY <1>1, <2>1, <2>2
    <2> QED BY <1>1, <2>1, <2>2, <2>3
  <1> HIDE DEF s
  <1>3. s # <<>> /\ Head(s) = a
    BY <1>2
  <1>4. Tail(s) = x
    <2>1. Tail(s) \in Seq(M) /\ Len(Tail(s)) = Len(x)
          /\ \A n \in 1..Len(Tail(s)) : Tail(s)[n] = x[n]
      BY <1>2, <1>3, HeadTailProperties
    <2> QED BY <2>1, SeqEqual
  <1> QED BY <1>2, <1>3, <1>4 DEF s

LEMMA Asocia ==
  ASSUME NEW a \in Mensajes, NEW b \in Mensajes, NEW x \in Seq(Mensajes)
  PROVE  <<a, b>> \o x = <<a>> \o (<<b>> \o x) /\ <<a, b>> = <<a>> \o <<b>>
  <1>1. <<a>> \in Seq(Mensajes) /\ <<b>> \in Seq(Mensajes)
    OBVIOUS
  <1>2. Append(<<a>>, b) = <<a>> \o <<b>>
    BY <1>1, AppendIsConcat
  <1>3. <<a, b>> = <<a>> \o <<b>>
    BY <1>2, Dobles
  <1>4. (<<a>> \o <<b>>) \o x = <<a>> \o (<<b>> \o x)
    BY <1>1, ConcatAssociative
  <1>5. <<a, b>> \o x = (<<a>> \o <<b>>) \o x
    BY <1>3
  <1> QED BY <1>3, <1>4, <1>5

\* The first message of a channel is the one MPI_Recv takes, if it has the tag.
LEMMA Frente ==
  ASSUME NEW s \in Seq(Mensajes), NEW t, s # <<>>, Head(s).tag = t
  PROVE  /\ Primero(s, t) = 1 /\ s[1] = Head(s)
         /\ SubSeq(s, 1, 0) \o SubSeq(s, 2, Len(s)) = Tail(s) /\ Tail(s) \in Seq(Mensajes)
  <1>1. Len(s) \in Nat /\ Len(s) > 0 /\ 1 \in DOMAIN s /\ DOMAIN s = 1..Len(s) /\ s[1] = Head(s)
    OBVIOUS
  <1>2. Primero(s, t) = 1
    <2> DEFINE P(n) == s[n].tag = t /\ \A m \in 1..(n - 1) : s[m].tag # t
    <2>1. 1 \in DOMAIN s /\ P(1)
      BY <1>1
    <2>2. \A n \in DOMAIN s : P(n) => n = 1
      <3> SUFFICES ASSUME NEW n \in DOMAIN s, P(n), n # 1 PROVE FALSE
        OBVIOUS
      <3>1. n \in Nat /\ n > 1
        BY <1>1
      <3>2. 1 \in 1..(n - 1)
        BY <3>1
      <3> QED BY <3>2, <1>1
    <2>3. Primero(s, t) = CHOOSE n \in DOMAIN s : P(n)
      BY DEF Primero
    <2> HIDE DEF P
    <2> QED BY <2>1, <2>2, <2>3
  <1>3. SubSeq(s, 1, 0) \o SubSeq(s, 2, Len(s)) = Tail(s)
    <2>1. SubSeq(s, 1, 0) = <<>>
      BY <1>1
    <2>2. SubSeq(s, 2, Len(s)) = Tail(s)
      BY <1>1, TailIsSubSeq
    <2>3. Tail(s) \in Seq(Mensajes)
      BY <1>1
    <2> QED BY <2>1, <2>2, <2>3, ConcatEmptySeq
  <1> QED BY <1>1, <1>2, <1>3

Tipado == canal \in [Rangos -> [Rangos -> Seq(Mensajes)]]

\* MPI_Recv of the message at the front.
LEMMA Recibe ==
  ASSUME Tipado, NEW o \in Rangos, NEW d \in Rangos, NEW t, Delante(o, d, t)
  PROVE  /\ TrasRecv(o, d, t) = [canal EXCEPT ![o][d] = Tail(@)]
         /\ Recibido(o, d, t) = Head(canal[o][d])
         /\ canal[o][d] # <<>> /\ Head(canal[o][d]).tag = t
         /\ TrasRecv(o, d, t) \in [Rangos -> [Rangos -> Seq(Mensajes)]]
  <1>1. canal[o][d] \in Seq(Mensajes) /\ canal[o][d] # <<>> /\ Head(canal[o][d]).tag = t
    BY DEF Tipado, Delante
  <1> DEFINE s == canal[o][d]
  <1>2. Primero(s, t) = 1 /\ s[1] = Head(s) /\ Tail(s) \in Seq(Mensajes)
        /\ SubSeq(s, 1, 0) \o SubSeq(s, 2, Len(s)) = Tail(s)
    BY <1>1, Frente
  <1>3. TrasRecv(o, d, t) = [canal EXCEPT ![o][d] = SubSeq(s, 1, 0) \o SubSeq(s, 2, Len(s))]
    <2>1. TrasRecv(o, d, t) = [canal EXCEPT ![o][d] =
            SubSeq(s, 1, Primero(s, t) - 1) \o SubSeq(s, Primero(s, t) + 1, Len(s))]
      BY DEF TrasRecv, Tipado
    <2> QED BY <2>1, <1>2
  <1>4. TrasRecv(o, d, t) = [canal EXCEPT ![o][d] = Tail(s)]
    BY <1>2, <1>3
  <1> QED BY <1>1, <1>2, <1>4 DEF Recibido, Tipado

-----------------------------------------------------------------------------
(* What a receive finds, given the invariant *)

Contiene(s, m) == \E n \in DOMAIN s : s[n] = m
Tiene(s, t) == \E n \in DOMAIN s : s[n].tag = t

LEMMA ContieneEncabeza ==
  ASSUME NEW a \in Mensajes, NEW x \in Seq(Mensajes), NEW m, NEW t
  PROVE  /\ Contiene(<<a>> \o x, m) <=> a = m \/ Contiene(x, m)
         /\ Tiene(<<a>> \o x, t) <=> a.tag = t \/ Tiene(x, t)
  <1> DEFINE s == <<a>> \o x
  <1>1. s \in Seq(Mensajes) /\ s # <<>> /\ Head(s) = a /\ Tail(s) = x
    BY Encabeza
  <1> HIDE DEF s
  <1>2. /\ DOMAIN s = 1..Len(s) /\ DOMAIN x = 1..Len(x) /\ Len(s) = Len(x) + 1 /\ Len(x) \in Nat
        /\ s[1] = a /\ \A n \in 1..Len(x) : s[n + 1] = x[n]
    <2>1. Len(x) = Len(s) - 1 /\ \A n \in 1..Len(x) : x[n] = s[n + 1]
      BY <1>1, HeadTailProperties
    <2>2. DOMAIN s = 1..Len(s) /\ DOMAIN x = 1..Len(x) /\ Len(s) \in Nat /\ Len(x) \in Nat /\ s[1] = a
      BY <1>1
    <2> QED BY <2>1, <2>2
  <1>3. \A n \in DOMAIN s : n = 1 \/ (n - 1 \in DOMAIN x /\ s[n] = x[n - 1])
    <2> TAKE n \in DOMAIN s
    <2>1. n \in 1..(Len(x) + 1)
      BY <1>2
    <2>2. n # 1 => n - 1 \in 1..Len(x) /\ (n - 1) + 1 = n
      BY <1>2, <2>1
    <2> QED BY <1>2, <2>2
  <1>4. 1 \in DOMAIN s /\ \A n \in DOMAIN x : n + 1 \in DOMAIN s /\ s[n + 1] = x[n]
    BY <1>2
  <1>5. Contiene(s, m) <=> a = m \/ Contiene(x, m)
    <2>1. Contiene(s, m) => a = m \/ Contiene(x, m)
      BY <1>2, <1>3 DEF Contiene
    <2>2. a = m => Contiene(s, m)
      BY <1>2, <1>4 DEF Contiene
    <2>3. Contiene(x, m) => Contiene(s, m)
      BY <1>4 DEF Contiene
    <2> QED BY <2>1, <2>2, <2>3
  <1>6. Tiene(s, t) <=> a.tag = t \/ Tiene(x, t)
    <2>1. Tiene(s, t) => a.tag = t \/ Tiene(x, t)
      BY <1>2, <1>3 DEF Tiene
    <2>2. a.tag = t => Tiene(s, t)
      BY <1>2, <1>4 DEF Tiene
    <2>3. Tiene(x, t) => Tiene(s, t)
      BY <1>4 DEF Tiene
    <2> QED BY <2>1, <2>2, <2>3
  <1> QED BY <1>5, <1>6 DEF s

LEMMA ContieneCortas ==
  ASSUME NEW a, NEW b, NEW m, NEW t
  PROVE  /\ ~Contiene(<<>>, m) /\ ~Tiene(<<>>, t)
         /\ Contiene(<<a>>, m) <=> a = m
         /\ Tiene(<<a>>, t) <=> a.tag = t
         /\ Contiene(<<a, b>>, m) <=> a = m \/ b = m
         /\ Tiene(<<a, b>>, t) <=> a.tag = t \/ b.tag = t
  BY Unas, Dobles DEF Contiene, Tiene

LEMMA EncargosTipo ==
  ASSUME NEW x \in Encargos
  PROVE  /\ x \in Seq(Mensajes)
         /\ ~Tiene(x, "ID") /\ ~Tiene(x, "INFOPAS")
         /\ Tiene(x, "NOTIFICAR") => \E j \in Indices : x = <<Msj("NOTIFICAR", j)>>
         /\ Tiene(x, "FINALIZACION") => x \in {<<Fin>>, <<Fin, Fin>>}
         /\ \A j : Contiene(x, Msj("NOTIFICAR", j)) => x = <<Msj("NOTIFICAR", j)>>
  <1>1. CASE x \in {<<>>, <<Fin>>, <<Fin, Fin>>}
    <2>1. \A j : Fin # Msj("NOTIFICAR", j)
      BY MsjIguales DEF Fin
    <2>2. Fin \in Mensajes /\ Fin.tag = "FINALIZACION"
      BY Cartas
    <2>3. CASE x = <<>>
      <3>1. \A m : ~Contiene(<<>>, m) /\ ~Tiene(<<>>, m)
        BY ContieneCortas
      <3> QED BY <2>3, <3>1
    <2>4. CASE x = <<Fin>>
      <3>1. \A m : (Contiene(<<Fin>>, m) <=> Fin = m) /\ (Tiene(<<Fin>>, m) <=> Fin.tag = m)
        BY ContieneCortas
      <3>2. <<Fin>> \in Seq(Mensajes)
        BY <2>2
      <3> QED BY <2>1, <2>2, <2>4, <3>1, <3>2
    <2>5. CASE x = <<Fin, Fin>>
      <3>1. \A m : (Contiene(<<Fin, Fin>>, m) <=> Fin = m) /\ (Tiene(<<Fin, Fin>>, m) <=> Fin.tag = m)
        BY ContieneCortas
      <3>2. <<Fin, Fin>> \in Seq(Mensajes)
        BY <2>2
      <3> QED BY <2>1, <2>2, <2>5, <3>1, <3>2
    <2> QED BY <1>1, <2>3, <2>4, <2>5
  <1>2. CASE \E j \in Indices : x = <<Msj("NOTIFICAR", j)>>
    <2>1. PICK j \in Indices : x = <<Msj("NOTIFICAR", j)>>
      BY <1>2
    <2>2. Msj("NOTIFICAR", j) \in Mensajes /\ Msj("NOTIFICAR", j).tag = "NOTIFICAR"
      BY MsjTipo DEF Indices, Tags
    <2>3. x \in Seq(Mensajes)
      BY <2>1, <2>2
    <2> QED BY <2>1, <2>2, <2>3, ContieneCortas
  <1> QED BY <1>1, <1>2 DEF Encargos

LEMMA Iniciales ==
  /\ \A n \in Nat : Msj("ID", n) \in Mensajes /\ Msj("ID", n).tag = "ID"
  /\ Msj("INFOPAS", PACount) \in Mensajes /\ Msj("INFOPAS", PACount).tag = "INFOPAS"
  /\ \A j \in Indices : Msj("NOTIFICAR", j) \in Mensajes /\ Msj("NOTIFICAR", j).tag = "NOTIFICAR"
                        /\ Msj("NOTIFICAR", j).dato = j
  <1>1. PACount \in Nat
    OBVIOUS
  <1> QED BY <1>1, MsjTipo DEF Tags, Indices

\* Hay, and what MPI_Recv finds, in terms of sequences.
LEMMA EsperaFrente ==
  ASSUME Tipado, NEW o \in Rangos, NEW d \in Rangos, NEW t, Espera(o, d, t) \/ Probe(o, d, t)
  PROVE  canal[o][d] # <<>> /\ Tiene(canal[o][d], t) /\ canal[o][d] \in Seq(Mensajes)
  <1>1. canal[o][d] \in Seq(Mensajes)
    BY DEF Tipado
  <1>2. CASE Espera(o, d, t)
    <2>1. Tiene(canal[o][d], t)
      BY <1>2 DEF Espera, Hay, Tiene
    <2>2. ~Tiene(<<>>, t)
      BY ContieneCortas
    <2> QED BY <1>1, <2>1, <2>2
  <1>3. CASE Probe(o, d, t)
    <2>1. canal[o][d] # <<>> /\ Head(canal[o][d]).tag = t
      BY <1>3 DEF Probe, Delante
    <2>2. 1 \in DOMAIN canal[o][d] /\ canal[o][d][1] = Head(canal[o][d])
      BY <1>1, <2>1, Frente
    <2> QED BY <1>1, <2>1, <2>2 DEF Tiene
  <1> QED BY <1>2, <1>3

\* The channels c with v as the one from o to d.
Con(c, o, d, v) == [c EXCEPT ![o][d] = v]

\* MPI_Recv from a channel that starts with m.
LEMMA RecibeDe ==
  ASSUME Tipado, NEW o \in Rangos, NEW d \in Rangos, NEW m \in Mensajes, NEW x \in Seq(Mensajes),
         NEW t, canal[o][d] = <<m>> \o x, m.tag = t
  PROVE  /\ TrasRecv(o, d, t) = Con(canal, o, d, x)
         /\ Recibido(o, d, t) = m
  <1>1. canal[o][d] # <<>> /\ Head(canal[o][d]) = m /\ Tail(canal[o][d]) = x
    BY Encabeza
  <1>2. Delante(o, d, t)
    BY <1>1 DEF Delante
  <1>3. TrasRecv(o, d, t) = [canal EXCEPT ![o][d] = Tail(@)] /\ Recibido(o, d, t) = m
    BY <1>1, <1>2, Recibe
  <1> QED BY <1>1, <1>3 DEF Tipado, Con
LEMMA RecibeUno ==
  ASSUME Tipado, NEW o \in Rangos, NEW d \in Rangos, NEW m \in Mensajes,
         NEW t, canal[o][d] = <<m>>, m.tag = t
  PROVE  TrasRecv(o, d, t) = Con(canal, o, d, <<>>) /\ Recibido(o, d, t) = m
  <1>1. canal[o][d] # <<>> /\ Head(canal[o][d]) = m /\ Tail(canal[o][d]) = <<>>
    BY Unas
  <1>2. Delante(o, d, t)
    BY <1>1 DEF Delante
  <1>3. TrasRecv(o, d, t) = [canal EXCEPT ![o][d] = Tail(@)] /\ Recibido(o, d, t) = m
    BY <1>1, <1>2, Recibe
  <1> QED BY <1>1, <1>3 DEF Tipado, Con

LEMMA RecibeDos ==
  ASSUME Tipado, NEW o \in Rangos, NEW d \in Rangos, NEW m \in Mensajes, NEW n \in Mensajes,
         NEW t, canal[o][d] = <<m, n>>, m.tag = t
  PROVE  TrasRecv(o, d, t) = Con(canal, o, d, <<n>>) /\ Recibido(o, d, t) = m
  <1>1. canal[o][d] # <<>> /\ Head(canal[o][d]) = m /\ Tail(canal[o][d]) = <<n>>
    BY Dobles
  <1>2. Delante(o, d, t)
    BY <1>1 DEF Delante
  <1>3. TrasRecv(o, d, t) = [canal EXCEPT ![o][d] = Tail(@)] /\ Recibido(o, d, t) = m
    BY <1>1, <1>2, Recibe
  <1> QED BY <1>1, <1>3 DEF Tipado, Con

LEMMA YaEmpezado ==
  ASSUME InvCanales, NEW o \in Rangos, NEW d \in Rangos, canal[o][d] # <<>>
  PROVE  Empezado /\ (\A p \in PGs : CanalesPG(p)) /\ (\A r \in PAs \cup PIs : CanalesOtro(r))
  BY DEF InvCanales

LEMMA TipoDeCanal == TypeOK => Tipado
  BY DEF TypeOK, Tipado

\* Identificar.
LEMMA HayID ==
  ASSUME TypeOK, InvCanales, NEW r \in Trabajadores, fase[r] = "id", Espera(PES, r, "ID")
  PROVE  /\ Empezado /\ canal[r][PES] = <<>>
         /\ \E y \in Seq(Mensajes) :
               /\ canal[PES][r] = <<Msj("ID", r)>> \o y
               /\ TrasRecv(PES, r, "ID") = Con(canal, PES, r, y)
               /\ IF r \in PGs THEN \E x \in Encargos : y = <<Msj("INFOPAS", PACount)>> \o x
                               ELSE y \in {<<>>, <<Fin>>}
  <1>1. Tipado /\ PES \in Rangos /\ r \in Rangos
    BY TipoDeCanal, Roles
  <1>2. canal[PES][r] # <<>>
    BY <1>1, EsperaFrente
  <1>3. Empezado /\ (r \in PGs => CanalesPG(r)) /\ (r \notin PGs => CanalesOtro(r))
    BY <1>1, <1>2, YaEmpezado, Roles
  <1>4. Msj("ID", r) \in Mensajes /\ Msj("ID", r).tag = "ID" /\ Msj("INFOPAS", PACount) \in Mensajes
    <2>1. r \in Nat
      BY Roles
    <2> QED BY <2>1, Iniciales
  <1>5. CASE r \in PGs
    <2>1. canal[r][PES] = <<>> /\ \E x \in Encargos : canal[PES][r] = Previos(r) \o x
      BY <1>3, <1>5 DEF CanalesPG
    <2>2. PICK x \in Encargos : canal[PES][r] = Previos(r) \o x
      BY <2>1
    <2>3. Previos(r) = <<Msj("ID", r), Msj("INFOPAS", PACount)>>
      BY <1>5 DEF Previos
    <2>4. x \in Seq(Mensajes)
      BY EncargosTipo
    <2>7. <<Msj("INFOPAS", PACount)>> \o x \in Seq(Mensajes)
      BY <1>4, <2>4, Encabeza
    <2>5. canal[PES][r] = <<Msj("ID", r)>> \o (<<Msj("INFOPAS", PACount)>> \o x)
      <3>1. <<Msj("ID", r), Msj("INFOPAS", PACount)>> \o x
              = <<Msj("ID", r)>> \o (<<Msj("INFOPAS", PACount)>> \o x)
        <4> DEFINE a == Msj("ID", r)
                   b == Msj("INFOPAS", PACount)
        <4>1. a \in Mensajes /\ b \in Mensajes
          BY <1>4
        <4> HIDE DEF a, b
        <4>2. <<a, b>> \o x = <<a>> \o (<<b>> \o x)
          BY <2>4, <4>1, Asocia
        <4> QED BY <4>2 DEF a, b
      <3> QED BY <2>2, <2>3, <3>1
    <2>6. TrasRecv(PES, r, "ID") = Con(canal, PES, r, <<Msj("INFOPAS", PACount)>> \o x)
      <3> DEFINE m == Msj("ID", r)
                 y == <<Msj("INFOPAS", PACount)>> \o x
      <3>1. m \in Mensajes /\ m.tag = "ID" /\ y \in Seq(Mensajes) /\ canal[PES][r] = <<m>> \o y
        BY <1>4, <2>5, <2>7
      <3> HIDE DEF m, y
      <3>2. TrasRecv(PES, r, "ID") = Con(canal, PES, r, y)
        BY <1>1, <3>1, RecibeDe
      <3> QED BY <3>2 DEF y
    <2> QED BY <1>3, <1>5, <2>1, <2>5, <2>6, <2>7
  <1>6. CASE r \notin PGs
    <2>1. canal[r][PES] = <<>> /\ \E x \in {<<>>, <<Fin>>} : canal[PES][r] = Previos(r) \o x
      BY <1>3, <1>6 DEF CanalesOtro
    <2>2. PICK x \in {<<>>, <<Fin>>} : canal[PES][r] = Previos(r) \o x
      BY <2>1
    <2>3. Previos(r) = <<Msj("ID", r)>>
      BY <1>6 DEF Previos
    <2>4. x \in Seq(Mensajes)
      BY EncargosTipo DEF Encargos
    <2>5. TrasRecv(PES, r, "ID") = Con(canal, PES, r, x)
      <3> DEFINE m == Msj("ID", r)
      <3>1. m \in Mensajes /\ m.tag = "ID" /\ canal[PES][r] = <<m>> \o x
        BY <1>4, <2>2, <2>3
      <3> HIDE DEF m
      <3> QED BY <1>1, <2>4, <3>1, RecibeDe
    <2> QED BY <1>3, <1>6, <2>1, <2>2, <2>3, <2>4, <2>5
  <1> QED BY <1>5, <1>6

\* PGInfoPAs.
LEMMA HayINFOPAS ==
  ASSUME TypeOK, InvCanales, NEW p \in PGs, fase[p] = "infopas", Espera(PES, p, "INFOPAS")
  PROVE  /\ Empezado /\ canal[p][PES] = <<>>
         /\ \E x \in Encargos : /\ canal[PES][p] = <<Msj("INFOPAS", PACount)>> \o x
                                /\ TrasRecv(PES, p, "INFOPAS") = Con(canal, PES, p, x)
  <1>1. Tipado /\ PES \in Rangos /\ p \in Rangos
    BY TipoDeCanal, Roles
  <1>2. canal[PES][p] # <<>>
    BY <1>1, EsperaFrente
  <1>3. Empezado /\ CanalesPG(p)
    BY <1>1, <1>2, YaEmpezado
  <1>4. canal[p][PES] = <<>> /\ \E x \in Encargos : canal[PES][p] = Previos(p) \o x
    BY <1>3 DEF CanalesPG
  <1>5. PICK x \in Encargos : canal[PES][p] = Previos(p) \o x
    BY <1>4
  <1>6. Previos(p) = <<Msj("INFOPAS", PACount)>>
    BY DEF Previos
  <1>7. x \in Seq(Mensajes) /\ Msj("INFOPAS", PACount) \in Mensajes /\ Msj("INFOPAS", PACount).tag = "INFOPAS"
    BY Iniciales, EncargosTipo
  <1>8. TrasRecv(PES, p, "INFOPAS") = Con(canal, PES, p, x)
    BY <1>1, <1>5, <1>6, <1>7, RecibeDe
  <1> QED BY <1>3, <1>4, <1>5, <1>6, <1>8

\* PGNotificar.
LEMMA HayNOTIFICAR ==
  ASSUME TypeOK, InvCanales, NEW p \in PGs, fase[p] = "bucle", Espera(PES, p, "NOTIFICAR")
  PROVE  /\ Empezado /\ canal[p][PES] = <<>>
         /\ \E j \in Indices : /\ canal[PES][p] = <<Msj("NOTIFICAR", j)>>
                               /\ TrasRecv(PES, p, "NOTIFICAR") = Con(canal, PES, p, <<>>)
                               /\ Recibido(PES, p, "NOTIFICAR").dato = j
  <1>1. Tipado /\ PES \in Rangos /\ p \in Rangos
    BY TipoDeCanal, Roles
  <1>2. canal[PES][p] # <<>> /\ Tiene(canal[PES][p], "NOTIFICAR")
    BY <1>1, EsperaFrente
  <1>3. Empezado /\ CanalesPG(p)
    BY <1>1, <1>2, YaEmpezado
  <1>4. canal[p][PES] = <<>> /\ \E x \in Encargos : canal[PES][p] = Previos(p) \o x
    BY <1>2, <1>3 DEF CanalesPG
  <1>5. PICK x \in Encargos : canal[PES][p] = Previos(p) \o x
    BY <1>4
  <1>6. Previos(p) = <<>> /\ x \in Seq(Mensajes)
    BY EncargosTipo DEF Previos
  <1>7. canal[PES][p] = x
    BY <1>5, <1>6, ConcatEmptySeq
  <1>8. PICK j \in Indices : x = <<Msj("NOTIFICAR", j)>>
    BY <1>2, <1>7, EncargosTipo
  <1>9. /\ Msj("NOTIFICAR", j) \in Mensajes /\ Msj("NOTIFICAR", j).tag = "NOTIFICAR"
        /\ Msj("NOTIFICAR", j).dato = j
    BY Iniciales
  <1>10. /\ TrasRecv(PES, p, "NOTIFICAR") = Con(canal, PES, p, <<>>)
         /\ Recibido(PES, p, "NOTIFICAR") = Msj("NOTIFICAR", j)
    <2> DEFINE m == Msj("NOTIFICAR", j)
    <2>1. m \in Mensajes /\ m.tag = "NOTIFICAR" /\ canal[PES][p] = <<m>>
      BY <1>7, <1>8, <1>9
    <2> HIDE DEF m
    <2>2. TrasRecv(PES, p, "NOTIFICAR") = Con(canal, PES, p, <<>>) /\ Recibido(PES, p, "NOTIFICAR") = m
      BY <1>1, <2>1, RecibeUno
    <2> QED BY <2>2 DEF m
  <1> QED BY <1>3, <1>4, <1>7, <1>8, <1>9, <1>10

\* Finalizar.
LEMMA HayFINALIZACION ==
  ASSUME TypeOK, InvCanales, NEW r \in Trabajadores, fase[r] = "bucle", Espera(PES, r, "FINALIZACION")
  PROVE  /\ Empezado /\ canal[r][PES] = <<>> /\ Hay(PES, r, "FINALIZACION")
         /\ \E y \in {<<>>, <<Fin>>} :
               /\ canal[PES][r] = <<Fin>> \o y /\ (r \notin PGs => y = <<>>)
               /\ TrasRecv(PES, r, "FINALIZACION") = Con(canal, PES, r, y)
  <1>1. Tipado /\ PES \in Rangos /\ r \in Rangos
    BY TipoDeCanal, Roles
  <1>2. canal[PES][r] # <<>> /\ Tiene(canal[PES][r], "FINALIZACION") /\ canal[PES][r] \in Seq(Mensajes)
    BY <1>1, EsperaFrente
  <1>3. Empezado /\ (r \in PGs => CanalesPG(r)) /\ (r \notin PGs => CanalesOtro(r))
    BY <1>1, <1>2, YaEmpezado, Roles
  <1>4. Fin \in Mensajes /\ Fin.tag = "FINALIZACION" /\ <<>> \in Seq(Mensajes) /\ <<Fin>> \in Seq(Mensajes)
    <2>1. Fin \in Mensajes /\ Fin.tag = "FINALIZACION"
      BY Cartas
    <2> QED BY <2>1
  <1>5. Previos(r) = <<>>
    BY DEF Previos
  <1>6. canal[r][PES] = <<>> /\ \E y \in {<<>>, <<Fin>>} : canal[PES][r] = <<Fin>> \o y /\ (r \notin PGs => y = <<>>)
    <2>1. <<Fin>> \o <<>> = <<Fin>> /\ <<Fin>> \o <<Fin>> = <<Fin, Fin>>
      BY <1>4, Asocia, ConcatEmptySeq
    <2>2. CASE r \in PGs
      <3>1. canal[r][PES] = <<>> /\ \E x \in Encargos : canal[PES][r] = Previos(r) \o x
        BY <1>2, <1>3, <2>2 DEF CanalesPG
      <3>2. PICK x \in Encargos : canal[PES][r] = Previos(r) \o x
        BY <3>1
      <3>3. x \in Seq(Mensajes) /\ canal[PES][r] = x
        BY <1>5, <3>2, EncargosTipo, ConcatEmptySeq
      <3>4. x \in {<<Fin>>, <<Fin, Fin>>}
        BY <1>2, <3>3, EncargosTipo
      <3> QED BY <2>1, <2>2, <3>1, <3>3, <3>4
    <2>3. CASE r \notin PGs
      <3>1. canal[r][PES] = <<>> /\ \E x \in {<<>>, <<Fin>>} : canal[PES][r] = Previos(r) \o x
        BY <1>2, <1>3, <2>3 DEF CanalesOtro
      <3>2. canal[PES][r] = <<Fin>>
        BY <1>2, <1>4, <1>5, <3>1, ConcatEmptySeq
      <3> QED BY <2>1, <2>3, <3>1, <3>2
    <2> QED BY <2>2, <2>3
  <1>7. PICK y \in {<<>>, <<Fin>>} : canal[PES][r] = <<Fin>> \o y /\ (r \notin PGs => y = <<>>)
    BY <1>6
  <1>8. TrasRecv(PES, r, "FINALIZACION") = Con(canal, PES, r, y)
    <2>1. y \in Seq(Mensajes)
      BY <1>4
    <2>2. canal[PES][r] = <<Fin>> \o y
      BY <1>7
    <2> QED BY <1>1, <1>4, <2>1, <2>2, RecibeDe
  <1>9. Hay(PES, r, "FINALIZACION")
    BY <1>2 DEF Hay, Tiene
  <1> QED BY <1>3, <1>6, <1>7, <1>8, <1>9
LEMMA MediosNat ==
  ASSUME TypeOK
  PROVE  /\ \A a \in PAs : numMedio[a] \in Nat
         /\ \A x, y : Caracter(x, y) \in {MENOR, MAYOR, IGUAL}
         /\ MENOR \in Nat /\ MAYOR \in Nat /\ IGUAL \in Nat
  BY DEF TypeOK, Caracter, MENOR, MAYOR, IGUAL

\* PGConectado and PGRechazado.
LEMMA HayContestacion ==
  ASSUME TypeOK, InvSesiones, NEW p \in PGs, fase[p] = "conecta",
         NEW a, a = idPAs(k[p]), Espera(a, p, "SOLICITUD")
  PROVE  /\ a \in PAs /\ k[p] \in 0..(PACount - 1) /\ Conecta(p, a) /\ canal[p][a] = <<>>
         /\ IF Propia(p, a)
            THEN /\ canal[a][p] = <<Solicitud(1), Propuesta(numMedio[a])>>
                 /\ Busca(p, a) /\ contador[p] = 0 /\ numMin[a] = 0 /\ numMax[a] = NumMax
                 /\ TrasRecv(a, p, "SOLICITUD") = Con(canal, a, p, <<Propuesta(numMedio[a])>>)
                 /\ Recibido(a, p, "SOLICITUD").dato = 1
            ELSE /\ canal[a][p] = <<Solicitud(0)>>
                 /\ TrasRecv(a, p, "SOLICITUD") = Con(canal, a, p, <<>>)
                 /\ Recibido(a, p, "SOLICITUD").dato = 0
  <1>1. k[p] \in 0..(PACount - 1)
    <2>1. k[p] \in 0..PACount /\ k[p] < PACount
      BY DEF TypeOK, InvSesiones
    <2> QED BY <2>1
  <1>2. a \in PAs /\ Conecta(p, a) /\ ~EnSesion(p, a)
    BY <1>1, AnillosPA DEF Conecta, EnSesion
  <1>3. Tipado /\ a \in Rangos /\ p \in Rangos
    BY <1>2, TipoDeCanal, Roles
  <1>4. canal[a][p] # <<>>
    BY <1>3, EsperaFrente
  <1>5. /\ Solicitud(0) \in Mensajes /\ Solicitud(0).tag = "SOLICITUD" /\ Solicitud(0).dato = 0
        /\ Solicitud(1) \in Mensajes /\ Solicitud(1).tag = "SOLICITUD" /\ Solicitud(1).dato = 1
        /\ Propuesta(numMedio[a]) \in Mensajes
    BY <1>2, Cartas, MediosNat
  <1>6. CASE Propia(p, a)
    <2>1. ConSesion(p, a)
      BY <1>2, <1>6 DEF InvSesiones
    <2>2. /\ canal[p][a] = <<>> /\ canal[a][p] = <<Solicitud(1), Propuesta(numMedio[a])>>
          /\ Busca(p, a) /\ contador[p] = 0 /\ numMin[a] = 0 /\ numMax[a] = NumMax
      BY <1>2, <1>4, <2>1 DEF ConSesion
    <2>3. /\ TrasRecv(a, p, "SOLICITUD") = Con(canal, a, p, <<Propuesta(numMedio[a])>>)
          /\ Recibido(a, p, "SOLICITUD") = Solicitud(1)
      BY <1>3, <1>5, <2>2, RecibeDos
    <2> QED BY <1>1, <1>2, <1>5, <1>6, <2>2, <2>3
  <1>7. CASE ~Propia(p, a)
    <2>1. SinSesion(p, a)
      BY <1>2, <1>7 DEF InvSesiones
    <2>2. canal[p][a] = <<>> /\ canal[a][p] = <<Solicitud(0)>>
      BY <1>2, <1>4, <2>1 DEF SinSesion
    <2>3. /\ TrasRecv(a, p, "SOLICITUD") = Con(canal, a, p, <<>>)
          /\ Recibido(a, p, "SOLICITUD") = Solicitud(0)
      BY <1>3, <1>5, <2>2, RecibeUno
    <2> QED BY <1>1, <1>2, <1>5, <1>7, <2>2, <2>3
  <1> QED BY <1>6, <1>7

\* PGAdivina.
LEMMA HayPropuesta ==
  ASSUME TypeOK, InvSesiones, NEW p \in PGs, fase[p] = "adivina",
         NEW a, a = idPAs(idPA[p]), Espera(a, p, "PROCESAMIENTO")
  PROVE  /\ a \in PAs /\ EnSesion(p, a) /\ Propia(p, a) /\ canal[p][a] = <<>>
         /\ canal[a][p] = <<Propuesta(numMedio[a])>>
         /\ Busca(p, a) /\ Mengua(numMax[a] - numMin[a], contador[p])
         /\ TrasRecv(a, p, "PROCESAMIENTO") = Con(canal, a, p, <<>>)
         /\ Recibido(a, p, "PROCESAMIENTO").dato = numMedio[a]
  <1>1. a \in PAs /\ EnSesion(p, a) /\ ~Conecta(p, a)
    BY AnillosPA DEF Conecta, EnSesion, TypeOK
  <1>2. Tipado /\ a \in Rangos /\ p \in Rangos
    BY <1>1, TipoDeCanal, Roles
  <1>3. canal[a][p] # <<>>
    BY <1>2, EsperaFrente
  <1>4. /\ Propuesta(numMedio[a]) \in Mensajes /\ Propuesta(numMedio[a]).tag = "PROCESAMIENTO"
        /\ Propuesta(numMedio[a]).dato = numMedio[a]
    BY <1>1, Cartas, MediosNat
  <1>5. Propia(p, a) /\ ConSesion(p, a)
    <2>1. ~SinSesion(p, a)
      BY <1>1 DEF SinSesion
    <2> QED BY <1>1, <2>1 DEF InvSesiones
  <1>6. /\ canal[p][a] = <<>> /\ canal[a][p] = <<Propuesta(numMedio[a])>>
        /\ Busca(p, a) /\ Mengua(numMax[a] - numMin[a], contador[p])
    BY <1>1, <1>3, <1>5 DEF ConSesion
  <1>7. /\ TrasRecv(a, p, "PROCESAMIENTO") = Con(canal, a, p, <<>>)
        /\ Recibido(a, p, "PROCESAMIENTO") = Propuesta(numMedio[a])
    BY <1>2, <1>4, <1>6, RecibeUno
  <1> QED BY <1>1, <1>4, <1>5, <1>6, <1>7

\* Only a manager has something other than its orders to tell a guesser.
LEMMA SoloPG ==
  ASSUME TypeOK, InvCanales, NEW a \in PAs, NEW o \in Rangos, NEW t \in {"SOLICITUD", "PROCESAMIENTO"},
         Hay(o, a, t)
  PROVE  o \in PGs
  <1>1. Tipado /\ a \in Rangos /\ a \in Trabajadores /\ a \notin PGs
    BY TipoDeCanal, Roles
  <1>2. canal[o][a] # <<>> /\ Tiene(canal[o][a], t)
    BY ContieneCortas DEF Hay, Tiene
  <1>3. CanalesOtro(a)
    BY <1>1, <1>2, YaEmpezado
  <1>4. o # PES
    <2> SUFFICES ASSUME o = PES PROVE FALSE
      OBVIOUS
    <2>1. Previos(a) \in {<<>>, <<Msj("ID", a)>>}
      <3>1. fase[a] \in {"id", "bucle", "fin"}
        BY <1>3 DEF CanalesOtro
      <3> QED BY <1>1, <3>1 DEF Previos
    <2>2. \E x \in {<<>>, <<Fin>>} : canal[PES][a] = Previos(a) \o x
      BY <1>2, <1>3 DEF CanalesOtro
    <2>3. PICK x \in {<<>>, <<Fin>>} : canal[PES][a] = Previos(a) \o x
      BY <2>2
    <2>4. x \in Seq(Mensajes) /\ ~Tiene(x, t)
      <3>1. x \in Encargos /\ Fin.tag = "FINALIZACION"
        BY Cartas DEF Encargos
      <3>2. ~Tiene(<<>>, t)
        BY ContieneCortas
      <3>3. Tiene(<<Fin>>, t) <=> Fin.tag = t
        BY ContieneCortas
      <3>4. ~Tiene(<<Fin>>, t)
        BY <3>1, <3>3
      <3>5. x \in Seq(Mensajes)
        BY <3>1, EncargosTipo
      <3> QED BY <3>2, <3>4, <3>5
    <2>5. CASE Previos(a) = <<>>
      BY <1>2, <2>3, <2>4, <2>5, ConcatEmptySeq
    <2>6. CASE Previos(a) = <<Msj("ID", a)>>
      <3> DEFINE m == Msj("ID", a)
      <3>1. m \in Mensajes /\ m.tag = "ID"
        <4>1. a \in Nat
          BY Roles
        <4> QED BY <4>1, Iniciales
      <3> HIDE DEF m
      <3>2. Tiene(<<m>> \o x, t) => m.tag = t \/ Tiene(x, t)
        BY <2>4, <3>1, ContieneEncabeza
      <3>3. canal[PES][a] = <<m>> \o x
        BY <2>3, <2>6 DEF m
      <3> QED BY <1>2, <2>4, <3>1, <3>2, <3>3
    <2> QED BY <2>1, <2>5, <2>6
  <1>5. ~Mudo(o, a)
    BY <1>1, <1>2 DEF InvCanales
  <1> QED BY <1>1, <1>4, <1>5, Roles DEF Mudo

\* PASolicitud.
LEMMA HaySolicitud ==
  ASSUME TypeOK, InvCanales, InvSesiones, NEW a \in PAs, NEW o \in Rangos, Probe(o, a, "SOLICITUD")
  PROVE  /\ o \in PGs /\ ~Propia(o, a) /\ Conecta(o, a)
         /\ canal[o][a] = <<Solicitud(1)>> /\ canal[a][o] = <<>>
         /\ TrasRecv(o, a, "SOLICITUD") = Con(canal, o, a, <<>>)
  <1>1. Tipado /\ a \in Rangos /\ o \in PGs
    <2>1. Tipado /\ a \in Rangos
      BY TipoDeCanal, Roles
    <2>2. Hay(o, a, "SOLICITUD")
      BY <2>1, EsperaFrente DEF Hay, Tiene
    <2> QED BY <2>1, <2>2, SoloPG
  <1>2. canal[o][a] # <<>> /\ Head(canal[o][a]).tag = "SOLICITUD"
    BY DEF Probe, Delante
  <1>3. Solicitud(1) \in Mensajes /\ Solicitud(1).tag = "SOLICITUD"
    BY Cartas
  <1>4. ~Propia(o, a)
    <2> SUFFICES ASSUME Propia(o, a) PROVE FALSE
      OBVIOUS
    <2>1. ConSesion(o, a)
      BY <1>1 DEF InvSesiones
    <2>2. \E n \in Nat : Head(canal[o][a]) = Propuesta(n)
      <3>1. \A x, y : Caracter(x, y) \in Nat
        BY MediosNat
      <3> QED BY <1>2, <2>1, <3>1, MediosNat, Unas, Dobles DEF ConSesion
    <2> QED BY <1>2, <2>2, Cartas
  <1>5. SinSesion(o, a)
    BY <1>1, <1>4 DEF InvSesiones
  <1>6. canal[o][a] = <<Solicitud(1)>> /\ canal[a][o] = <<>> /\ Conecta(o, a)
    BY <1>2, <1>5 DEF SinSesion
  <1>7. TrasRecv(o, a, "SOLICITUD") = Con(canal, o, a, <<>>)
    BY <1>1, <1>3, <1>6, RecibeUno
  <1> QED BY <1>1, <1>4, <1>6, <1>7

\* PAProcesa: the answer is that of its own session.
LEMMA HayRespuesta ==
  ASSUME TypeOK, InvCanales, InvSesiones, NEW a \in PAs, NEW o \in Rangos, Probe(o, a, "PROCESAMIENTO")
  PROVE  LET c == Caracter(arrayNumeros[numAAdivinar[o]], numMedio[a])
         IN  /\ o \in PGs /\ o = origenPG[a] /\ Propia(o, a) /\ canal[a][o] = <<>>
             /\ \/ /\ canal[o][a] = <<Propuesta(c)>> /\ EnSesion(o, a) /\ Busca(o, a) /\ c # IGUAL
                   /\ Mengua(NuevoMax(c, numMax[a], numMedio[a]) - NuevoMin(c, numMin[a], numMedio[a]),
                             contador[o])
                   /\ TrasRecv(o, a, "PROCESAMIENTO") = Con(canal, o, a, <<>>)
                   /\ Recibido(o, a, "PROCESAMIENTO").dato = c
                \/ /\ canal[o][a] = <<Propuesta(IGUAL)>> /\ ~Conecta(o, a) /\ ~EnSesion(o, a)
                   /\ TrasRecv(o, a, "PROCESAMIENTO") = Con(canal, o, a, <<>>)
                   /\ Recibido(o, a, "PROCESAMIENTO").dato = IGUAL
                \/ /\ canal[o][a] = <<Propuesta(IGUAL), Solicitud(1)>> /\ Conecta(o, a)
                   /\ TrasRecv(o, a, "PROCESAMIENTO") = Con(canal, o, a, <<Solicitud(1)>>)
                   /\ Recibido(o, a, "PROCESAMIENTO").dato = IGUAL
  <1> DEFINE c == Caracter(arrayNumeros[numAAdivinar[o]], numMedio[a])
  <1>1. Tipado /\ a \in Rangos /\ o \in PGs
    <2>1. Tipado /\ a \in Rangos
      BY TipoDeCanal, Roles
    <2>2. Hay(o, a, "PROCESAMIENTO")
      BY <2>1, EsperaFrente DEF Hay, Tiene
    <2> QED BY <2>1, <2>2, SoloPG
  <1>2. canal[o][a] # <<>> /\ Head(canal[o][a]).tag = "PROCESAMIENTO"
    BY DEF Probe, Delante
  <1>3. /\ Solicitud(1) \in Mensajes /\ Solicitud(1).tag = "SOLICITUD"
        /\ Propuesta(c) \in Mensajes /\ Propuesta(c).tag = "PROCESAMIENTO" /\ Propuesta(c).dato = c
        /\ Propuesta(IGUAL) \in Mensajes /\ Propuesta(IGUAL).tag = "PROCESAMIENTO"
        /\ Propuesta(IGUAL).dato = IGUAL
    <2>1. c \in Nat /\ IGUAL \in Nat
      BY MediosNat
    <2> QED BY <2>1, Cartas
  <1>4. Propia(o, a)
    <2> SUFFICES ASSUME ~Propia(o, a) PROVE FALSE
      OBVIOUS
    <2>1. SinSesion(o, a)
      BY <1>1 DEF InvSesiones
    <2>2. canal[o][a] = <<Solicitud(1)>>
      BY <1>2, <2>1 DEF SinSesion
    <2> QED BY <1>2, <1>3, <2>2, Unas
  <1>5. ConSesion(o, a)
    BY <1>1, <1>4 DEF InvSesiones
  <1> HIDE DEF c
  <1>6. CASE /\ canal[o][a] = <<Propuesta(c)>> /\ canal[a][o] = <<>>
             /\ EnSesion(o, a) /\ Busca(o, a) /\ c # IGUAL
             /\ Mengua(NuevoMax(c, numMax[a], numMedio[a]) - NuevoMin(c, numMin[a], numMedio[a]), contador[o])
    <2>1. /\ TrasRecv(o, a, "PROCESAMIENTO") = Con(canal, o, a, <<>>)
          /\ Recibido(o, a, "PROCESAMIENTO") = Propuesta(c)
      BY <1>1, <1>3, <1>6, RecibeUno
    <2> QED BY <1>1, <1>3, <1>4, <1>6, <2>1 DEF Propia, c
  <1>7. CASE canal[o][a] = <<Propuesta(IGUAL)>> /\ canal[a][o] = <<>> /\ ~Conecta(o, a) /\ ~EnSesion(o, a)
    <2>1. /\ TrasRecv(o, a, "PROCESAMIENTO") = Con(canal, o, a, <<>>)
          /\ Recibido(o, a, "PROCESAMIENTO") = Propuesta(IGUAL)
      BY <1>1, <1>3, <1>7, RecibeUno
    <2> QED BY <1>1, <1>3, <1>4, <1>7, <2>1 DEF Propia
  <1>8. CASE canal[o][a] = <<Propuesta(IGUAL), Solicitud(1)>> /\ canal[a][o] = <<>> /\ Conecta(o, a)
    <2>1. /\ TrasRecv(o, a, "PROCESAMIENTO") = Con(canal, o, a, <<Solicitud(1)>>)
          /\ Recibido(o, a, "PROCESAMIENTO") = Propuesta(IGUAL)
      BY <1>1, <1>3, <1>8, RecibeDos
    <2> QED BY <1>1, <1>3, <1>4, <1>8, <2>1 DEF Propia
  <1> QED BY <1>2, <1>5, <1>6, <1>7, <1>8 DEF ConSesion, c
-----------------------------------------------------------------------------
(* A step of one process: what it must keep of its own channels with PES *)

\* Nobody but r changes what ties it to PES.
Ajenos(r) ==
    \A q \in Trabajadores \ {r} :
        /\ fase'[q] = fase[q] /\ canal'[PES][q] = canal[PES][q] /\ canal'[q][PES] = canal[q][PES]
        /\ q \in PGs => numAAdivinar'[q] = numAAdivinar[q]

\* r has been told to finish.
Avisado(r) == fase[r] = "fin" \/ Hay(PES, r, "FINALIZACION")

\* Nothing happens to the numbers.
Quietos ==
    /\ \A p \in PGs : \A j \in Indices : Lleva(p, j)' <=> Lleva(p, j)
    /\ recibidas' = recibidas /\ (Cerrado' <=> Cerrado)

MudosIgual == \A o, d \in Rangos : Mudo(o, d) => canal'[o][d] = canal[o][d]

LEMMA NumerosIgual ==
  ASSUME InvNumeros, \A p \in PGs : \A j \in Indices : Lleva(p, j)' <=> Lleva(p, j),
         UNCHANGED <<nextNumber, recibidas>>
  PROVE  InvNumeros' /\ Activos' = Activos
  <1>1. Resueltos' = Resueltos
    BY DEF Resueltos
  <1>2. Activos' = Activos
    BY DEF Activos
  <1> QED BY <1>1, <1>2 DEF InvNumeros

LEMMA PasoUnico ==
  ASSUME InvCanales, InvNumeros, InvCuentas, PreguntasAcotadas, Empezado, NEW r \in Trabajadores,
         Ajenos(r), MudosIgual, fase'[PES] \in {"bucle", "fin"},
         r \in PGs => CanalesPG(r)' /\ \A j \in Indices : Lleva(r, j)' <=> Lleva(r, j),
         r \notin PGs => CanalesOtro(r)',
         Avisado(r)' => Cerrado, Avisado(r) => Avisado(r)',
         UNCHANGED <<nextNumber, numRemaining, contadorFinalizados, recibidas>>,
         statsRecv' + Cardinality(PorAcabar') = Cardinality(Trabajadores)
  PROVE  InvCanales' /\ InvNumeros' /\ InvCuentas' /\ PreguntasAcotadas' /\ Quietos
  <1>1. Empezado'
    BY DEF Empezado
  <1>2. \A p \in PGs : CanalesPG(p)'
    <2> SUFFICES ASSUME NEW p \in PGs, p # r PROVE CanalesPG(p)'
      OBVIOUS
    <2>1. /\ fase'[p] = fase[p] /\ canal'[PES][p] = canal[PES][p] /\ canal'[p][PES] = canal[p][PES]
          /\ numAAdivinar'[p] = numAAdivinar[p]
      BY Roles DEF Ajenos
    <2>2. CanalesPG(p)
      BY DEF InvCanales
    <2>3. Previos(p)' = Previos(p)
      BY <2>1 DEF Previos
    <2> QED BY <2>1, <2>2, <2>3 DEF CanalesPG, Informe
  <1>3. \A q \in PAs \cup PIs : CanalesOtro(q)'
    <2> SUFFICES ASSUME NEW q \in PAs \cup PIs, q # r PROVE CanalesOtro(q)'
      BY Roles
    <2>1. fase'[q] = fase[q] /\ canal'[PES][q] = canal[PES][q] /\ canal'[q][PES] = canal[q][PES]
      BY Roles DEF Ajenos
    <2>2. CanalesOtro(q)
      BY DEF InvCanales
    <2>3. Previos(q)' = Previos(q)
      BY <2>1 DEF Previos
    <2> QED BY <2>1, <2>2, <2>3 DEF CanalesOtro
  <1>4. InvCanales'
    <2>1. \A o, d \in Rangos : Mudo(o, d) => canal'[o][d] = <<>>
      BY DEF InvCanales, MudosIgual
    <2>2. \A o, d : Mudo(o, d)' <=> Mudo(o, d)
      BY DEF Mudo
    <2> QED BY <1>1, <1>2, <1>3, <2>1, <2>2 DEF InvCanales
  <1>5. \A p \in PGs : \A j \in Indices : Lleva(p, j)' <=> Lleva(p, j)
    <2> SUFFICES ASSUME NEW p \in PGs, NEW j \in Indices, p # r PROVE Lleva(p, j)' <=> Lleva(p, j)
      OBVIOUS
    <2>1. /\ fase'[p] = fase[p] /\ canal'[PES][p] = canal[PES][p] /\ canal'[p][PES] = canal[p][PES]
          /\ numAAdivinar'[p] = numAAdivinar[p]
      BY Roles DEF Ajenos
    <2> QED BY <2>1 DEF Lleva
  <1>6. InvNumeros' /\ Activos' = Activos
    BY <1>5, NumerosIgual
  <1>7. Cerrado' <=> Cerrado
    <2>1. (Cerrado <=> \E q \in Trabajadores : Avisado(q)) /\ (Cerrado' <=> \E q \in Trabajadores : Avisado(q)')
      BY DEF Cerrado, Avisado
    <2>2. ASSUME NEW q \in Trabajadores \ {r} PROVE Avisado(q)' <=> Avisado(q)
      <3>1. fase'[q] = fase[q] /\ canal'[PES][q] = canal[PES][q]
        BY DEF Ajenos
      <3> QED BY <3>1 DEF Avisado, Hay
    <2> QED BY <2>1, <2>2
  <1>8. InvCuentas'
    BY <1>1, <1>6, <1>7 DEF InvCuentas
  <1>9. PreguntasAcotadas'
    BY DEF PreguntasAcotadas
  <1>10. Quietos
    BY <1>5, <1>7 DEF Quietos
  <1> QED BY <1>4, <1>6, <1>8, <1>9, <1>10

LEMMA PorAcabarIgual ==
  ASSUME NEW r \in Trabajadores, Ajenos(r),
         (fase'[r] # "fin" \/ canal'[r][PES] # <<>>) <=> (fase[r] # "fin" \/ canal[r][PES] # <<>>)
  PROVE  PorAcabar' = PorAcabar
  <1>1. \A q \in Trabajadores : (fase'[q] # "fin" \/ canal'[q][PES] # <<>>)
                                  <=> (fase[q] # "fin" \/ canal[q][PES] # <<>>)
    BY DEF Ajenos
  <1> QED BY <1>1 DEF PorAcabar

\* The same when statsRecv stays.
LEMMA PasoDeUno ==
  ASSUME InvCanales, InvNumeros, InvCuentas, PreguntasAcotadas, Empezado, NEW r \in Trabajadores,
         Ajenos(r), MudosIgual, fase'[PES] = fase[PES],
         r \in PGs => CanalesPG(r)' /\ \A j \in Indices : Lleva(r, j)' <=> Lleva(r, j),
         r \notin PGs => CanalesOtro(r)',
         Avisado(r)' => Cerrado, Avisado(r) => Avisado(r)',
         UNCHANGED pes,
         (fase'[r] # "fin" \/ canal'[r][PES] # <<>>) <=> (fase[r] # "fin" \/ canal[r][PES] # <<>>)
  PROVE  InvCanales' /\ InvNumeros' /\ InvCuentas' /\ PreguntasAcotadas' /\ Quietos
  <1>1. PorAcabar' = PorAcabar
    BY PorAcabarIgual
  <1>2. UNCHANGED <<nextNumber, numRemaining, contadorFinalizados, recibidas, statsRecv>>
    BY DEF pes
  <1>3. statsRecv' + Cardinality(PorAcabar') = Cardinality(Trabajadores)
    BY <1>1, <1>2 DEF InvCuentas
  <1>4. fase'[PES] \in {"bucle", "fin"}
    BY DEF InvCanales, Empezado
  <1> QED BY <1>2, <1>3, <1>4, PasoUnico
-----------------------------------------------------------------------------
(* The channels after a step *)

Redes == [Rangos -> [Rangos -> Seq(Mensajes)]]

LEMMA Pone ==
  ASSUME NEW c \in Redes, NEW o \in Rangos, NEW d \in Rangos, NEW v \in Seq(Mensajes)
  PROVE  /\ Con(c, o, d, v) \in Redes
         /\ \A e, f \in Rangos : Con(c, o, d, v)[e][f] = IF e = o /\ f = d THEN v ELSE c[e][f]
  BY DEF Redes, Con

LEMMA Envia ==
  ASSUME NEW c \in Redes, NEW o \in Rangos, NEW d \in Rangos, NEW m \in Mensajes
  PROVE  /\ Send(c, o, d, m) \in Redes
         /\ \A e, f \in Rangos : Send(c, o, d, m)[e][f]
                = IF e = o /\ f = d THEN Append(c[o][d], m) ELSE c[e][f]
  <1> DEFINE v == Append(c[o][d], m)
  <1>1. v \in Seq(Mensajes)
    BY DEF Redes
  <1>2. Send(c, o, d, m) = Con(c, o, d, v)
    BY DEF Send, Redes, Con
  <1> HIDE DEF v
  <1>3. /\ Con(c, o, d, v) \in Redes
        /\ \A e, f \in Rangos : Con(c, o, d, v)[e][f] = IF e = o /\ f = d THEN v ELSE c[e][f]
    BY <1>1, Pone
  <1> QED BY <1>2, <1>3 DEF v

LEMMA EnRedes == TypeOK => canal \in Redes
  BY DEF TypeOK, Redes

\* MPI_Recv from o, leaving v, and MPI_Send of m to g.
LEMMA RecibeEnvia ==
  ASSUME NEW c \in Redes, NEW o \in Rangos, NEW d \in Rangos, NEW g \in Rangos, o # d,
         NEW v \in Seq(Mensajes), NEW m \in Mensajes
  PROVE  /\ Send(Con(c, o, d, v), d, g, m) \in Redes
         /\ \A e, f \in Rangos : Send(Con(c, o, d, v), d, g, m)[e][f]
                = IF e = o /\ f = d THEN v
                  ELSE IF e = d /\ f = g THEN Append(c[d][g], m) ELSE c[e][f]
  <1> DEFINE n == Con(c, o, d, v)
  <1>1. n \in Redes /\ \A e, f \in Rangos : n[e][f] = IF e = o /\ f = d THEN v ELSE c[e][f]
    BY Pone
  <1> HIDE DEF n
  <1>2. /\ Send(n, d, g, m) \in Redes
        /\ \A e, f \in Rangos : Send(n, d, g, m)[e][f]
               = IF e = d /\ f = g THEN Append(n[d][g], m) ELSE n[e][f]
    BY <1>1, Envia
  <1>3. n[d][g] = c[d][g]
    BY <1>1
  <1> DEFINE w == Append(c[d][g], m)
  <1>4. \A e, f \in Rangos : Send(n, d, g, m)[e][f]
               = IF e = d /\ f = g THEN w ELSE n[e][f]
    BY <1>2, <1>3
  <1> HIDE DEF w
  <1>5. \A e, f \in Rangos : Send(n, d, g, m)[e][f]
               = IF e = o /\ f = d THEN v ELSE IF e = d /\ f = g THEN w ELSE c[e][f]
    BY <1>1, <1>4
  <1> QED BY <1>2, <1>5 DEF n, w

LEMMA VaciaTipo == <<>> \in Seq(Mensajes)
  OBVIOUS

-----------------------------------------------------------------------------
(* The channels with PES, the numbers and the counts: step by step *)

Ordenes == InvCanales /\ InvNumeros /\ InvCuentas /\ PreguntasAcotadas

LEMMA OrdenesIdentificar ==
  ASSUME IInv, NEW r \in Trabajadores, Identificar(r)
  PROVE  Ordenes' /\ canal' \in Redes /\ Quietos
  <1>1. TypeOK /\ InvCanales /\ fase[r] = "id" /\ Espera(PES, r, "ID") /\ canal \in Redes
    BY EnRedes DEF IInv, Identificar
  <1>2. PICK y \in Seq(Mensajes) :
               /\ canal[PES][r] = <<Msj("ID", r)>> \o y
               /\ TrasRecv(PES, r, "ID") = Con(canal, PES, r, y)
               /\ IF r \in PGs THEN \E x \in Encargos : y = <<Msj("INFOPAS", PACount)>> \o x
                               ELSE y \in {<<>>, <<Fin>>}
    BY <1>1, HayID
  <1>3. Empezado /\ canal[r][PES] = <<>>
    BY <1>1, HayID
  <1>4. PES \in Rangos /\ r \in Rangos /\ r # PES
    BY Roles
  <1>5. canal' \in Redes /\ \A e, f \in Rangos : canal'[e][f] = IF e = PES /\ f = r THEN y ELSE canal[e][f]
    <2>1. canal' = Con(canal, PES, r, y)
      BY <1>2 DEF Identificar
    <2>2. canal \in Redes /\ PES \in Rangos /\ r \in Rangos
      BY <1>1, <1>4
    <2>3. /\ Con(canal, PES, r, y) \in Redes
          /\ \A e, f \in Rangos : Con(canal, PES, r, y)[e][f] = IF e = PES /\ f = r THEN y ELSE canal[e][f]
      BY <2>2, Pone
    <2> QED BY <2>1, <2>3
  <1>6. fase' = [fase EXCEPT ![r] = IF r \in PGs THEN "infopas" ELSE "bucle"]
        /\ fase \in [Rangos -> Fases] /\ UNCHANGED <<pes, pg>>
    BY <1>1 DEF Identificar, TypeOK
  <1>7. Ajenos(r) /\ MudosIgual /\ fase'[PES] = fase[PES]
    <2>1. MudosIgual
      BY <1>4, <1>5 DEF MudosIgual, Mudo
    <2>2. Ajenos(r)
      BY <1>4, <1>5, <1>6, Roles DEF Ajenos, pg
    <2> QED BY <1>4, <1>6, <2>1, <2>2
  <1>8. canal'[PES][r] = y /\ canal'[r][PES] = <<>>
    BY <1>3, <1>4, <1>5
  <1>9. r \in PGs => CanalesPG(r)' /\ \A j \in Indices : Lleva(r, j)' <=> Lleva(r, j)
    <2> SUFFICES ASSUME r \in PGs PROVE CanalesPG(r)' /\ \A j \in Indices : Lleva(r, j)' <=> Lleva(r, j)
      OBVIOUS
    <2>1. PICK x \in Encargos : y = <<Msj("INFOPAS", PACount)>> \o x
      BY <1>2
    <2>2. fase'[r] = "infopas"
      BY <1>4, <1>6
    <2>3. Previos(r)' = <<Msj("INFOPAS", PACount)>>
      BY <2>2 DEF Previos
    <2>4. CanalesPG(r)'
      BY <1>8, <2>1, <2>2, <2>3 DEF CanalesPG
    <2>5. ASSUME NEW j \in Indices PROVE Lleva(r, j)' <=> Lleva(r, j)
      <3> DEFINE m == Msj("ID", r)
                 n == Msj("NOTIFICAR", j)
      <3>1. m \in Mensajes /\ m # n
        <4>1. r \in Nat
          BY Roles
        <4> QED BY <4>1, Iniciales, MsjIguales
      <3>2. Contiene(canal[PES][r], n) <=> Contiene(y, n)
        <4>1. canal[PES][r] = <<m>> \o y
          BY <1>2
        <4> HIDE DEF m, n
        <4>2. Contiene(<<m>> \o y, n) <=> m = n \/ Contiene(y, n)
          BY <3>1, ContieneEncabeza
        <4> QED BY <3>1, <4>1, <4>2
      <3>3. fase[r] \notin {"conecta", "adivina"} /\ fase'[r] \notin {"conecta", "adivina"}
            /\ canal[r][PES] = canal'[r][PES]
        BY <1>1, <1>3, <1>8, <2>2
      <3> QED BY <1>8, <3>2, <3>3 DEF Lleva, Contiene
    <2> QED BY <2>4, <2>5
  <1>10. r \notin PGs => CanalesOtro(r)'
    <2> SUFFICES ASSUME r \notin PGs PROVE CanalesOtro(r)'
      OBVIOUS
    <2>1. fase'[r] = "bucle" /\ y \in {<<>>, <<Fin>>}
      BY <1>2, <1>4, <1>6
    <2>2. Previos(r)' = <<>>
      BY <2>1 DEF Previos
    <2>3. y = <<>> \o y
      BY ConcatEmptySeq
    <2> QED BY <1>8, <2>1, <2>2, <2>3 DEF CanalesOtro
  <1>11. (Avisado(r)' => Cerrado) /\ (Avisado(r) => Avisado(r)')
    <2>1. fase'[r] # "fin" /\ fase[r] # "fin"
      BY <1>1, <1>4, <1>6
    <2>2. Tiene(y, "FINALIZACION") <=> Tiene(canal[PES][r], "FINALIZACION")
      <3> DEFINE m == Msj("ID", r)
                 t == "FINALIZACION"
      <3>1. m \in Mensajes /\ m.tag # t /\ canal[PES][r] = <<m>> \o y
        <4>1. r \in Nat
          BY Roles
        <4> QED BY <1>2, <4>1, Iniciales
      <3> HIDE DEF m, t
      <3>2. Tiene(<<m>> \o y, t) <=> m.tag = t \/ Tiene(y, t)
        BY <3>1, ContieneEncabeza
      <3>3. Tiene(y, t) <=> Tiene(canal[PES][r], t)
        BY <3>1, <3>2
      <3> QED BY <3>3 DEF t
    <2> QED BY <1>8, <2>1, <2>2 DEF Avisado, Cerrado, Hay, Tiene
  <1>12. (fase'[r] # "fin" \/ canal'[r][PES] # <<>>) <=> (fase[r] # "fin" \/ canal[r][PES] # <<>>)
    BY <1>1, <1>4, <1>6
  <1>13. Ordenes' /\ Quietos
    BY <1>3, <1>6, <1>7, <1>9, <1>10, <1>11, <1>12, PasoDeUno DEF IInv, Ordenes
  <1> QED BY <1>5, <1>13
LEMMA EfectoFinalizar ==
  ASSUME IInv, NEW r \in Trabajadores, Finalizar(r)
  PROVE  /\ canal' \in Redes /\ Empezado /\ canal[r][PES] = <<>> /\ Hay(PES, r, "FINALIZACION")
         /\ \E y \in {<<>>, <<Fin>>} :
               /\ canal[PES][r] = <<Fin>> \o y /\ (r \notin PGs => y = <<>>)
               /\ \A e, f \in Rangos : canal'[e][f] = IF e = PES /\ f = r THEN y
                                                      ELSE IF e = r /\ f = PES THEN <<Ultimo>>
                                                      ELSE canal[e][f]
  <1>1. TypeOK /\ InvCanales /\ canal \in Redes
    BY EnRedes DEF IInv
  <1>2. fase[r] = "bucle" /\ Espera(PES, r, "FINALIZACION")
    BY DEF Finalizar
  <1>3. Empezado /\ canal[r][PES] = <<>> /\ Hay(PES, r, "FINALIZACION")
    BY <1>1, <1>2, HayFINALIZACION
  <1>4. PICK y \in {<<>>, <<Fin>>} :
               /\ canal[PES][r] = <<Fin>> \o y /\ (r \notin PGs => y = <<>>)
               /\ TrasRecv(PES, r, "FINALIZACION") = Con(canal, PES, r, y)
    BY <1>1, <1>2, HayFINALIZACION
  <1>5. PES \in Rangos /\ r \in Rangos /\ r # PES
    BY Roles
  <1>6. y \in Seq(Mensajes) /\ Ultimo \in Mensajes
    BY Cartas, EncargosTipo DEF Encargos
  <1> DEFINE c == Con(canal, PES, r, y)
  <1>7. c \in Redes /\ \A e, f \in Rangos : c[e][f] = IF e = PES /\ f = r THEN y ELSE canal[e][f]
    BY <1>1, <1>5, <1>6, Pone
  <1>8. canal' = Send(c, r, PES, Ultimo)
    BY <1>4 DEF Finalizar, Ultimo
  <1> HIDE DEF c
  <1>9. /\ Send(c, r, PES, Ultimo) \in Redes
        /\ \A e, f \in Rangos : Send(c, r, PES, Ultimo)[e][f]
                = IF e = r /\ f = PES THEN Append(c[r][PES], Ultimo) ELSE c[e][f]
    BY <1>5, <1>6, <1>7, Envia
  <1>10. Append(c[r][PES], Ultimo) = <<Ultimo>>
    BY <1>3, <1>5, <1>7, Unas
  <1>11. /\ canal' \in Redes
         /\ \A e, f \in Rangos : canal'[e][f] = IF e = PES /\ f = r THEN y
                                                ELSE IF e = r /\ f = PES THEN <<Ultimo>> ELSE canal[e][f]
    BY <1>5, <1>7, <1>8, <1>9, <1>10
  <1> QED BY <1>3, <1>4, <1>11

LEMMA OrdenesFinalizar ==
  ASSUME IInv, NEW r \in Trabajadores, Finalizar(r)
  PROVE  Ordenes' /\ Quietos
  <1>1. PICK y \in {<<>>, <<Fin>>} :
               /\ canal[PES][r] = <<Fin>> \o y /\ (r \notin PGs => y = <<>>)
               /\ \A e, f \in Rangos : canal'[e][f] = IF e = PES /\ f = r THEN y
                                                      ELSE IF e = r /\ f = PES THEN <<Ultimo>>
                                                      ELSE canal[e][f]
    BY EfectoFinalizar
  <1>2. Empezado /\ canal[r][PES] = <<>> /\ Hay(PES, r, "FINALIZACION")
    BY EfectoFinalizar
  <1>3. PES \in Rangos /\ r \in Rangos /\ r # PES
    BY Roles
  <1>4. fase[r] = "bucle" /\ fase' = [fase EXCEPT ![r] = "fin"] /\ fase \in [Rangos -> Fases]
        /\ UNCHANGED <<pes, pg>>
    BY DEF Finalizar, IInv, TypeOK
  <1>5. Ajenos(r) /\ MudosIgual /\ fase'[PES] = fase[PES]
    <2>1. MudosIgual
      BY <1>1, <1>3 DEF MudosIgual, Mudo
    <2>2. Ajenos(r)
      BY <1>1, <1>3, <1>4, Roles DEF Ajenos, pg
    <2> QED BY <1>3, <1>4, <2>1, <2>2
  <1>6. canal'[PES][r] = y /\ canal'[r][PES] = <<Ultimo>> /\ fase'[r] = "fin"
    BY <1>1, <1>3, <1>4
  <1>7. r \in PGs => CanalesPG(r)'
    BY <1>6 DEF CanalesPG
  <1>8. r \notin PGs => CanalesOtro(r)'
    BY <1>1, <1>6 DEF CanalesOtro
  <1>9. ASSUME NEW j \in Indices PROVE ~Lleva(r, j) /\ ~Lleva(r, j)'
    <2> DEFINE n == Msj("NOTIFICAR", j)
    <2>1. Fin \in Mensajes /\ Fin # n /\ Ultimo.tag = "FINAL"
      BY Cartas, MsjIguales DEF Fin
    <2>2. y \in Seq(Mensajes) /\ ~Contiene(y, n)
      <3> HIDE DEF n
      <3>1. ~Contiene(<<>>, n) /\ (Contiene(<<Fin>>, n) <=> Fin = n)
        BY ContieneCortas
      <3>2. y \in Seq(Mensajes)
        BY EncargosTipo DEF Encargos
      <3> QED BY <2>1, <3>1, <3>2
    <2>3. ~Contiene(canal[PES][r], n)
      <3> HIDE DEF n
      <3>1. Contiene(<<Fin>> \o y, n) <=> Fin = n \/ Contiene(y, n)
        BY <2>1, <2>2, ContieneEncabeza
      <3> QED BY <1>1, <2>1, <2>2, <3>1
    <2>4. ~Lleva(r, j)
      BY <1>2, <1>4, <2>3 DEF Lleva, Contiene
    <2>5. ~Lleva(r, j)'
      <3>1. ~\E i \in DOMAIN canal'[r][PES] : canal'[r][PES][i].tag = "ESTADISTICAS"
        BY <1>6, <2>1, Unas
      <3> QED BY <1>6, <2>2, <3>1 DEF Lleva, Contiene
    <2> QED BY <2>4, <2>5
  <1>10. Cerrado /\ Avisado(r)'
    BY <1>2, <1>6 DEF Cerrado, Avisado
  <1>11. (fase'[r] # "fin" \/ canal'[r][PES] # <<>>) <=> (fase[r] # "fin" \/ canal[r][PES] # <<>>)
    BY <1>4, <1>6, Unas
  <1> QED BY <1>2, <1>4, <1>5, <1>7, <1>8, <1>9, <1>10, <1>11, PasoDeUno DEF IInv, Ordenes

LEMMA EfectoInfoPAs ==
  ASSUME IInv, NEW p \in PGs, PGInfoPAs(p)
  PROVE  /\ canal' \in Redes /\ Empezado /\ canal[p][PES] = <<>>
         /\ \E x \in Encargos :
               /\ canal[PES][p] = <<Msj("INFOPAS", PACount)>> \o x
               /\ \A e, f \in Rangos : canal'[e][f] = IF e = PES /\ f = p THEN x ELSE canal[e][f]
  <1>1. TypeOK /\ InvCanales /\ canal \in Redes
    BY EnRedes DEF IInv
  <1>2. fase[p] = "infopas" /\ Espera(PES, p, "INFOPAS")
    BY DEF PGInfoPAs
  <1>3. Empezado /\ canal[p][PES] = <<>>
    BY <1>1, <1>2, HayINFOPAS
  <1>4. PICK x \in Encargos :
               /\ canal[PES][p] = <<Msj("INFOPAS", PACount)>> \o x
               /\ TrasRecv(PES, p, "INFOPAS") = Con(canal, PES, p, x)
    BY <1>1, <1>2, HayINFOPAS
  <1>5. PES \in Rangos /\ p \in Rangos /\ x \in Seq(Mensajes)
    BY Roles, EncargosTipo
  <1>6. canal' = Con(canal, PES, p, x)
    BY <1>4 DEF PGInfoPAs
  <1>7. /\ Con(canal, PES, p, x) \in Redes
        /\ \A e, f \in Rangos : Con(canal, PES, p, x)[e][f] = IF e = PES /\ f = p THEN x ELSE canal[e][f]
    BY <1>1, <1>5, Pone
  <1> QED BY <1>3, <1>4, <1>6, <1>7

LEMMA OrdenesInfoPAs ==
  ASSUME IInv, NEW p \in PGs, PGInfoPAs(p)
  PROVE  Ordenes' /\ Quietos
  <1>1. PICK x \in Encargos :
               /\ canal[PES][p] = <<Msj("INFOPAS", PACount)>> \o x
               /\ \A e, f \in Rangos : canal'[e][f] = IF e = PES /\ f = p THEN x ELSE canal[e][f]
    BY EfectoInfoPAs
  <1>2. Empezado /\ canal[p][PES] = <<>>
    BY EfectoInfoPAs
  <1>3. PES \in Rangos /\ p \in Rangos /\ p # PES /\ p \in Trabajadores /\ x \in Seq(Mensajes)
    BY Roles, EncargosTipo
  <1>4. fase[p] = "infopas" /\ fase' = [fase EXCEPT ![p] = "bucle"] /\ fase \in [Rangos -> Fases]
        /\ UNCHANGED <<pes, pg>>
    BY DEF PGInfoPAs, IInv, TypeOK
  <1>5. Ajenos(p) /\ MudosIgual /\ fase'[PES] = fase[PES]
    <2>1. MudosIgual
      BY <1>1, <1>3 DEF MudosIgual, Mudo
    <2>2. Ajenos(p)
      BY <1>1, <1>3, <1>4, Roles DEF Ajenos, pg
    <2> QED BY <1>3, <1>4, <2>1, <2>2
  <1>6. canal'[PES][p] = x /\ canal'[p][PES] = <<>> /\ fase'[p] = "bucle"
    BY <1>1, <1>2, <1>3, <1>4
  <1>7. CanalesPG(p)'
    <2>1. Previos(p)' = <<>>
      BY <1>6 DEF Previos
    <2>2. x = <<>> \o x
      BY <1>3, ConcatEmptySeq
    <2> QED BY <1>6, <2>1, <2>2 DEF CanalesPG
  <1> DEFINE m == Msj("INFOPAS", PACount)
  <1>8. m \in Mensajes /\ m.tag = "INFOPAS" /\ \A j : m # Msj("NOTIFICAR", j)
    BY Iniciales, MsjIguales
  <1>9. ASSUME NEW j \in Indices PROVE Lleva(p, j)' <=> Lleva(p, j)
    <2> DEFINE n == Msj("NOTIFICAR", j)
    <2>1. m # n
      BY <1>8
    <2> HIDE DEF m, n
    <2>2. Contiene(<<m>> \o x, n) <=> m = n \/ Contiene(x, n)
      BY <1>3, <1>8, ContieneEncabeza
    <2>3. Contiene(canal[PES][p], n) <=> Contiene(x, n)
      BY <1>1, <2>1, <2>2 DEF m
    <2> QED BY <1>2, <1>4, <1>6, <2>3 DEF Lleva, Contiene, n
  <1>10. (Avisado(p)' => Cerrado) /\ (Avisado(p) => Avisado(p)')
    <2> DEFINE t == "FINALIZACION"
    <2>1. m.tag # t
      BY <1>8
    <2> HIDE DEF m, t
    <2>2. Tiene(<<m>> \o x, t) <=> m.tag = t \/ Tiene(x, t)
      BY <1>3, <1>8, ContieneEncabeza
    <2>3. Tiene(x, t) <=> Tiene(canal[PES][p], t)
      BY <1>1, <2>1, <2>2 DEF m
    <2> QED BY <1>3, <1>4, <1>6, <2>3 DEF Avisado, Cerrado, Hay, Tiene, t
  <1>11. (fase'[p] # "fin" \/ canal'[p][PES] # <<>>) <=> (fase[p] # "fin" \/ canal[p][PES] # <<>>)
    BY <1>4, <1>6
  <1> QED BY <1>2, <1>3, <1>4, <1>5, <1>7, <1>9, <1>10, <1>11, PasoDeUno DEF IInv, Ordenes
LEMMA EfectoNotificar ==
  ASSUME IInv, NEW p \in PGs, PGNotificar(p)
  PROVE  /\ canal' \in Redes /\ Empezado /\ canal[p][PES] = <<>>
         /\ Turno(k[p]) \in 0..(PACount - 1)
         /\ \E j \in Indices, a \in PAs :
               /\ canal[PES][p] = <<Msj("NOTIFICAR", j)>> /\ a = idPAs(Turno(k[p]))
               /\ numAAdivinar' = [numAAdivinar EXCEPT ![p] = j]
               /\ \A e, f \in Rangos : canal'[e][f] = IF e = PES /\ f = p THEN <<>>
                                                      ELSE IF e = p /\ f = a
                                                           THEN Append(canal[p][a], Solicitud(1))
                                                      ELSE canal[e][f]
  <1>1. TypeOK /\ InvCanales /\ canal \in Redes
    BY EnRedes DEF IInv
  <1>2. fase[p] = "bucle" /\ Espera(PES, p, "NOTIFICAR")
    BY DEF PGNotificar
  <1>3. Empezado /\ canal[p][PES] = <<>>
    BY <1>1, <1>2, HayNOTIFICAR
  <1>4. PICK j \in Indices :
               /\ canal[PES][p] = <<Msj("NOTIFICAR", j)>>
               /\ TrasRecv(PES, p, "NOTIFICAR") = Con(canal, PES, p, <<>>)
               /\ Recibido(PES, p, "NOTIFICAR").dato = j
    BY <1>1, <1>2, HayNOTIFICAR
  <1>5. Turno(k[p]) \in 0..(PACount - 1)
    BY <1>1, TurnoTipo DEF TypeOK
  <1> DEFINE a == idPAs(Turno(k[p]))
  <1>6. a \in PAs
    BY <1>5, AnillosPA
  <1> HIDE DEF a
  <1>7. PES \in Rangos /\ p \in Rangos /\ a \in Rangos /\ a # PES /\ p # PES
    BY <1>6, Roles
  <1>8. Solicitud(1) \in Mensajes
    BY Cartas
  <1>9. canal' = Send(Con(canal, PES, p, <<>>), p, a, Solicitud(1))
        /\ numAAdivinar' = [numAAdivinar EXCEPT ![p] = j]
    BY <1>4 DEF PGNotificar, Solicitud, a
  <1> DEFINE m == Solicitud(1)
             v == <<>>
  <1>10. v \in Seq(Mensajes) /\ m \in Mensajes
    BY <1>8, VaciaTipo
  <1> HIDE DEF m, v
  <1>11. /\ Send(Con(canal, PES, p, v), p, a, m) \in Redes
         /\ \A e, f \in Rangos : Send(Con(canal, PES, p, v), p, a, m)[e][f]
                = IF e = PES /\ f = p THEN v
                  ELSE IF e = p /\ f = a THEN Append(canal[p][a], m) ELSE canal[e][f]
    BY <1>1, <1>7, <1>10, RecibeEnvia
  <1>12. /\ canal' \in Redes
         /\ \A e, f \in Rangos : canal'[e][f] = IF e = PES /\ f = p THEN <<>>
                                                ELSE IF e = p /\ f = a
                                                     THEN Append(canal[p][a], Solicitud(1))
                                                ELSE canal[e][f]
    BY <1>9, <1>11 DEF m, v
  <1> QED BY <1>3, <1>4, <1>5, <1>6, <1>9, <1>12 DEF a

LEMMA OrdenesNotificar ==
  ASSUME IInv, NEW p \in PGs, PGNotificar(p)
  PROVE  Ordenes' /\ Quietos
  <1>1. PICK j \in Indices, a \in PAs :
               /\ canal[PES][p] = <<Msj("NOTIFICAR", j)>> /\ a = idPAs(Turno(k[p]))
               /\ numAAdivinar' = [numAAdivinar EXCEPT ![p] = j]
               /\ \A e, f \in Rangos : canal'[e][f] = IF e = PES /\ f = p THEN <<>>
                                                      ELSE IF e = p /\ f = a
                                                           THEN Append(canal[p][a], Solicitud(1))
                                                      ELSE canal[e][f]
    BY EfectoNotificar
  <1>2. Empezado /\ canal[p][PES] = <<>>
    BY EfectoNotificar
  <1>3. PES \in Rangos /\ p \in Rangos /\ p # PES /\ p \in Trabajadores /\ a \in Rangos /\ a # PES
    BY Roles
  <1>4. fase[p] = "bucle" /\ fase' = [fase EXCEPT ![p] = "conecta"] /\ fase \in [Rangos -> Fases]
        /\ UNCHANGED pes
    BY DEF PGNotificar, IInv, TypeOK
  <1>5. numAAdivinar \in [PGs -> 0..TOTALNUM]
    BY DEF IInv, TypeOK
  <1>6. Ajenos(p) /\ MudosIgual /\ fase'[PES] = fase[PES]
    <2>1. MudosIgual
      BY <1>1, <1>3 DEF MudosIgual, Mudo
    <2>2. Ajenos(p)
      BY <1>1, <1>3, <1>4, <1>5, Roles DEF Ajenos
    <2> QED BY <1>3, <1>4, <2>1, <2>2
  <1>7. canal'[PES][p] = <<>> /\ canal'[p][PES] = <<>> /\ fase'[p] = "conecta" /\ numAAdivinar'[p] = j
    BY <1>1, <1>2, <1>3, <1>4, <1>5
  <1>8. CanalesPG(p)'
    BY <1>7 DEF CanalesPG
  <1>9. ASSUME NEW l \in Indices PROVE Lleva(p, l)' <=> Lleva(p, l)
    <2>1. Contiene(<<Msj("NOTIFICAR", j)>>, Msj("NOTIFICAR", l)) <=> j = l
      <3> DEFINE m == Msj("NOTIFICAR", j)
                 n == Msj("NOTIFICAR", l)
      <3>1. m = n <=> j = l
        BY MsjIguales
      <3> HIDE DEF m, n
      <3>2. Contiene(<<m>>, n) <=> m = n
        BY ContieneCortas
      <3> QED BY <3>1, <3>2 DEF m, n
    <2>2. ~\E i \in DOMAIN <<>> : <<>>[i].tag = "ESTADISTICAS"
      BY Unas
    <2>3. ~Contiene(<<>>, Msj("NOTIFICAR", l))
      BY ContieneCortas
    <2>4. Lleva(p, l) <=> j = l
      BY <1>1, <1>2, <1>4, <2>1, <2>2 DEF Lleva, Contiene
    <2>5. Lleva(p, l)' <=> j = l
      BY <1>7, <2>2, <2>3 DEF Lleva, Contiene
    <2> QED BY <2>4, <2>5
  <1>10. ~Avisado(p)' /\ ~Avisado(p)
    <2> DEFINE m == Msj("NOTIFICAR", j)
               t == "FINALIZACION"
    <2>1. m.tag # t
      BY DEF Msj
    <2> HIDE DEF m, t
    <2>2. ~Tiene(<<>>, t) /\ (Tiene(<<m>>, t) <=> m.tag = t)
      BY ContieneCortas
    <2>3. canal[PES][p] = <<m>>
      BY <1>1 DEF m
    <2> QED BY <1>4, <1>7, <2>1, <2>2, <2>3 DEF Avisado, Hay, Tiene, t
  <1>11. (fase'[p] # "fin" \/ canal'[p][PES] # <<>>) <=> (fase[p] # "fin" \/ canal[p][PES] # <<>>)
    BY <1>4, <1>7
  <1> QED BY <1>2, <1>3, <1>4, <1>6, <1>8, <1>9, <1>10, <1>11, PasoDeUno DEF IInv, Ordenes

\* A step inside a session touches nothing of PES.
LEMMA OrdenesSesion ==
  ASSUME IInv, Empezado, \A q \in Trabajadores : canal'[PES][q] = canal[PES][q] /\ canal'[q][PES] = canal[q][PES],
         MudosIgual, UNCHANGED <<pes, numAAdivinar>>, NEW r \in Trabajadores,
         fase' = fase \/ (r \in PGs /\ fase[r] = "conecta" /\ fase' = [fase EXCEPT ![r] = "adivina"])
  PROVE  Ordenes' /\ Quietos
  <1>1. fase \in [Rangos -> Fases] /\ r \in Rangos /\ r # PES
    BY Roles DEF IInv, TypeOK
  <1>2. /\ \A q \in Rangos \ {r} : fase'[q] = fase[q]
        /\ fase'[r] = fase[r] \/ (r \in PGs /\ fase[r] = "conecta" /\ fase'[r] = "adivina")
    BY <1>1
  <1>3. Ajenos(r) /\ fase'[PES] = fase[PES]
    BY <1>1, <1>2, Roles DEF Ajenos
  <1>4. canal'[PES][r] = canal[PES][r] /\ canal'[r][PES] = canal[r][PES]
    OBVIOUS
  <1>5. r \in PGs => CanalesPG(r)' /\ \A j \in Indices : Lleva(r, j)' <=> Lleva(r, j)
    <2> SUFFICES ASSUME r \in PGs PROVE CanalesPG(r)' /\ \A j \in Indices : Lleva(r, j)' <=> Lleva(r, j)
      OBVIOUS
    <2>1. CanalesPG(r)
      BY DEF IInv, InvCanales
    <2>2. CASE fase'[r] = fase[r]
      <3>1. Previos(r)' = Previos(r)
        BY <2>2 DEF Previos
      <3>2. CanalesPG(r)'
        BY <1>4, <2>1, <2>2, <3>1 DEF CanalesPG, Informe
      <3> QED BY <1>4, <2>2, <3>2 DEF Lleva
    <2>3. CASE fase[r] = "conecta" /\ fase'[r] = "adivina"
      <3>1. CanalesPG(r)'
        BY <1>4, <2>1, <2>3 DEF CanalesPG
      <3> QED BY <1>4, <2>3, <3>1 DEF Lleva
    <2> QED BY <1>2, <2>2, <2>3
  <1>6. r \notin PGs => CanalesOtro(r)'
    <2> SUFFICES ASSUME r \notin PGs PROVE CanalesOtro(r)'
      OBVIOUS
    <2>1. CanalesOtro(r) /\ fase'[r] = fase[r]
      BY <1>2, Roles DEF IInv, InvCanales
    <2>2. Previos(r)' = Previos(r)
      BY <2>1 DEF Previos
    <2> QED BY <1>4, <2>1, <2>2 DEF CanalesOtro
  <1>7. (Avisado(r)' => Cerrado) /\ (Avisado(r) => Avisado(r)')
    BY <1>2, <1>4 DEF Avisado, Cerrado, Hay
  <1>8. (fase'[r] # "fin" \/ canal'[r][PES] # <<>>) <=> (fase[r] # "fin" \/ canal[r][PES] # <<>>)
    BY <1>2, <1>4
  <1> QED BY <1>3, <1>5, <1>6, <1>7, <1>8, PasoDeUno DEF IInv, Ordenes
-----------------------------------------------------------------------------
(* Managers and guessers, two by two *)

Par(p, a) == IF Propia(p, a) THEN ConSesion(p, a) ELSE SinSesion(p, a)

\* Neither of the two takes part in the step.
LEMMA ParIgual ==
  ASSUME NEW p \in PGs, NEW a \in PAs, Par(p, a),
         canal'[p][a] = canal[p][a], canal'[a][p] = canal[a][p],
         Conecta(p, a)' <=> Conecta(p, a), EnSesion(p, a)' <=> EnSesion(p, a),
         estatusPA'[a] = estatusPA[a], origenPG'[a] = origenPG[a],
         numMin'[a] = numMin[a], numMax'[a] = numMax[a], numMedio'[a] = numMedio[a],
         numAAdivinar'[p] = numAAdivinar[p], contador'[p] = contador[p], arrayNumeros' = arrayNumeros
  PROVE  Par(p, a)'
  <1>1. Propia(p, a)' <=> Propia(p, a)
    BY DEF Propia
  <1>2. Busca(p, a)' <=> Busca(p, a)
    BY DEF Busca
  <1>3. SinSesion(p, a) => SinSesion(p, a)'
    BY DEF SinSesion
  <1>4. ConSesion(p, a) => ConSesion(p, a)'
    BY <1>2 DEF ConSesion
  <1> QED BY <1>1, <1>3, <1>4 DEF Par

\* p has nothing to do with a, before or after.
LEMMA ParAjeno ==
  ASSUME NEW p \in PGs, NEW a \in PAs, Par(p, a),
         canal'[p][a] = canal[p][a], canal'[a][p] = canal[a][p],
         ~Conecta(p, a), ~EnSesion(p, a), ~Conecta(p, a)', ~EnSesion(p, a)',
         Propia(p, a)' <=> Propia(p, a)
  PROVE  Par(p, a)'
  <1>1. SinSesion(p, a) => SinSesion(p, a)'
    BY DEF SinSesion
  <1>2. ConSesion(p, a) => ConSesion(p, a)'
    BY DEF ConSesion
  <1> QED BY <1>1, <1>2 DEF Par

\* p asks a for a session.
LEMMA ParSolicita ==
  ASSUME NEW p \in PGs, NEW a \in PAs, Par(p, a),
         canal'[p][a] = Append(canal[p][a], Solicitud(1)), canal'[a][p] = canal[a][p],
         ~Conecta(p, a), ~EnSesion(p, a), Conecta(p, a)',
         Propia(p, a)' <=> Propia(p, a)
  PROVE  Par(p, a)'
  <1>1. SinSesion(p, a) => SinSesion(p, a)'
    <2> SUFFICES ASSUME SinSesion(p, a) PROVE SinSesion(p, a)'
      OBVIOUS
    <2>1. canal[p][a] = <<>> /\ canal[a][p] = <<>>
      BY DEF SinSesion
    <2>2. Append(<<>>, Solicitud(1)) = <<Solicitud(1)>>
      BY Unas
    <2>3. canal'[p][a] = <<Solicitud(1)>> /\ canal'[a][p] = <<>>
      BY <2>1, <2>2
    <2>4. Solicitud(1)' = Solicitud(1)
      BY DEF Solicitud, Msj
    <2> QED BY <2>3, <2>4 DEF SinSesion
  <1>2. ConSesion(p, a) => ConSesion(p, a)'
    <2> SUFFICES ASSUME ConSesion(p, a) PROVE ConSesion(p, a)'
      OBVIOUS
    <2>1. canal[p][a] = <<Propuesta(IGUAL)>> /\ canal[a][p] = <<>>
      BY DEF ConSesion
    <2>2. Append(<<Propuesta(IGUAL)>>, Solicitud(1)) = <<Propuesta(IGUAL), Solicitud(1)>>
      BY Dobles
    <2>3. canal'[p][a] = <<Propuesta(IGUAL), Solicitud(1)>> /\ canal'[a][p] = <<>>
      BY <2>1, <2>2
    <2> QED BY <2>3 DEF ConSesion
  <1> QED BY <1>1, <1>2 DEF Par

LEMMA ParDe == InvSesiones => \A p \in PGs, a \in PAs : Par(p, a)
  BY DEF InvSesiones, Par

\* A step outside the sessions.
LEMMA SesionesIgual ==
  ASSUME InvSesiones, UNCHANGED <<pg, pa, arrayNumeros>>,
         \A p \in PGs : fase'[p] = fase[p] \/ {fase[p], fase'[p]} \cap {"conecta", "adivina"} = {},
         \A p \in PGs, a \in PAs : canal'[p][a] = canal[p][a] /\ canal'[a][p] = canal[a][p]
  PROVE  InvSesiones'
  <1>1. ASSUME NEW p \in PGs, NEW a \in PAs PROVE Par(p, a)'
    <2>1. Conecta(p, a)' <=> Conecta(p, a)
      BY DEF Conecta, pg
    <2>2. EnSesion(p, a)' <=> EnSesion(p, a)
      BY DEF EnSesion, pg
    <2>3. Par(p, a) /\ canal'[p][a] = canal[p][a] /\ canal'[a][p] = canal[a][p]
      BY ParDe
    <2>4. /\ estatusPA' = estatusPA /\ origenPG' = origenPG /\ numMin' = numMin /\ numMax' = numMax
          /\ numMedio' = numMedio /\ numAAdivinar' = numAAdivinar /\ contador' = contador
          /\ arrayNumeros' = arrayNumeros
      BY DEF pg, pa
    <2> QED BY <2>1, <2>2, <2>3, <2>4, ParIgual
  <1>2. \A p \in PGs : fase'[p] = "conecta" => k'[p] < PACount /\ contador'[p] = 0
    BY DEF InvSesiones, pg
  <1>3. \A a \in PAs : estatusPA'[a] = "OCUPADO" => origenPG'[a] \in PGs
    BY DEF InvSesiones, pa
  <1> QED BY <1>1, <1>2, <1>3 DEF InvSesiones, Par

LEMMA SesionesFuera ==
  ASSUME IInv, NEW r \in Trabajadores, Identificar(r) \/ Finalizar(r) \/ (r \in PGs /\ PGInfoPAs(r))
  PROVE  InvSesiones'
  <1>1. \A p \in PGs, a \in PAs : canal'[p][a] = canal[p][a] /\ canal'[a][p] = canal[a][p]
    <2>1. \A p \in PGs, a \in PAs : p \in Rangos /\ a \in Rangos /\ p # PES /\ a # PES
      BY Roles
    <2>2. CASE Identificar(r)
      <3>1. TypeOK /\ InvCanales /\ fase[r] = "id" /\ Espera(PES, r, "ID") /\ canal \in Redes
        BY <2>2, EnRedes DEF IInv, Identificar
      <3>2. PICK y \in Seq(Mensajes) : TrasRecv(PES, r, "ID") = Con(canal, PES, r, y)
        BY <3>1, HayID
      <3>3. canal' = Con(canal, PES, r, y) /\ PES \in Rangos /\ r \in Rangos
        BY <2>2, <3>2, Roles DEF Identificar
      <3>4. canal \in Redes /\ PES \in Rangos /\ r \in Rangos
        BY <3>1, <3>3
      <3>5. /\ Con(canal, PES, r, y) \in Redes
            /\ \A e, f \in Rangos : Con(canal, PES, r, y)[e][f] = IF e = PES /\ f = r THEN y ELSE canal[e][f]
        BY <3>4, Pone
      <3> QED BY <2>1, <3>3, <3>5
    <2>3. CASE Finalizar(r)
      <3>1. \E y : \A e, f \in Rangos : canal'[e][f] = IF e = PES /\ f = r THEN y
                                                      ELSE IF e = r /\ f = PES THEN <<Ultimo>>
                                                      ELSE canal[e][f]
        <4>1. PICK y \in {<<>>, <<Fin>>} :
                /\ canal[PES][r] = <<Fin>> \o y /\ (r \notin PGs => y = <<>>)
                /\ \A e, f \in Rangos : canal'[e][f] = IF e = PES /\ f = r THEN y
                                                       ELSE IF e = r /\ f = PES THEN <<Ultimo>>
                                                       ELSE canal[e][f]
          BY <2>3, EfectoFinalizar
        <4> QED BY <4>1
      <3>2. PICK y : \A e, f \in Rangos : canal'[e][f] = IF e = PES /\ f = r THEN y
                                                      ELSE IF e = r /\ f = PES THEN <<Ultimo>>
                                                      ELSE canal[e][f]
        BY <3>1
      <3> QED BY <2>1, <3>2
    <2>4. CASE r \in PGs /\ PGInfoPAs(r)
      <3>1. PICK x \in Encargos :
               /\ canal[PES][r] = <<Msj("INFOPAS", PACount)>> \o x
               /\ \A e, f \in Rangos : canal'[e][f] = IF e = PES /\ f = r THEN x ELSE canal[e][f]
        BY <2>4, EfectoInfoPAs
      <3> QED BY <2>1, <3>1
    <2> QED BY <2>2, <2>3, <2>4
  <1>2. \A p \in PGs : fase'[p] = fase[p] \/ {fase[p], fase'[p]} \cap {"conecta", "adivina"} = {}
    <2> SUFFICES ASSUME NEW p \in PGs
                 PROVE fase'[p] = fase[p] \/ {fase[p], fase'[p]} \cap {"conecta", "adivina"} = {}
      OBVIOUS
    <2>1. fase \in [Rangos -> Fases] /\ r \in Rangos /\ p \in Rangos
      BY Roles DEF IInv, TypeOK
    <2>2. CASE p = r
      <3>1. CASE Identificar(r)
        BY <2>1, <2>2, <3>1 DEF Identificar
      <3>2. CASE Finalizar(r)
        BY <2>1, <2>2, <3>2 DEF Finalizar
      <3>3. CASE PGInfoPAs(r)
        BY <2>1, <2>2, <3>3 DEF PGInfoPAs
      <3> QED BY <3>1, <3>2, <3>3
    <2>3. CASE p # r
      BY <2>1, <2>3 DEF Identificar, Finalizar, PGInfoPAs
    <2> QED BY <2>2, <2>3
  <1>3. UNCHANGED <<pg, pa, arrayNumeros>>
    BY DEF Identificar, Finalizar, PGInfoPAs, pes
  <1> QED BY <1>1, <1>2, <1>3, SesionesIgual DEF IInv
\* The rings of the managers: who p asks, told apart by k.
LEMMA AnillosDistintos == \A m, n \in Nat : idPAs(m) = idPAs(n) => m = n
  BY DEF idPAs

\* A step of manager p that only touches its channels with the guessers in S and PES.
LEMMA SesionesDeOtros ==
  ASSUME InvSesiones, NEW p \in PGs,
         \A q \in PGs \ {p}, a \in PAs : canal'[q][a] = canal[q][a] /\ canal'[a][q] = canal[a][q],
         \A q \in PGs \ {p} : /\ fase'[q] = fase[q] /\ k'[q] = k[q] /\ idPA'[q] = idPA[q]
                              /\ numAAdivinar'[q] = numAAdivinar[q] /\ contador'[q] = contador[q],
         \A a \in PAs : Par(p, a)',
         fase'[p] = "conecta" => k'[p] < PACount /\ contador'[p] = 0,
         UNCHANGED <<pa, arrayNumeros>>
  PROVE  InvSesiones'
  <1>1. ASSUME NEW q \in PGs, NEW a \in PAs PROVE Par(q, a)'
    <2>1. CASE q = p
      BY <2>1
    <2>2. CASE q # p
      <3>1. Conecta(q, a)' <=> Conecta(q, a)
        BY <2>2 DEF Conecta
      <3>2. EnSesion(q, a)' <=> EnSesion(q, a)
        BY <2>2 DEF EnSesion
      <3>3. Par(q, a) /\ canal'[q][a] = canal[q][a] /\ canal'[a][q] = canal[a][q]
        BY <2>2, ParDe
      <3>4. /\ estatusPA' = estatusPA /\ origenPG' = origenPG /\ numMin' = numMin /\ numMax' = numMax
            /\ numMedio' = numMedio /\ arrayNumeros' = arrayNumeros
            /\ numAAdivinar'[q] = numAAdivinar[q] /\ contador'[q] = contador[q]
        BY <2>2 DEF pa
      <3> QED BY <3>1, <3>2, <3>3, <3>4, ParIgual
    <2> QED BY <2>1, <2>2
  <1>2. ASSUME NEW q \in PGs, fase'[q] = "conecta" PROVE k'[q] < PACount /\ contador'[q] = 0
    BY <1>2 DEF InvSesiones
  <1>3. \A a \in PAs : estatusPA'[a] = "OCUPADO" => origenPG'[a] \in PGs
    BY DEF InvSesiones, pa
  <1> QED BY <1>1, <1>2, <1>3 DEF InvSesiones, Par

LEMMA SesionesNotificar ==
  ASSUME IInv, NEW p \in PGs, PGNotificar(p)
  PROVE  InvSesiones'
  <1>1. PICK j \in Indices, b \in PAs :
               /\ canal[PES][p] = <<Msj("NOTIFICAR", j)>> /\ b = idPAs(Turno(k[p]))
               /\ numAAdivinar' = [numAAdivinar EXCEPT ![p] = j]
               /\ \A e, f \in Rangos : canal'[e][f] = IF e = PES /\ f = p THEN <<>>
                                                      ELSE IF e = p /\ f = b
                                                           THEN Append(canal[p][b], Solicitud(1))
                                                      ELSE canal[e][f]
    BY EfectoNotificar
  <1>2. Turno(k[p]) \in 0..(PACount - 1) /\ canal' \in Redes
    BY EfectoNotificar
  <1>3. /\ \A q \in PGs : q \in Rangos /\ q # PES
        /\ \A a \in PAs : a \in Rangos /\ a # PES /\ a \notin PGs
    BY Roles
  <1>4. /\ fase[p] = "bucle" /\ fase' = [fase EXCEPT ![p] = "conecta"] /\ fase \in [Rangos -> Fases]
        /\ k' = [k EXCEPT ![p] = Turno(k[p])] /\ k \in [PGs -> 0..PACount]
        /\ contador' = [contador EXCEPT ![p] = 0] /\ contador \in [PGs -> Nat]
        /\ numAAdivinar \in [PGs -> 0..TOTALNUM]
        /\ UNCHANGED <<pes, pa, idPA>>
    BY DEF PGNotificar, IInv, TypeOK
  <1>5. fase'[p] = "conecta" /\ k'[p] = Turno(k[p]) /\ contador'[p] = 0
    BY <1>3, <1>4
  <1>6. \A q \in PGs \ {p}, a \in PAs : canal'[q][a] = canal[q][a] /\ canal'[a][q] = canal[a][q]
    BY <1>1, <1>3
  <1>7. \A q \in PGs \ {p} : /\ fase'[q] = fase[q] /\ k'[q] = k[q] /\ idPA'[q] = idPA[q]
                             /\ numAAdivinar'[q] = numAAdivinar[q] /\ contador'[q] = contador[q]
    BY <1>1, <1>3, <1>4
  <1>8. ASSUME NEW a \in PAs PROVE Par(p, a)'
    <2>1. ~Conecta(p, a) /\ ~EnSesion(p, a) /\ ~EnSesion(p, a)'
      BY <1>4, <1>5 DEF Conecta, EnSesion
    <2>2. Par(p, a)
      BY ParDe DEF IInv
    <2>3. Propia(p, a)' <=> Propia(p, a)
      BY <1>4 DEF Propia, pa
    <2>4. canal'[a][p] = canal[a][p]
      BY <1>1, <1>3
    <2>5. CASE a = b
      <3>1. Conecta(p, a)'
        BY <1>1, <1>5, <2>5 DEF Conecta, idPAs
      <3>2. canal'[p][a] = Append(canal[p][a], Solicitud(1))
        BY <1>1, <1>3, <2>5
      <3> QED BY <2>1, <2>2, <2>3, <2>4, <3>1, <3>2, ParSolicita
    <2>6. CASE a # b
      <3>1. ~Conecta(p, a)'
        BY <1>1, <1>5, <2>6 DEF Conecta, idPAs
      <3>2. canal'[p][a] = canal[p][a]
        BY <1>1, <1>3, <2>6
      <3> QED BY <2>1, <2>2, <2>3, <2>4, <3>1, <3>2, ParAjeno
    <2> QED BY <2>5, <2>6
  <1>9. k'[p] < PACount
    BY <1>2, <1>5
  <1>10. InvSesiones /\ UNCHANGED <<pa, arrayNumeros>>
    BY <1>4 DEF IInv, pes
  <1> QED BY <1>5, <1>6, <1>7, <1>8, <1>9, <1>10, SesionesDeOtros

LEMMA EfectoConectado ==
  ASSUME IInv, NEW p \in PGs, PGConectado(p)
  PROVE  /\ canal' \in Redes /\ Empezado /\ k[p] \in 0..(PACount - 1)
         /\ \E a \in PAs :
               /\ a = idPAs(k[p]) /\ Propia(p, a) /\ Conecta(p, a) /\ canal[p][a] = <<>>
               /\ Busca(p, a) /\ contador[p] = 0 /\ numMin[a] = 0 /\ numMax[a] = NumMax
               /\ \A e, f \in Rangos : canal'[e][f] = IF e = a /\ f = p THEN <<Propuesta(numMedio[a])>>
                                                      ELSE canal[e][f]
  <1> DEFINE a == idPAs(k[p])
  <1>1. TypeOK /\ InvSesiones /\ InvCanales /\ canal \in Redes
    BY EnRedes DEF IInv
  <1>2. fase[p] = "conecta" /\ Espera(a, p, "SOLICITUD") /\ Recibido(a, p, "SOLICITUD").dato = 1
        /\ canal' = TrasRecv(a, p, "SOLICITUD")
    BY DEF PGConectado
  <1>3. a = idPAs(k[p])
    OBVIOUS
  <1> HIDE DEF a
  <1>4. /\ a \in PAs /\ k[p] \in 0..(PACount - 1) /\ Conecta(p, a) /\ canal[p][a] = <<>>
        /\ IF Propia(p, a)
            THEN /\ canal[a][p] = <<Solicitud(1), Propuesta(numMedio[a])>>
                 /\ Busca(p, a) /\ contador[p] = 0 /\ numMin[a] = 0 /\ numMax[a] = NumMax
                 /\ TrasRecv(a, p, "SOLICITUD") = Con(canal, a, p, <<Propuesta(numMedio[a])>>)
                 /\ Recibido(a, p, "SOLICITUD").dato = 1
            ELSE /\ canal[a][p] = <<Solicitud(0)>>
                 /\ TrasRecv(a, p, "SOLICITUD") = Con(canal, a, p, <<>>)
                 /\ Recibido(a, p, "SOLICITUD").dato = 0
    BY <1>1, <1>2, <1>3, HayContestacion
  <1>5. /\ Propia(p, a) /\ canal[a][p] = <<Solicitud(1), Propuesta(numMedio[a])>>
        /\ Busca(p, a) /\ contador[p] = 0 /\ numMin[a] = 0 /\ numMax[a] = NumMax
        /\ canal' = Con(canal, a, p, <<Propuesta(numMedio[a])>>)
    BY <1>2, <1>4
  <1>6. a \in Rangos /\ p \in Rangos /\ canal[a][p] # <<>>
    BY <1>4, <1>5, Roles, Dobles
  <1>7. Empezado
    BY <1>1, <1>6, YaEmpezado
  <1> DEFINE v == <<Propuesta(numMedio[a])>>
  <1>8. v \in Seq(Mensajes)
    <2>1. Propuesta(numMedio[a]) \in Mensajes
      BY <1>1, <1>4, Cartas, MediosNat
    <2> QED BY <2>1
  <1> HIDE DEF v
  <1>9. /\ Con(canal, a, p, v) \in Redes
        /\ \A e, f \in Rangos : Con(canal, a, p, v)[e][f] = IF e = a /\ f = p THEN v ELSE canal[e][f]
    BY <1>1, <1>6, <1>8, Pone
  <1> QED BY <1>3, <1>4, <1>5, <1>7, <1>9 DEF v

LEMMA OrdenesConectado ==
  ASSUME IInv, NEW p \in PGs, PGConectado(p)
  PROVE  Ordenes' /\ Quietos
  <1>1. PICK a \in PAs :
               /\ a = idPAs(k[p]) /\ Propia(p, a) /\ Conecta(p, a) /\ canal[p][a] = <<>>
               /\ Busca(p, a) /\ contador[p] = 0 /\ numMin[a] = 0 /\ numMax[a] = NumMax
               /\ \A e, f \in Rangos : canal'[e][f] = IF e = a /\ f = p THEN <<Propuesta(numMedio[a])>>
                                                      ELSE canal[e][f]
    BY EfectoConectado
  <1>2. Empezado
    BY EfectoConectado
  <1>3. PES \in Rangos /\ p \in PGs /\ a \in PAs /\ p # PES /\ a # PES /\ p \in Trabajadores
        /\ a \notin PGs /\ p \notin PAs
    BY Roles
  <1>4. \A q \in Trabajadores : canal'[PES][q] = canal[PES][q] /\ canal'[q][PES] = canal[q][PES]
    BY <1>1, <1>3, Roles
  <1>5. MudosIgual
    BY <1>1, <1>3 DEF MudosIgual, Mudo
  <1>6. /\ p \in PGs /\ fase[p] = "conecta" /\ fase' = [fase EXCEPT ![p] = "adivina"]
        /\ UNCHANGED <<pes, numAAdivinar>>
    BY DEF PGConectado
  <1> QED BY <1>2, <1>3, <1>4, <1>5, <1>6, OrdenesSesion

LEMMA SesionesConectado ==
  ASSUME IInv, NEW p \in PGs, PGConectado(p)
  PROVE  InvSesiones'
  <1>1. PICK b \in PAs :
               /\ b = idPAs(k[p]) /\ Propia(p, b) /\ Conecta(p, b) /\ canal[p][b] = <<>>
               /\ Busca(p, b) /\ contador[p] = 0 /\ numMin[b] = 0 /\ numMax[b] = NumMax
               /\ \A e, f \in Rangos : canal'[e][f] = IF e = b /\ f = p THEN <<Propuesta(numMedio[b])>>
                                                      ELSE canal[e][f]
    BY EfectoConectado
  <1>2. k[p] \in 0..(PACount - 1)
    BY EfectoConectado
  <1>3. /\ \A q \in PGs : q \in Rangos /\ q # PES
        /\ \A a \in PAs : a \in Rangos /\ a # PES /\ a \notin PGs
    BY Roles
  <1>4. /\ fase[p] = "conecta" /\ fase' = [fase EXCEPT ![p] = "adivina"] /\ fase \in [Rangos -> Fases]
        /\ k' = [k EXCEPT ![p] = k[p] + 1] /\ k \in [PGs -> 0..PACount]
        /\ idPA' = [idPA EXCEPT ![p] = k[p]] /\ idPA \in [PGs -> 0..(PACount - 1)]
        /\ UNCHANGED <<pes, pa, numAAdivinar, contador>>
    BY DEF PGConectado, IInv, TypeOK
  <1>5. fase'[p] = "adivina" /\ idPA'[p] = k[p]
    BY <1>3, <1>4
  <1>6. \A q \in PGs \ {p}, a \in PAs : canal'[q][a] = canal[q][a] /\ canal'[a][q] = canal[a][q]
    BY <1>1, <1>3
  <1>7. \A q \in PGs \ {p} : /\ fase'[q] = fase[q] /\ k'[q] = k[q] /\ idPA'[q] = idPA[q]
                             /\ numAAdivinar'[q] = numAAdivinar[q] /\ contador'[q] = contador[q]
    BY <1>3, <1>4
  <1>8. ASSUME NEW a \in PAs PROVE Par(p, a)'
    <2>1. ~EnSesion(p, a) /\ ~Conecta(p, a)' /\ (Conecta(p, a) <=> a = b) /\ (EnSesion(p, a)' <=> a = b)
      BY <1>1, <1>4, <1>5 DEF Conecta, EnSesion, idPAs
    <2>2. Par(p, a)
      BY ParDe DEF IInv
    <2>3. Propia(p, a)' <=> Propia(p, a)
      BY <1>4 DEF Propia, pa
    <2>4. canal'[p][a] = canal[p][a]
      BY <1>1, <1>3
    <2>5. CASE a = b
      <3>1. canal'[a][p] = <<Propuesta(numMedio[a])>> /\ canal'[p][a] = <<>>
        BY <1>1, <1>3, <2>4, <2>5
      <3>2. Busca(p, a)' /\ numMedio'[a] = numMedio[a]
        BY <1>1, <1>4, <2>5 DEF Busca, pa, pes
      <3>3. Mengua(numMax'[a] - numMin'[a], contador'[p])
        <4>1. numMax'[a] = NumMax /\ numMin'[a] = 0 /\ contador'[p] = 0
          BY <1>1, <1>4, <2>5 DEF pa
        <4>2. NumMax - 0 = NumMax
          OBVIOUS
        <4> QED BY <4>1, <4>2, MenguaInicial
      <3>4. ConSesion(p, a)'
        BY <2>1, <2>5, <3>1, <3>2, <3>3 DEF ConSesion
      <3> QED BY <1>1, <2>3, <2>5, <3>4 DEF Par
    <2>6. CASE a # b
      <3>1. canal'[a][p] = canal[a][p]
        BY <1>1, <1>3, <2>6
      <3> QED BY <2>1, <2>2, <2>3, <2>4, <2>6, <3>1, ParAjeno
    <2> QED BY <2>5, <2>6
  <1>9. InvSesiones /\ UNCHANGED <<pa, arrayNumeros>>
    BY <1>4 DEF IInv, pes
  <1> QED BY <1>5, <1>6, <1>7, <1>8, <1>9, SesionesDeOtros
LEMMA EfectoRechazado ==
  ASSUME IInv, NEW p \in PGs, PGRechazado(p)
  PROVE  /\ canal' \in Redes /\ Empezado /\ Turno(k[p] + 1) \in 0..(PACount - 1)
         /\ \E a \in PAs, b \in PAs :
               /\ a = idPAs(k[p]) /\ b = idPAs(Turno(k[p] + 1)) /\ ~Propia(p, a) /\ Conecta(p, a)
               /\ canal[p][a] = <<>>
               /\ \A e, f \in Rangos : canal'[e][f] = IF e = a /\ f = p THEN <<>>
                                                      ELSE IF e = p /\ f = b
                                                           THEN Append(canal[p][b], Solicitud(1))
                                                      ELSE canal[e][f]
  <1> DEFINE a == idPAs(k[p])
             b == idPAs(Turno(k[p] + 1))
  <1>1. TypeOK /\ InvSesiones /\ InvCanales /\ canal \in Redes
    BY EnRedes DEF IInv
  <1>2. fase[p] = "conecta" /\ Espera(a, p, "SOLICITUD") /\ Recibido(a, p, "SOLICITUD").dato = 0
        /\ canal' = Send(TrasRecv(a, p, "SOLICITUD"), p, b, Solicitud(1))
    BY DEF PGRechazado, Solicitud
  <1>3. a = idPAs(k[p]) /\ b = idPAs(Turno(k[p] + 1))
    OBVIOUS
  <1> HIDE DEF a, b
  <1>4. /\ a \in PAs /\ k[p] \in 0..(PACount - 1) /\ Conecta(p, a) /\ canal[p][a] = <<>>
        /\ IF Propia(p, a)
            THEN /\ canal[a][p] = <<Solicitud(1), Propuesta(numMedio[a])>>
                 /\ Busca(p, a) /\ contador[p] = 0 /\ numMin[a] = 0 /\ numMax[a] = NumMax
                 /\ TrasRecv(a, p, "SOLICITUD") = Con(canal, a, p, <<Propuesta(numMedio[a])>>)
                 /\ Recibido(a, p, "SOLICITUD").dato = 1
            ELSE /\ canal[a][p] = <<Solicitud(0)>>
                 /\ TrasRecv(a, p, "SOLICITUD") = Con(canal, a, p, <<>>)
                 /\ Recibido(a, p, "SOLICITUD").dato = 0
    BY <1>1, <1>2, <1>3, HayContestacion
  <1>5. ~Propia(p, a) /\ canal[a][p] = <<Solicitud(0)>> /\ TrasRecv(a, p, "SOLICITUD") = Con(canal, a, p, <<>>)
    BY <1>2, <1>4
  <1>6. Turno(k[p] + 1) \in 0..(PACount - 1)
    <2> DEFINE n == k[p]
    <2>1. n \in 0..(PACount - 1)
      BY <1>4
    <2> HIDE DEF n
    <2>2. n + 1 \in 0..PACount
      BY <2>1
    <2>3. Turno(n + 1) \in 0..(PACount - 1)
      BY <2>2, TurnoTipo
    <2> QED BY <2>3 DEF n
  <1>7. b \in PAs
    BY <1>3, <1>6, AnillosPA
  <1>8. a \in Rangos /\ p \in Rangos /\ b \in Rangos /\ a # p /\ canal[a][p] # <<>>
    BY <1>4, <1>5, <1>7, Roles, Unas
  <1>9. Empezado
    BY <1>1, <1>8, YaEmpezado
  <1> DEFINE m == Solicitud(1)
             v == <<>>
  <1>10. v \in Seq(Mensajes) /\ m \in Mensajes
    BY Cartas, VaciaTipo
  <1>11. canal' = Send(Con(canal, a, p, v), p, b, m)
    BY <1>2, <1>5
  <1> HIDE DEF m, v
  <1>12. /\ Send(Con(canal, a, p, v), p, b, m) \in Redes
         /\ \A e, f \in Rangos : Send(Con(canal, a, p, v), p, b, m)[e][f]
                = IF e = a /\ f = p THEN v
                  ELSE IF e = p /\ f = b THEN Append(canal[p][b], m) ELSE canal[e][f]
    BY <1>1, <1>8, <1>10, RecibeEnvia
  <1>13. /\ canal' \in Redes
         /\ \A e, f \in Rangos : canal'[e][f] = IF e = a /\ f = p THEN <<>>
                                                ELSE IF e = p /\ f = b
                                                     THEN Append(canal[p][b], Solicitud(1))
                                                ELSE canal[e][f]
    BY <1>11, <1>12 DEF m, v
  <1> QED BY <1>3, <1>4, <1>5, <1>6, <1>7, <1>9, <1>13

LEMMA OrdenesRechazado ==
  ASSUME IInv, NEW p \in PGs, PGRechazado(p)
  PROVE  Ordenes' /\ Quietos
  <1>1. PICK a \in PAs, b \in PAs :
               /\ a = idPAs(k[p]) /\ b = idPAs(Turno(k[p] + 1)) /\ ~Propia(p, a) /\ Conecta(p, a)
               /\ canal[p][a] = <<>>
               /\ \A e, f \in Rangos : canal'[e][f] = IF e = a /\ f = p THEN <<>>
                                                      ELSE IF e = p /\ f = b
                                                           THEN Append(canal[p][b], Solicitud(1))
                                                      ELSE canal[e][f]
    BY EfectoRechazado
  <1>2. Empezado
    BY EfectoRechazado
  <1>3. PES \in Rangos /\ p # PES /\ a # PES /\ b # PES /\ p \in Trabajadores /\ a \notin PGs /\ p \notin PAs
    BY Roles
  <1>4. \A q \in Trabajadores : canal'[PES][q] = canal[PES][q] /\ canal'[q][PES] = canal[q][PES]
    BY <1>1, <1>3, Roles
  <1>5. MudosIgual
    BY <1>1, <1>3 DEF MudosIgual, Mudo
  <1>6. fase' = fase /\ UNCHANGED <<pes, numAAdivinar>>
    BY DEF PGRechazado
  <1> QED BY <1>2, <1>3, <1>4, <1>5, <1>6, OrdenesSesion

LEMMA SesionesRechazado ==
  ASSUME IInv, NEW p \in PGs, PGRechazado(p)
  PROVE  InvSesiones'
  <1>1. PICK a \in PAs, b \in PAs :
               /\ a = idPAs(k[p]) /\ b = idPAs(Turno(k[p] + 1)) /\ ~Propia(p, a) /\ Conecta(p, a)
               /\ canal[p][a] = <<>>
               /\ \A e, f \in Rangos : canal'[e][f] = IF e = a /\ f = p THEN <<>>
                                                      ELSE IF e = p /\ f = b
                                                           THEN Append(canal[p][b], Solicitud(1))
                                                      ELSE canal[e][f]
    BY EfectoRechazado
  <1>2. Turno(k[p] + 1) \in 0..(PACount - 1)
    BY EfectoRechazado
  <1>3. /\ \A q \in PGs : q \in Rangos /\ q # PES
        /\ \A x \in PAs : x \in Rangos /\ x # PES /\ x \notin PGs
    BY Roles
  <1>4. /\ fase[p] = "conecta" /\ fase' = fase
        /\ k' = [k EXCEPT ![p] = Turno(k[p] + 1)] /\ k \in [PGs -> 0..PACount]
        /\ UNCHANGED <<pes, pa, numAAdivinar, contador, idPA>>
    BY DEF PGRechazado, IInv, TypeOK
  <1>5. fase'[p] = "conecta" /\ k'[p] = Turno(k[p] + 1) /\ contador'[p] = 0
    BY <1>4 DEF IInv, InvSesiones
  <1>6. \A q \in PGs \ {p}, x \in PAs : canal'[q][x] = canal[q][x] /\ canal'[x][q] = canal[x][q]
    BY <1>1, <1>3
  <1>7. \A q \in PGs \ {p} : /\ fase'[q] = fase[q] /\ k'[q] = k[q] /\ idPA'[q] = idPA[q]
                             /\ numAAdivinar'[q] = numAAdivinar[q] /\ contador'[q] = contador[q]
    BY <1>3, <1>4
  <1>8. ASSUME NEW x \in PAs PROVE Par(p, x)'
    <2>1. /\ ~EnSesion(p, x) /\ ~EnSesion(p, x)'
          /\ (Conecta(p, x) <=> x = a) /\ (Conecta(p, x)' <=> x = b)
      BY <1>1, <1>4, <1>5 DEF Conecta, EnSesion
    <2>2. Par(p, x)
      BY ParDe DEF IInv
    <2>3. Propia(p, x)' <=> Propia(p, x)
      BY <1>4 DEF Propia, pa
    <2>4. CASE x = a
      <3>1. canal'[x][p] = <<>>
        BY <1>1, <1>3, <2>4
      <3>2. canal'[p][x] = IF x = b THEN <<Solicitud(1)>> ELSE <<>>
        <4>1. canal'[p][x] = IF x = b THEN Append(<<>>, Solicitud(1)) ELSE <<>>
          BY <1>1, <1>3, <2>4
        <4> QED BY <4>1, Unas
      <3>3. SinSesion(p, x)'
        <4>1. Solicitud(1)' = Solicitud(1)
          BY DEF Solicitud, Msj
        <4> QED BY <2>1, <3>1, <3>2, <4>1 DEF SinSesion
      <3> QED BY <1>1, <2>3, <2>4, <3>3 DEF Par
    <2>5. CASE x # a
      <3>1. canal'[x][p] = canal[x][p]
        BY <1>1, <1>3, <2>5
      <3>2. CASE x = b
        <4>1. canal'[p][x] = Append(canal[p][x], Solicitud(1))
          BY <1>1, <1>3, <2>5, <3>2
        <4> QED BY <2>1, <2>2, <2>3, <2>5, <3>1, <3>2, <4>1, ParSolicita
      <3>3. CASE x # b
        <4>1. canal'[p][x] = canal[p][x]
          BY <1>1, <1>3, <3>3
        <4> QED BY <2>1, <2>2, <2>3, <2>5, <3>1, <3>3, <4>1, ParAjeno
      <3> QED BY <3>2, <3>3
    <2> QED BY <2>4, <2>5
  <1>9. k'[p] < PACount
    BY <1>2, <1>5
  <1>10. InvSesiones /\ UNCHANGED <<pa, arrayNumeros>>
    BY <1>4 DEF IInv, pes
  <1> QED BY <1>5, <1>6, <1>7, <1>8, <1>9, <1>10, SesionesDeOtros
\* What p reports to PES after IGUAL, and its answer to a.
Reporte(p) == [tag |-> "ESTADISTICAS", dato |-> numAAdivinar[p], respuestas |-> contador[p] + 1]
Respuesta(p, a) == Caracter(arrayNumeros[numAAdivinar[p]], numMedio[a])

LEMMA EfectoAdivina ==
  ASSUME IInv, NEW p \in PGs, PGAdivina(p)
  PROVE  /\ canal' \in Redes /\ Empezado
         /\ canal[p][PES] = <<>> /\ canal[PES][p] = <<>> /\ numAAdivinar[p] \in Indices
         /\ \E a \in PAs :
               /\ a = idPAs(idPA[p]) /\ EnSesion(p, a) /\ Propia(p, a) /\ Busca(p, a)
               /\ Mengua(numMax[a] - numMin[a], contador[p])
               /\ fase' = [fase EXCEPT ![p] = IF Respuesta(p, a) = IGUAL THEN "bucle" ELSE "adivina"]
               /\ \A e, f \in Rangos :
                    canal'[e][f] = IF e = a /\ f = p THEN <<>>
                                   ELSE IF e = p /\ f = a THEN <<Propuesta(Respuesta(p, a))>>
                                   ELSE IF e = p /\ f = PES /\ Respuesta(p, a) = IGUAL THEN <<Reporte(p)>>
                                   ELSE canal[e][f]
  <1> DEFINE a == idPAs(idPA[p])
  <1>1. TypeOK /\ InvSesiones /\ InvCanales /\ canal \in Redes
    BY EnRedes DEF IInv
  <1>2. fase[p] = "adivina" /\ Espera(a, p, "PROCESAMIENTO")
    BY DEF PGAdivina
  <1>3. a = idPAs(idPA[p])
    OBVIOUS
  <1> DEFINE c == Respuesta(p, a)
             n == Recibido(a, p, "PROCESAMIENTO").dato
             base == TrasRecv(a, p, "PROCESAMIENTO")
  <1>4. n = numMedio[a] =>
          /\ canal' = IF c = IGUAL THEN Send(Send(base, p, a, Propuesta(c)), p, PES, Reporte(p))
                                   ELSE Send(base, p, a, Propuesta(c))
          /\ fase' = [fase EXCEPT ![p] = IF c = IGUAL THEN "bucle" ELSE fase[p]]
    BY <1>1 DEF PGAdivina, Respuesta, Reporte, Propuesta, TypeOK
  <1> HIDE DEF a
  <1>5. /\ a \in PAs /\ EnSesion(p, a) /\ Propia(p, a) /\ canal[p][a] = <<>>
        /\ canal[a][p] = <<Propuesta(numMedio[a])>>
        /\ Busca(p, a) /\ Mengua(numMax[a] - numMin[a], contador[p])
        /\ base = Con(canal, a, p, <<>>) /\ n = numMedio[a]
    BY <1>1, <1>2, <1>3, HayPropuesta
  <1>6. a \in Rangos /\ p \in Rangos /\ PES \in Rangos /\ a # p /\ a # PES /\ p # PES /\ canal[a][p] # <<>>
    BY <1>5, Roles, Unas
  <1>7. Empezado /\ CanalesPG(p)
    BY <1>1, <1>6, YaEmpezado
  <1>8. canal[p][PES] = <<>> /\ canal[PES][p] = <<>> /\ numAAdivinar[p] \in Indices
    BY <1>2, <1>7 DEF CanalesPG
  <1>9. c \in Nat /\ Propuesta(c) \in Mensajes
    <2>1. c \in Nat
      BY <1>1, MediosNat DEF Respuesta
    <2> QED BY <2>1, Cartas
  <1>10. Reporte(p) \in Mensajes
    <2>1. contador[p] \in Nat /\ numAAdivinar[p] \in Nat
      BY <1>1, <1>8 DEF TypeOK, Indices
    <2> QED BY <2>1 DEF Reporte, Mensajes, Tags
  <1> DEFINE v == <<>>
             m == Propuesta(c)
             w == Reporte(p)
             x == Send(Con(canal, a, p, v), p, a, m)
  <1>11. v \in Seq(Mensajes) /\ m \in Mensajes /\ w \in Mensajes
    BY <1>9, <1>10, VaciaTipo
  <1>12. canal' = IF c = IGUAL THEN Send(x, p, PES, w) ELSE x
    BY <1>4, <1>5
  <1>13. Append(canal[p][a], m) = <<m>> /\ Append(canal[p][PES], w) = <<w>> /\ v = <<>>
    BY <1>5, <1>8, Unas
  <1> HIDE DEF v, m, w, c, n, base
  <1>14. /\ x \in Redes
         /\ \A e, f \in Rangos : x[e][f] = IF e = a /\ f = p THEN v
                                           ELSE IF e = p /\ f = a THEN Append(canal[p][a], m)
                                           ELSE canal[e][f]
    BY <1>1, <1>6, <1>11, RecibeEnvia
  <1> HIDE DEF x
  <1>15. /\ Send(x, p, PES, w) \in Redes
         /\ \A e, f \in Rangos : Send(x, p, PES, w)[e][f]
                = IF e = p /\ f = PES THEN Append(x[p][PES], w) ELSE x[e][f]
    BY <1>6, <1>11, <1>14, Envia
  <1>16. x[p][PES] = canal[p][PES]
    BY <1>6, <1>14
  <1> DEFINE um == <<m>>
             uw == <<w>>
  <1>17. \A e, f \in Rangos : x[e][f] = IF e = a /\ f = p THEN v
                                        ELSE IF e = p /\ f = a THEN um ELSE canal[e][f]
    BY <1>13, <1>14
  <1>18. \A e, f \in Rangos : Send(x, p, PES, w)[e][f] = IF e = p /\ f = PES THEN uw ELSE x[e][f]
    BY <1>13, <1>15, <1>16
  <1> HIDE DEF um, uw
  <1>19. /\ canal' \in Redes
         /\ \A e, f \in Rangos : canal'[e][f] = IF e = a /\ f = p THEN v
                                                ELSE IF e = p /\ f = a THEN um
                                                ELSE IF e = p /\ f = PES /\ c = IGUAL THEN uw
                                                ELSE canal[e][f]
    <2>1. CASE c = IGUAL
      <3>1. canal' = Send(x, p, PES, w)
        BY <1>12, <2>1
      <3> QED BY <1>6, <1>15, <1>17, <1>18, <2>1, <3>1
    <2>2. CASE c # IGUAL
      <3>1. canal' = x
        BY <1>12, <2>2
      <3> QED BY <1>14, <1>17, <2>2, <3>1
    <2> QED BY <2>1, <2>2
  <1>20. fase' = [fase EXCEPT ![p] = IF c = IGUAL THEN "bucle" ELSE "adivina"]
    BY <1>2, <1>4, <1>5
  <1> QED BY <1>3, <1>5, <1>7, <1>8, <1>13, <1>19, <1>20 DEF c, um, uw, m, w

LEMMA SesionesAdivina ==
  ASSUME IInv, NEW p \in PGs, PGAdivina(p)
  PROVE  InvSesiones'
  <1>1. PICK b \in PAs :
               /\ b = idPAs(idPA[p]) /\ EnSesion(p, b) /\ Propia(p, b) /\ Busca(p, b)
               /\ Mengua(numMax[b] - numMin[b], contador[p])
               /\ fase' = [fase EXCEPT ![p] = IF Respuesta(p, b) = IGUAL THEN "bucle" ELSE "adivina"]
               /\ \A e, f \in Rangos :
                    canal'[e][f] = IF e = b /\ f = p THEN <<>>
                                   ELSE IF e = p /\ f = b THEN <<Propuesta(Respuesta(p, b))>>
                                   ELSE IF e = p /\ f = PES /\ Respuesta(p, b) = IGUAL THEN <<Reporte(p)>>
                                   ELSE canal[e][f]
    BY EfectoAdivina
  <1>2. /\ \A q \in PGs : q \in Rangos /\ q # PES
        /\ \A x \in PAs : x \in Rangos /\ x # PES /\ x \notin PGs
    BY Roles
  <1>3. /\ fase[p] = "adivina" /\ fase \in [Rangos -> Fases]
        /\ contador' = [contador EXCEPT ![p] = contador[p] + 1] /\ contador \in [PGs -> Nat]
        /\ UNCHANGED <<pes, pa, numAAdivinar, k, idPA>>
    BY DEF PGAdivina, IInv, TypeOK
  <1>4. fase'[p] = (IF Respuesta(p, b) = IGUAL THEN "bucle" ELSE "adivina") /\ contador'[p] = contador[p] + 1
    BY <1>1, <1>2, <1>3
  <1>5. \A q \in PGs \ {p}, x \in PAs : canal'[q][x] = canal[q][x] /\ canal'[x][q] = canal[x][q]
    BY <1>1, <1>2
  <1>6. \A q \in PGs \ {p} : /\ fase'[q] = fase[q] /\ k'[q] = k[q] /\ idPA'[q] = idPA[q]
                             /\ numAAdivinar'[q] = numAAdivinar[q] /\ contador'[q] = contador[q]
    BY <1>1, <1>2, <1>3
  <1>7. ASSUME NEW x \in PAs PROVE Par(p, x)'
    <2>1. /\ ~Conecta(p, x) /\ ~Conecta(p, x)' /\ (EnSesion(p, x) <=> x = b)
          /\ (EnSesion(p, x)' <=> x = b /\ Respuesta(p, b) # IGUAL)
      BY <1>1, <1>3, <1>4 DEF Conecta, EnSesion
    <2>2. Par(p, x)
      BY ParDe DEF IInv
    <2>3. Propia(p, x)' <=> Propia(p, x)
      BY <1>3 DEF Propia, pa
    <2>4. CASE x = b
      <3>1. canal'[x][p] = <<>> /\ canal'[p][x] = <<Propuesta(Respuesta(p, b))>>
        BY <1>1, <1>2, <2>4
      <3>2. /\ numMin' = numMin /\ numMax' = numMax /\ numMedio' = numMedio
            /\ numAAdivinar' = numAAdivinar /\ arrayNumeros' = arrayNumeros
        BY <1>3 DEF pa, pes
      <3>3. Busca(p, x)' /\ Respuesta(p, x)' = Respuesta(p, b)
        BY <1>1, <2>4, <3>2 DEF Busca, Respuesta
      <3>4. CASE Respuesta(p, b) = IGUAL
        <4>1. ConSesion(p, x)'
          BY <2>1, <2>4, <3>1, <3>4 DEF ConSesion
        <4> QED BY <1>1, <2>3, <2>4, <4>1 DEF Par
      <3>5. CASE Respuesta(p, b) # IGUAL
        <4> DEFINE c == Respuesta(p, b)
                   u == NuevoMin(c, numMin[b], numMedio[b])
                   v == NuevoMax(c, numMax[b], numMedio[b])
        <4>1. Mengua(v - u, contador[p] + 1)
          <5> DEFINE n == arrayNumeros[numAAdivinar[p]]
          <5>1. numMin[b] \in Nat /\ numMax[b] \in Nat
            BY DEF IInv, TypeOK
          <5>2. n \in Nat
            <6>1. numAAdivinar[p] \in Indices
              BY EfectoAdivina
            <6>2. n \in Aleatorios
              BY <6>1 DEF IInv, TypeOK
            <6>3. Aleatorios \subseteq Nat
              OBVIOUS
            <6> QED BY <6>2, <6>3
          <5>3. EnRango(n, numMin[b], numMax[b]) /\ numMedio[b] = Medio(numMin[b], numMax[b])
            BY <1>1, <5>1, <5>2 DEF Busca, EnRango
          <5>4. c = Caracter(n, Medio(numMin[b], numMax[b]))
            BY <5>3 DEF Respuesta
          <5>5. EnRango(n, u, v) /\ 2 * (v - u) <= numMax[b] - numMin[b] + 1 /\ v - u < numMax[b] - numMin[b]
            <6> HIDE DEF n
            <6>1. Caracter(n, Medio(numMin[b], numMax[b])) # IGUAL
              BY <3>5, <5>4
            <6> QED BY <5>3, <5>4, <6>1, RangoEstrecha
          <5> DEFINE wu == numMax[b] - numMin[b]
                     wv == v - u
          <5>6. wu \in Nat /\ wv \in Nat /\ wv > 0 /\ wv < wu /\ 2 * wv <= wu + 1
            BY <5>1, <5>3, <5>5 DEF EnRango
          <5>7. Mengua(wu, contador[p])
            BY <1>1
          <5> HIDE DEF wu, wv
          <5>8. Mengua(wv, contador[p] + 1)
            BY <5>6, <5>7, MenguaPaso
          <5> QED BY <5>8 DEF wv
        <4> HIDE DEF c
        <4>2. Mengua(NuevoMax(c, numMax'[x], numMedio'[x]) - NuevoMin(c, numMin'[x], numMedio'[x]), contador'[p])
          BY <1>4, <2>4, <3>2, <4>1
        <4>3. ConSesion(p, x)'
          <5>1. c # IGUAL /\ Caracter(arrayNumeros'[numAAdivinar'[p]], numMedio'[x]) = c
            BY <3>3, <3>5 DEF Respuesta, c
          <5>2. canal'[p][x] = <<Propuesta(c)>>
            BY <3>1 DEF c
          <5>3. EnSesion(p, x)'
            BY <2>1, <2>4, <3>5
          <5> QED BY <3>1, <3>3, <4>2, <5>1, <5>2, <5>3 DEF ConSesion
        <4> QED BY <1>1, <2>3, <2>4, <4>3 DEF Par
      <3> QED BY <3>4, <3>5
    <2>5. CASE x # b
      <3>1. canal'[x][p] = canal[x][p] /\ canal'[p][x] = canal[p][x]
        BY <1>1, <1>2, <2>5
      <3> QED BY <2>1, <2>2, <2>3, <2>5, <3>1, ParAjeno
    <2> QED BY <2>4, <2>5
  <1>8. InvSesiones /\ UNCHANGED <<pa, arrayNumeros>> /\ fase'[p] # "conecta"
    BY <1>3, <1>4 DEF IInv, pes
  <1> QED BY <1>5, <1>6, <1>7, <1>8, SesionesDeOtros
LEMMA OrdenesAdivina ==
  ASSUME IInv, NEW p \in PGs, PGAdivina(p)
  PROVE  Ordenes' /\ Quietos
  <1>1. PICK a \in PAs :
               /\ a = idPAs(idPA[p]) /\ EnSesion(p, a) /\ Propia(p, a) /\ Busca(p, a)
               /\ Mengua(numMax[a] - numMin[a], contador[p])
               /\ fase' = [fase EXCEPT ![p] = IF Respuesta(p, a) = IGUAL THEN "bucle" ELSE "adivina"]
               /\ \A e, f \in Rangos :
                    canal'[e][f] = IF e = a /\ f = p THEN <<>>
                                   ELSE IF e = p /\ f = a THEN <<Propuesta(Respuesta(p, a))>>
                                   ELSE IF e = p /\ f = PES /\ Respuesta(p, a) = IGUAL THEN <<Reporte(p)>>
                                   ELSE canal[e][f]
    BY EfectoAdivina
  <1>2. Empezado /\ canal[p][PES] = <<>> /\ canal[PES][p] = <<>> /\ numAAdivinar[p] \in Indices
    BY EfectoAdivina
  <1>3. PES \in Rangos /\ p \in Rangos /\ a \in Rangos /\ p # PES /\ a # PES /\ p \in Trabajadores
        /\ a \notin PGs /\ p \notin PAs /\ Trabajadores \subseteq Rangos /\ PES \notin Trabajadores
    BY Roles
  <1>4. fase[p] = "adivina" /\ UNCHANGED <<pes, numAAdivinar>> /\ fase \in [Rangos -> Fases]
    BY DEF PGAdivina, IInv, TypeOK
  <1>5. MudosIgual
    BY <1>1, <1>3 DEF MudosIgual, Mudo
  <1>6. CASE Respuesta(p, a) # IGUAL
    <2>1. \A q \in Trabajadores : canal'[PES][q] = canal[PES][q] /\ canal'[q][PES] = canal[q][PES]
      BY <1>1, <1>3, <1>6
    <2>2. fase' = fase
      BY <1>1, <1>3, <1>4, <1>6
    <2> QED BY <1>2, <1>3, <1>4, <1>5, <2>1, <2>2, OrdenesSesion
  <1>7. CASE Respuesta(p, a) = IGUAL
    <2>1. canal'[p][PES] = <<Reporte(p)>> /\ canal'[PES][p] = <<>> /\ fase'[p] = "bucle"
      BY <1>1, <1>2, <1>3, <1>4, <1>7
    <2>2. Ajenos(p) /\ fase'[PES] = fase[PES]
      BY <1>1, <1>3, <1>4 DEF Ajenos
    <2>3. Informe(<<Reporte(p)>>) /\ Reporte(p).tag = "ESTADISTICAS" /\ Reporte(p).dato = numAAdivinar[p]
      <3>1. Logaritmica(contador[p] + 1)
        BY <1>1, MenguaFinal
      <3> QED BY <1>2, <3>1, Unas DEF Informe, Reporte
    <2>4. CanalesPG(p)'
      <3> DEFINE s == <<Reporte(p)>>
      <3>1. Informe(s) /\ canal'[p][PES] = s
        BY <2>1, <2>3
      <3> HIDE DEF s
      <3>2. Informe(canal'[p][PES])
        BY <3>1
      <3>3. Informe(canal[p][PES])'
        BY <3>2 DEF Informe
      <3> QED BY <2>1, <3>3 DEF CanalesPG
    <2>5. ASSUME NEW j \in Indices PROVE Lleva(p, j)' <=> Lleva(p, j)
      <3>1. ~\E i \in DOMAIN <<>> : <<>>[i].tag = "ESTADISTICAS"
        BY Unas
      <3>2. ~Contiene(<<>>, Msj("NOTIFICAR", j))
        BY ContieneCortas
      <3>3. Lleva(p, j) <=> numAAdivinar[p] = j
        BY <1>2, <1>4, <3>1, <3>2 DEF Lleva, Contiene
      <3>4. Lleva(p, j)' <=> numAAdivinar[p] = j
        <4> DEFINE s == <<Reporte(p)>>
        <4>1. DOMAIN s = {1} /\ s[1].tag = "ESTADISTICAS" /\ s[1].dato = numAAdivinar[p] /\ canal'[p][PES] = s
          BY <2>1, <2>3, Unas
        <4> HIDE DEF s
        <4> QED BY <2>1, <3>2, <4>1 DEF Lleva, Contiene
      <3> QED BY <3>3, <3>4
    <2>6. ~Avisado(p)' /\ ~Avisado(p)
      <3>1. ~Tiene(<<>>, "FINALIZACION")
        BY ContieneCortas
      <3> QED BY <1>2, <1>4, <2>1, <3>1 DEF Avisado, Hay, Tiene
    <2>7. (fase'[p] # "fin" \/ canal'[p][PES] # <<>>) <=> (fase[p] # "fin" \/ canal[p][PES] # <<>>)
      BY <1>4, <2>1
    <2> QED BY <1>2, <1>3, <1>4, <1>5, <2>2, <2>4, <2>5, <2>6, <2>7, PasoDeUno DEF IInv, Ordenes
  <1> QED BY <1>6, <1>7

\* A step of guesser a with manager o.
LEMMA SesionesDePA ==
  ASSUME InvSesiones, NEW a \in PAs, NEW o \in PGs, UNCHANGED <<fase, pg, arrayNumeros>>,
         \A p \in PGs, b \in PAs : p # o \/ b # a => canal'[p][b] = canal[p][b] /\ canal'[b][p] = canal[b][p],
         \A b \in PAs \ {a} : /\ estatusPA'[b] = estatusPA[b] /\ origenPG'[b] = origenPG[b]
                              /\ numMin'[b] = numMin[b] /\ numMax'[b] = numMax[b] /\ numMedio'[b] = numMedio[b],
         Par(o, a)',
         \A q \in PGs \ {o} : Par(q, a)',
         origenPG'[a] \in PGs
  PROVE  InvSesiones'
  <1>1. ASSUME NEW p \in PGs, NEW b \in PAs PROVE Par(p, b)'
    <2>1. CASE b = a
      BY <2>1
    <2>2. CASE b # a
      <3>1. (Conecta(p, b)' <=> Conecta(p, b)) /\ (EnSesion(p, b)' <=> EnSesion(p, b))
        BY DEF Conecta, EnSesion, pg
      <3>2. Par(p, b) /\ canal'[p][b] = canal[p][b] /\ canal'[b][p] = canal[b][p]
        BY <2>2, ParDe
      <3>3. /\ estatusPA'[b] = estatusPA[b] /\ origenPG'[b] = origenPG[b] /\ numMin'[b] = numMin[b]
            /\ numMax'[b] = numMax[b] /\ numMedio'[b] = numMedio[b] /\ arrayNumeros' = arrayNumeros
            /\ numAAdivinar'[p] = numAAdivinar[p] /\ contador'[p] = contador[p]
        BY <2>2 DEF pg
      <3> QED BY <3>1, <3>2, <3>3, ParIgual
    <2> QED BY <2>1, <2>2
  <1>2. \A p \in PGs : fase'[p] = "conecta" => k'[p] < PACount /\ contador'[p] = 0
    BY DEF InvSesiones, pg
  <1>3. ASSUME NEW b \in PAs, estatusPA'[b] = "OCUPADO" PROVE origenPG'[b] \in PGs
    BY <1>3 DEF InvSesiones
  <1> QED BY <1>1, <1>2, <1>3 DEF InvSesiones, Par

\* a is not q's, before or after.
LEMMA ParDeOtro ==
  ASSUME NEW q \in PGs, NEW a \in PAs, Par(q, a), ~Propia(q, a), ~Propia(q, a)',
         canal'[q][a] = canal[q][a], canal'[a][q] = canal[a][q], UNCHANGED <<fase, pg>>
  PROVE  Par(q, a)'
  <1>1. (Conecta(q, a)' <=> Conecta(q, a)) /\ (EnSesion(q, a)' <=> EnSesion(q, a))
    BY DEF Conecta, EnSesion, pg
  <1>2. SinSesion(q, a)
    BY DEF Par
  <1>3. SinSesion(q, a)'
    BY <1>1, <1>2 DEF SinSesion
  <1> QED BY <1>3 DEF Par
\* What a answers to a request.
Contestacion(a) == IF estatusPA[a] = "LIBRE" THEN <<Solicitud(1), Propuesta(Medio(0, NumMax))>>
                                              ELSE <<Solicitud(0)>>

LEMMA MedioInicial == Medio(0, NumMax) \in 0..(NumMax - 1)
  BY MedioDentro

LEMMA EfectoSolicitud ==
  ASSUME IInv, NEW a \in PAs, NEW o \in Rangos, PASolicitud(a, o)
  PROVE  /\ canal' \in Redes /\ Empezado /\ o \in PGs /\ ~Propia(o, a) /\ Conecta(o, a)
         /\ \A e, f \in Rangos : canal'[e][f] = IF e = o /\ f = a THEN <<>>
                                                ELSE IF e = a /\ f = o THEN Contestacion(a)
                                                ELSE canal[e][f]
  <1>1. TypeOK /\ InvSesiones /\ InvCanales /\ canal \in Redes
    BY EnRedes DEF IInv
  <1>2. Probe(o, a, "SOLICITUD")
    BY DEF PASolicitud
  <1>3. /\ o \in PGs /\ ~Propia(o, a) /\ Conecta(o, a)
        /\ canal[o][a] = <<Solicitud(1)>> /\ canal[a][o] = <<>>
        /\ TrasRecv(o, a, "SOLICITUD") = Con(canal, o, a, <<>>)
    BY <1>1, <1>2, HaySolicitud
  <1>4. a \in Rangos /\ o \in Rangos /\ o # a /\ canal[o][a] # <<>>
    BY <1>3, Roles, Unas
  <1>5. Empezado
    BY <1>1, <1>4, YaEmpezado
  <1> DEFINE libre == estatusPA[a] = "LIBRE"
             v == <<>>
             m == Solicitud(IF libre THEN 1 ELSE 0)
             n == Propuesta(Medio(0, NumMax))
             x == Send(Con(canal, o, a, v), a, o, m)
  <1>6. v \in Seq(Mensajes) /\ m \in Mensajes /\ n \in Mensajes
    <2>1. Medio(0, NumMax) \in Nat
      BY MedioInicial
    <2> QED BY <2>1, Cartas, VaciaTipo
  <1>7. canal' = IF libre THEN Send(x, a, o, n) ELSE x
    BY <1>3 DEF PASolicitud, Solicitud, Propuesta
  <1>8. Append(canal[a][o], m) = <<m>> /\ Append(<<m>>, n) = <<m, n>> /\ v = <<>>
    <2>1. canal[a][o] = <<>>
      BY <1>3
    <2>2. v = <<>>
      OBVIOUS
    <2> HIDE DEF m, n, v
    <2>3. Append(<<>>, m) = <<m>>
      BY Unas
    <2>4. Append(<<m>>, n) = <<m, n>>
      BY Dobles
    <2> QED BY <2>1, <2>2, <2>3, <2>4
  <1>9. (libre => m = Solicitud(1)) /\ (~libre => m = Solicitud(0))
    OBVIOUS
  <1> HIDE DEF v, m, n, libre
  <1>10. /\ x \in Redes
         /\ \A e, f \in Rangos : x[e][f] = IF e = o /\ f = a THEN v
                                           ELSE IF e = a /\ f = o THEN Append(canal[a][o], m)
                                           ELSE canal[e][f]
    BY <1>1, <1>4, <1>6, RecibeEnvia
  <1> HIDE DEF x
  <1>11. /\ Send(x, a, o, n) \in Redes
         /\ \A e, f \in Rangos : Send(x, a, o, n)[e][f]
                = IF e = a /\ f = o THEN Append(x[a][o], n) ELSE x[e][f]
    BY <1>4, <1>6, <1>10, Envia
  <1> DEFINE um == <<m>>
             umn == <<m, n>>
  <1>12. \A e, f \in Rangos : x[e][f] = IF e = o /\ f = a THEN v
                                        ELSE IF e = a /\ f = o THEN um ELSE canal[e][f]
    BY <1>8, <1>10
  <1>13. x[a][o] = um
    BY <1>4, <1>12
  <1>14. \A e, f \in Rangos : Send(x, a, o, n)[e][f] = IF e = a /\ f = o THEN umn ELSE x[e][f]
    BY <1>8, <1>11, <1>13
  <1>15. Contestacion(a) = IF libre THEN umn ELSE um
    BY <1>9 DEF Contestacion, libre, n
  <1> HIDE DEF um, umn
  <1>16. /\ canal' \in Redes
         /\ \A e, f \in Rangos : canal'[e][f] = IF e = o /\ f = a THEN v
                                                ELSE IF e = a /\ f = o THEN Contestacion(a)
                                                ELSE canal[e][f]
    <2>1. CASE libre
      <3>1. canal' = Send(x, a, o, n)
        BY <1>7, <2>1
      <3> QED BY <1>4, <1>11, <1>12, <1>14, <1>15, <2>1, <3>1
    <2>2. CASE ~libre
      <3>1. canal' = x
        BY <1>7, <2>2
      <3> QED BY <1>10, <1>12, <1>15, <2>2, <3>1
    <2> QED BY <2>1, <2>2
  <1> QED BY <1>3, <1>5, <1>8, <1>16

LEMMA OrdenesSolicitud ==
  ASSUME IInv, NEW a \in PAs, NEW o \in Rangos, PASolicitud(a, o)
  PROVE  Ordenes' /\ Quietos
  <1>1. /\ Empezado /\ o \in PGs
        /\ \A e, f \in Rangos : canal'[e][f] = IF e = o /\ f = a THEN <<>>
                                               ELSE IF e = a /\ f = o THEN Contestacion(a)
                                               ELSE canal[e][f]
    BY EfectoSolicitud
  <1>2. PES \in Rangos /\ o # PES /\ a # PES /\ a \in Trabajadores /\ o \notin PAs /\ a \notin PGs
    BY <1>1, Roles
  <1>3. \A q \in Trabajadores : canal'[PES][q] = canal[PES][q] /\ canal'[q][PES] = canal[q][PES]
    BY <1>1, <1>2, Roles
  <1>4. MudosIgual
    BY <1>1, <1>2 DEF MudosIgual, Mudo
  <1>5. fase' = fase /\ UNCHANGED <<pes, numAAdivinar>>
    BY DEF PASolicitud, pg
  <1> QED BY <1>1, <1>2, <1>3, <1>4, <1>5, OrdenesSesion

LEMMA SesionesSolicitud ==
  ASSUME IInv, NEW a \in PAs, NEW o \in Rangos, PASolicitud(a, o)
  PROVE  InvSesiones'
  <1>1. /\ Empezado /\ o \in PGs /\ ~Propia(o, a) /\ Conecta(o, a)
        /\ \A e, f \in Rangos : canal'[e][f] = IF e = o /\ f = a THEN <<>>
                                               ELSE IF e = a /\ f = o THEN Contestacion(a)
                                               ELSE canal[e][f]
    BY EfectoSolicitud
  <1> DEFINE libre == estatusPA[a] = "LIBRE"
             medio == Medio(0, NumMax)
  <1>2. /\ UNCHANGED <<fase, pes, pg>>
        /\ estatusPA' = [estatusPA EXCEPT ![a] = "OCUPADO"]
        /\ origenPG' = [origenPG EXCEPT ![a] = IF libre THEN o ELSE origenPG[a]]
        /\ numMin' = [numMin EXCEPT ![a] = IF libre THEN 0 ELSE numMin[a]]
        /\ numMax' = [numMax EXCEPT ![a] = IF libre THEN NumMax ELSE numMax[a]]
        /\ numMedio' = [numMedio EXCEPT ![a] = IF libre THEN medio ELSE numMedio[a]]
    BY DEF PASolicitud, IInv, TypeOK
  <1>3. /\ estatusPA \in [PAs -> {"LIBRE", "OCUPADO"}] /\ origenPG \in [PAs -> 0..PGCount]
        /\ numMin \in [PAs -> 0..NumMax] /\ numMax \in [PAs -> 0..NumMax] /\ numMedio \in [PAs -> 0..NumMax]
    BY DEF IInv, TypeOK
  <1> HIDE DEF medio
  <1>4. \A b \in PAs \ {a} : /\ estatusPA'[b] = estatusPA[b] /\ origenPG'[b] = origenPG[b]
                             /\ numMin'[b] = numMin[b] /\ numMax'[b] = numMax[b] /\ numMedio'[b] = numMedio[b]
    BY <1>2, <1>3
  <1>5. /\ estatusPA'[a] = "OCUPADO" /\ origenPG'[a] = IF libre THEN o ELSE origenPG[a]
        /\ numMin'[a] = IF libre THEN 0 ELSE numMin[a]
        /\ numMax'[a] = IF libre THEN NumMax ELSE numMax[a]
        /\ numMedio'[a] = IF libre THEN medio ELSE numMedio[a]
    BY <1>2, <1>3
  <1>6. /\ \A q \in PGs : q \in Rangos /\ q \notin PAs
        /\ \A b \in PAs : b \in Rangos /\ b \notin PGs
    BY Roles
  <1>7. \A p \in PGs, b \in PAs : p # o \/ b # a => canal'[p][b] = canal[p][b] /\ canal'[b][p] = canal[b][p]
    BY <1>1, <1>6
  <1>8. canal'[o][a] = <<>> /\ canal'[a][o] = Contestacion(a)
    BY <1>1, <1>6
  <1>9. Conecta(o, a)' /\ fase[o] = "conecta"
    BY <1>1, <1>2 DEF Conecta, pg
  <1>10. Par(o, a)'
    <2>1. CASE libre
      <3>1. Propia(o, a)'
        BY <1>5, <2>1 DEF Propia
      <3>2. numMin'[a] = 0 /\ numMax'[a] = NumMax /\ numMedio'[a] = medio
        BY <1>5, <2>1
      <3>3. canal'[a][o] = <<Solicitud(1), Propuesta(numMedio'[a])>>
        BY <1>8, <2>1, <3>2 DEF Contestacion, medio
      <3>4. Busca(o, a)'
        <4>1. CanalesPG(o)
          BY <1>1 DEF IInv, InvCanales
        <4>2. numAAdivinar[o] \in Indices
          BY <1>9, <4>1 DEF CanalesPG
        <4> DEFINE n == arrayNumeros[numAAdivinar[o]]
        <4>3. n \in Aleatorios
          BY <4>2 DEF IInv, TypeOK
        <4>4. arrayNumeros'[numAAdivinar'[o]] = n
          BY <1>2 DEF pes, pg
        <4> HIDE DEF n
        <4>5. 0 <= n /\ n < NumMax
          <5>1. n \in 0..(NumMax - 1)
            BY <4>3
          <5> QED BY <5>1
        <4> QED BY <3>2, <4>4, <4>5 DEF Busca, medio
      <3>5. contador'[o] = 0
        BY <1>1, <1>2, <1>9 DEF pg, IInv, InvSesiones
      <3>6. ConSesion(o, a)'
        BY <1>8, <1>9, <3>2, <3>3, <3>4, <3>5 DEF ConSesion, Solicitud, Propuesta, Msj
      <3> QED BY <3>1, <3>6 DEF Par
    <2>2. CASE ~libre
      <3>1. ~Propia(o, a)'
        <4>1. origenPG[a] # o
          BY <1>1, <1>3, <2>2 DEF Propia
        <4> QED BY <1>5, <2>2, <4>1 DEF Propia
      <3>2. canal'[a][o] = <<Solicitud(0)>>
        BY <1>8, <2>2 DEF Contestacion
      <3>3. SinSesion(o, a)'
        BY <1>8, <1>9, <3>2 DEF SinSesion, Solicitud, Msj
      <3> QED BY <3>1, <3>3 DEF Par
    <2> QED BY <2>1, <2>2
  <1>11. ASSUME NEW q \in PGs \ {o} PROVE Par(q, a)'
    <2>1. Par(q, a) /\ canal'[q][a] = canal[q][a] /\ canal'[a][q] = canal[a][q]
      BY <1>7, ParDe DEF IInv
    <2>2. CASE libre
      <3>1. ~Propia(q, a) /\ ~Propia(q, a)'
        BY <1>5, <2>2 DEF Propia
      <3> QED BY <1>2, <2>1, <3>1, ParDeOtro
    <2>3. CASE ~libre
      <3>1. estatusPA[a] = "OCUPADO"
        BY <1>3, <2>3
      <3>2. /\ estatusPA'[a] = estatusPA[a] /\ origenPG'[a] = origenPG[a] /\ numMin'[a] = numMin[a]
            /\ numMax'[a] = numMax[a] /\ numMedio'[a] = numMedio[a]
        BY <1>5, <2>3, <3>1
      <3>3. /\ arrayNumeros' = arrayNumeros /\ numAAdivinar'[q] = numAAdivinar[q] /\ contador'[q] = contador[q]
            /\ (Conecta(q, a)' <=> Conecta(q, a)) /\ (EnSesion(q, a)' <=> EnSesion(q, a))
        BY <1>2 DEF pes, pg, Conecta, EnSesion
      <3> QED BY <2>1, <3>2, <3>3, ParIgual
    <2> QED BY <2>2, <2>3
  <1>12. origenPG'[a] \in PGs
    <2>1. CASE libre
      BY <1>1, <1>5, <2>1
    <2>2. CASE ~libre
      <3>1. estatusPA[a] = "OCUPADO"
        BY <1>3, <2>2
      <3> QED BY <1>5, <2>2, <3>1 DEF IInv, InvSesiones
    <2> QED BY <2>1, <2>2
  <1>13. InvSesiones /\ UNCHANGED <<fase, pg, arrayNumeros>>
    BY <1>2 DEF IInv, pes
  <1> QED BY <1>1, <1>4, <1>7, <1>10, <1>11, <1>12, <1>13, SesionesDePA
\* The range of a after an answer.
MinimoTras(a, c) == NuevoMin(c, numMin[a], numMedio[a])
MaximoTras(a, c) == NuevoMax(c, numMax[a], numMedio[a])

LEMMA Estrechado ==
  ASSUME IInv, Empezado, NEW p \in PGs, NEW a \in PAs, EnSesion(p, a), Busca(p, a), Respuesta(p, a) # IGUAL
  PROVE  LET n == arrayNumeros[numAAdivinar[p]]
             x == MinimoTras(a, Respuesta(p, a))
             y == MaximoTras(a, Respuesta(p, a))
         IN  /\ x \in 0..NumMax /\ y \in 0..NumMax /\ x <= n /\ n < y
             /\ Medio(x, y) \in x..(y - 1) /\ Medio(x, y) \in 0..NumMax
  <1> DEFINE n == arrayNumeros[numAAdivinar[p]]
             c == Respuesta(p, a)
             u == numMin[a]
             v == numMax[a]
             m == numMedio[a]
             x == MinimoTras(a, c)
             y == MaximoTras(a, c)
  <1>1. u \in 0..NumMax /\ v \in 0..NumMax /\ m \in 0..NumMax
    BY DEF IInv, TypeOK
  <1>2. n \in Nat
    <2>1. CanalesPG(p) /\ fase[p] = "adivina"
      BY DEF IInv, InvCanales, EnSesion
    <2>2. numAAdivinar[p] \in Indices
      BY <2>1 DEF CanalesPG
    <2>3. n \in Aleatorios
      BY <2>2 DEF IInv, TypeOK
    <2>4. Aleatorios \subseteq Nat
      OBVIOUS
    <2> QED BY <2>3, <2>4
  <1>3. u <= n /\ n < v /\ m = Medio(u, v) /\ c = Caracter(n, m) /\ c # IGUAL
    BY DEF Busca, Respuesta
  <1>4. x = NuevoMin(c, u, m) /\ y = NuevoMax(c, v, m)
    BY DEF MinimoTras, MaximoTras
  <1> HIDE DEF n, c, u, v, m, x, y
  <1>5. EnRango(n, u, v)
    BY <1>1, <1>2, <1>3 DEF EnRango
  <1>6. EnRango(n, x, y)
    BY <1>3, <1>4, <1>5, RangoEstrecha
  <1>7. x \in 0..NumMax /\ y \in 0..NumMax
    BY <1>1, <1>4, <1>6 DEF NuevoMin, NuevoMax
  <1>8. x \in Nat /\ y \in Nat /\ x <= n /\ n < y /\ x < y
    BY <1>6 DEF EnRango
  <1>9. Medio(x, y) \in x..(y - 1)
    BY <1>8, MedioDentro
  <1>10. Medio(x, y) \in 0..NumMax
    BY <1>7, <1>8, <1>9
  <1> QED BY <1>7, <1>8, <1>9, <1>10 DEF n, c, x, y

\* The answer c of o, after which x is left on its channel.
Procesado(a, o, c, x) ==
    /\ \/ /\ c = Respuesta(o, a) /\ c # IGUAL /\ EnSesion(o, a) /\ Busca(o, a) /\ x = <<>>
          /\ Mengua(MaximoTras(a, c) - MinimoTras(a, c), contador[o])
       \/ c = IGUAL /\ ~Conecta(o, a) /\ ~EnSesion(o, a) /\ x = <<>>
       \/ c = IGUAL /\ Conecta(o, a) /\ x = <<Solicitud(1)>>
    /\ \A e, f \in Rangos :
         canal'[e][f] = IF e = o /\ f = a THEN x
                        ELSE IF e = a /\ f = o /\ c # IGUAL
                             THEN <<Propuesta(Medio(MinimoTras(a, c), MaximoTras(a, c)))>>
                        ELSE canal[e][f]
    /\ estatusPA' = [estatusPA EXCEPT ![a] = IF c = IGUAL THEN "LIBRE" ELSE estatusPA[a]]
    /\ numMin' = [numMin EXCEPT ![a] = MinimoTras(a, c)]
    /\ numMax' = [numMax EXCEPT ![a] = MaximoTras(a, c)]
    /\ numMedio' = [numMedio EXCEPT ![a] = IF c = IGUAL THEN numMedio[a]
                                           ELSE Medio(MinimoTras(a, c), MaximoTras(a, c))]

LEMMA EfectoProcesa ==
  ASSUME IInv, NEW a \in PAs, NEW o \in Rangos, PAProcesa(a, o)
  PROVE  /\ canal' \in Redes /\ Empezado /\ o \in PGs /\ Propia(o, a) /\ origenPG[a] = o /\ canal[a][o] = <<>>
         /\ \E c, x : Procesado(a, o, c, x)
  <1>1. TypeOK /\ InvSesiones /\ InvCanales /\ canal \in Redes
    BY EnRedes DEF IInv
  <1>2. Probe(o, a, "PROCESAMIENTO")
    BY DEF PAProcesa
  <1> DEFINE r == Respuesta(o, a)
             c == Recibido(o, a, "PROCESAMIENTO").dato
  <1>3. o \in PGs /\ o = origenPG[a] /\ Propia(o, a) /\ canal[a][o] = <<>>
    BY <1>1, <1>2, HayRespuesta
  <1>4. \/ /\ canal[o][a] = <<Propuesta(r)>> /\ EnSesion(o, a) /\ Busca(o, a) /\ r # IGUAL
           /\ Mengua(MaximoTras(a, r) - MinimoTras(a, r), contador[o])
           /\ TrasRecv(o, a, "PROCESAMIENTO") = Con(canal, o, a, <<>>)
           /\ c = r
        \/ /\ canal[o][a] = <<Propuesta(IGUAL)>> /\ ~Conecta(o, a) /\ ~EnSesion(o, a)
           /\ TrasRecv(o, a, "PROCESAMIENTO") = Con(canal, o, a, <<>>)
           /\ c = IGUAL
        \/ /\ canal[o][a] = <<Propuesta(IGUAL), Solicitud(1)>> /\ Conecta(o, a)
           /\ TrasRecv(o, a, "PROCESAMIENTO") = Con(canal, o, a, <<Solicitud(1)>>)
           /\ c = IGUAL
    BY <1>1, <1>2, HayRespuesta DEF Respuesta, MinimoTras, MaximoTras
  <1>5. a \in Rangos /\ o # a /\ canal[o][a] # <<>>
    <2>1. canal[o][a] # <<>>
      BY <1>2 DEF Probe, Delante
    <2> QED BY <1>3, <2>1, Roles
  <1>6. Empezado
    BY <1>1, <1>5, YaEmpezado
  <1> DEFINE d == Medio(MinimoTras(a, c), MaximoTras(a, c))
  <1>7. /\ canal' = IF c = IGUAL THEN TrasRecv(o, a, "PROCESAMIENTO")
                    ELSE Send(TrasRecv(o, a, "PROCESAMIENTO"), a, o, Propuesta(d))
        /\ estatusPA' = [estatusPA EXCEPT ![a] = IF c = IGUAL THEN "LIBRE" ELSE estatusPA[a]]
        /\ numMin' = [numMin EXCEPT ![a] = MinimoTras(a, c)]
        /\ numMax' = [numMax EXCEPT ![a] = MaximoTras(a, c)]
        /\ numMedio' = [numMedio EXCEPT ![a] = IF c = IGUAL THEN numMedio[a] ELSE d]
    BY <1>1, <1>3 DEF PAProcesa, TypeOK, MinimoTras, MaximoTras, Propuesta
  <1>8. c # IGUAL => c = r /\ EnSesion(o, a) /\ Busca(o, a)
    BY <1>4
  <1>9. c # IGUAL => Propuesta(d) \in Mensajes
    <2> SUFFICES ASSUME c # IGUAL PROVE Propuesta(d) \in Mensajes
      OBVIOUS
    <2>1. Medio(MinimoTras(a, r), MaximoTras(a, r)) \in 0..NumMax
      BY <1>3, <1>6, <1>8, Estrechado
    <2>2. d \in 0..NumMax
      BY <1>8, <2>1
    <2> HIDE DEF d
    <2>3. d \in Nat
      BY <2>2
    <2> QED BY <2>3, Cartas
  <1> HIDE DEF c, d, r
  <1>10. PICK x \in Seq(Mensajes) :
            /\ TrasRecv(o, a, "PROCESAMIENTO") = Con(canal, o, a, x)
            /\ \/ /\ c = r /\ c # IGUAL /\ EnSesion(o, a) /\ Busca(o, a) /\ x = <<>>
                  /\ Mengua(MaximoTras(a, c) - MinimoTras(a, c), contador[o])
               \/ c = IGUAL /\ ~Conecta(o, a) /\ ~EnSesion(o, a) /\ x = <<>>
               \/ c = IGUAL /\ Conecta(o, a) /\ x = <<Solicitud(1)>>
    <2>1. <<>> \in Seq(Mensajes) /\ <<Solicitud(1)>> \in Seq(Mensajes)
      <3>1. Solicitud(1) \in Mensajes
        BY Cartas
      <3> QED BY <3>1, VaciaTipo
    <2> QED BY <1>4, <2>1
  <1> DEFINE m == Propuesta(d)
             um == <<m>>
  <1>11. Append(canal[a][o], m) = um
    <2> HIDE DEF m
    <2>1. Append(<<>>, m) = <<m>>
      BY Unas
    <2> QED BY <1>3, <2>1
  <1>12. /\ Con(canal, o, a, x) \in Redes
         /\ \A e, f \in Rangos : Con(canal, o, a, x)[e][f] = IF e = o /\ f = a THEN x ELSE canal[e][f]
    BY <1>1, <1>5, Pone
  <1>13. c # IGUAL =>
           /\ Send(Con(canal, o, a, x), a, o, m) \in Redes
           /\ \A e, f \in Rangos : Send(Con(canal, o, a, x), a, o, m)[e][f]
                = IF e = o /\ f = a THEN x ELSE IF e = a /\ f = o THEN Append(canal[a][o], m) ELSE canal[e][f]
    <2> SUFFICES ASSUME c # IGUAL
                 PROVE  /\ Send(Con(canal, o, a, x), a, o, m) \in Redes
                        /\ \A e, f \in Rangos : Send(Con(canal, o, a, x), a, o, m)[e][f]
                              = IF e = o /\ f = a THEN x
                                ELSE IF e = a /\ f = o THEN Append(canal[a][o], m) ELSE canal[e][f]
      OBVIOUS
    <2>1. m \in Mensajes
      BY <1>9
    <2> HIDE DEF m
    <2> QED BY <1>1, <1>5, <2>1, RecibeEnvia
  <1>14. canal' = IF c = IGUAL THEN Con(canal, o, a, x) ELSE Send(Con(canal, o, a, x), a, o, m)
    BY <1>7, <1>10
  <1> HIDE DEF m, um
  <1>15. /\ canal' \in Redes
         /\ \A e, f \in Rangos : canal'[e][f] = IF e = o /\ f = a THEN x
                                                ELSE IF e = a /\ f = o /\ c # IGUAL THEN um
                                                ELSE canal[e][f]
    <2>1. CASE c = IGUAL
      BY <1>12, <1>14, <2>1
    <2>2. CASE c # IGUAL
      BY <1>11, <1>13, <1>14, <2>2
    <2> QED BY <2>1, <2>2
  <1>16. um = <<Propuesta(Medio(MinimoTras(a, c), MaximoTras(a, c)))>>
    BY DEF um, m, d
  <1>17. \A e, f \in Rangos :
           canal'[e][f] = IF e = o /\ f = a THEN x
                          ELSE IF e = a /\ f = o /\ c # IGUAL
                               THEN <<Propuesta(Medio(MinimoTras(a, c), MaximoTras(a, c)))>>
                          ELSE canal[e][f]
    BY <1>15, <1>16
  <1>18. numMedio' = [numMedio EXCEPT ![a] = IF c = IGUAL THEN numMedio[a]
                                              ELSE Medio(MinimoTras(a, c), MaximoTras(a, c))]
    BY <1>7 DEF d
  <1>19. \/ /\ c = Respuesta(o, a) /\ c # IGUAL /\ EnSesion(o, a) /\ Busca(o, a) /\ x = <<>>
            /\ Mengua(MaximoTras(a, c) - MinimoTras(a, c), contador[o])
         \/ c = IGUAL /\ ~Conecta(o, a) /\ ~EnSesion(o, a) /\ x = <<>>
         \/ c = IGUAL /\ Conecta(o, a) /\ x = <<Solicitud(1)>>
    BY <1>10 DEF r
  <1>20. Procesado(a, o, c, x)
    BY <1>7, <1>17, <1>18, <1>19 DEF Procesado
  <1> QED BY <1>3, <1>6, <1>15, <1>20
LEMMA OrdenesProcesa ==
  ASSUME IInv, NEW a \in PAs, NEW o \in Rangos, PAProcesa(a, o)
  PROVE  Ordenes' /\ Quietos
  <1>1. Empezado /\ o \in PGs
    BY EfectoProcesa
  <1>2. PICK c, x : Procesado(a, o, c, x)
    BY EfectoProcesa
  <1>3. PES \in Rangos /\ o # PES /\ a # PES /\ a \in Trabajadores /\ o \notin PAs /\ a \notin PGs
    BY <1>1, Roles
  <1> DEFINE u == <<Propuesta(Medio(MinimoTras(a, c), MaximoTras(a, c)))>>
  <1>4. \A e, f \in Rangos : canal'[e][f] = IF e = o /\ f = a THEN x
                                            ELSE IF e = a /\ f = o /\ c # IGUAL THEN u
                                            ELSE canal[e][f]
    BY <1>2 DEF Procesado
  <1> HIDE DEF u
  <1>5. \A q \in Trabajadores : canal'[PES][q] = canal[PES][q] /\ canal'[q][PES] = canal[q][PES]
    BY <1>3, <1>4, Roles
  <1>6. MudosIgual
    BY <1>1, <1>3, <1>4 DEF MudosIgual, Mudo
  <1>7. fase' = fase /\ UNCHANGED <<pes, numAAdivinar>>
    BY DEF PAProcesa, pg
  <1> QED BY <1>1, <1>3, <1>5, <1>6, <1>7, OrdenesSesion

LEMMA SesionesProcesa ==
  ASSUME IInv, NEW a \in PAs, NEW o \in Rangos, PAProcesa(a, o)
  PROVE  InvSesiones'
  <1>1. Empezado /\ o \in PGs /\ Propia(o, a) /\ origenPG[a] = o /\ canal[a][o] = <<>>
    BY EfectoProcesa
  <1>2. PICK c, x : Procesado(a, o, c, x)
    BY EfectoProcesa
  <1> DEFINE u == MinimoTras(a, c)
             v == MaximoTras(a, c)
             m == Medio(u, v)
  <1>3. /\ \A e, f \in Rangos : canal'[e][f] = IF e = o /\ f = a THEN x
                                               ELSE IF e = a /\ f = o /\ c # IGUAL THEN <<Propuesta(m)>>
                                               ELSE canal[e][f]
        /\ estatusPA' = [estatusPA EXCEPT ![a] = IF c = IGUAL THEN "LIBRE" ELSE estatusPA[a]]
        /\ numMin' = [numMin EXCEPT ![a] = u] /\ numMax' = [numMax EXCEPT ![a] = v]
        /\ numMedio' = [numMedio EXCEPT ![a] = IF c = IGUAL THEN numMedio[a] ELSE m]
    BY <1>2 DEF Procesado
  <1>4. UNCHANGED <<fase, pes, pg, origenPG>>
    BY DEF PAProcesa
  <1>5. /\ estatusPA \in [PAs -> {"LIBRE", "OCUPADO"}]
        /\ numMin \in [PAs -> 0..NumMax] /\ numMax \in [PAs -> 0..NumMax] /\ numMedio \in [PAs -> 0..NumMax]
    BY DEF IInv, TypeOK
  <1> HIDE DEF u, v, m
  <1>6. \A b \in PAs \ {a} : /\ estatusPA'[b] = estatusPA[b] /\ origenPG'[b] = origenPG[b]
                             /\ numMin'[b] = numMin[b] /\ numMax'[b] = numMax[b] /\ numMedio'[b] = numMedio[b]
    BY <1>3, <1>4, <1>5
  <1>7. /\ estatusPA'[a] = IF c = IGUAL THEN "LIBRE" ELSE estatusPA[a]
        /\ numMin'[a] = u /\ numMax'[a] = v
        /\ numMedio'[a] = IF c = IGUAL THEN numMedio[a] ELSE m
    BY <1>3, <1>5
  <1>8. /\ \A q \in PGs : q \in Rangos /\ q \notin PAs
        /\ \A b \in PAs : b \in Rangos /\ b \notin PGs
    BY Roles
  <1>9. \A p \in PGs, b \in PAs : p # o \/ b # a => canal'[p][b] = canal[p][b] /\ canal'[b][p] = canal[b][p]
    BY <1>3, <1>8
  <1>10. canal'[o][a] = x /\ canal'[a][o] = IF c # IGUAL THEN <<Propuesta(m)>> ELSE <<>>
    BY <1>1, <1>3, <1>8
  <1>11. (Conecta(o, a)' <=> Conecta(o, a)) /\ (EnSesion(o, a)' <=> EnSesion(o, a))
    BY <1>4 DEF Conecta, EnSesion, pg
  <1>12. Par(o, a)'
    <2>1. CASE /\ c = Respuesta(o, a) /\ c # IGUAL /\ EnSesion(o, a) /\ Busca(o, a) /\ x = <<>>
               /\ Mengua(v - u, contador[o])
      <3>1. Propia(o, a)'
        BY <1>1, <1>4, <1>7, <2>1 DEF Propia
      <3>2. u <= arrayNumeros[numAAdivinar[o]] /\ arrayNumeros[numAAdivinar[o]] < v
        BY <1>1, <2>1, Estrechado DEF u, v
      <3>3. numMin'[a] = u /\ numMax'[a] = v /\ numMedio'[a] = m
        BY <1>7, <2>1
      <3>4. Busca(o, a)'
        <4>1. arrayNumeros' = arrayNumeros /\ numAAdivinar' = numAAdivinar
          BY <1>4 DEF pes, pg
        <4> QED BY <3>2, <3>3, <4>1 DEF Busca, m
      <3>5. canal'[o][a] = <<>> /\ canal'[a][o] = <<Propuesta(numMedio'[a])>>
        BY <1>10, <2>1, <3>3
      <3>6. Mengua(numMax'[a] - numMin'[a], contador'[o])
        BY <1>4, <2>1, <3>3 DEF pg
      <3>7. ConSesion(o, a)'
        BY <1>11, <2>1, <3>4, <3>5, <3>6 DEF ConSesion, Propuesta, Msj
      <3> QED BY <3>1, <3>7 DEF Par
    <2>2. CASE c = IGUAL
      <3>1. ~Propia(o, a)'
        BY <1>7, <2>2 DEF Propia
      <3>2. canal'[a][o] = <<>>
        BY <1>10, <2>2
      <3>3. (~Conecta(o, a) /\ ~EnSesion(o, a) /\ x = <<>>) \/ (Conecta(o, a) /\ x = <<Solicitud(1)>>)
        BY <1>2, <2>2 DEF Procesado
      <3>4. SinSesion(o, a)'
        BY <1>10, <1>11, <3>2, <3>3 DEF SinSesion, Solicitud, Msj
      <3> QED BY <3>1, <3>4 DEF Par
    <2> QED BY <1>2, <2>1, <2>2 DEF Procesado, u, v
  <1>13. ASSUME NEW q \in PGs \ {o} PROVE Par(q, a)'
    <2>1. Par(q, a) /\ canal'[q][a] = canal[q][a] /\ canal'[a][q] = canal[a][q]
      BY <1>9, ParDe DEF IInv
    <2>2. ~Propia(q, a) /\ ~Propia(q, a)'
      BY <1>1, <1>4 DEF Propia
    <2> QED BY <1>4, <2>1, <2>2, ParDeOtro
  <1>14. origenPG'[a] \in PGs
    BY <1>1, <1>4
  <1>15. InvSesiones /\ UNCHANGED <<fase, pg, arrayNumeros>>
    BY <1>4 DEF IInv, pes
  <1> QED BY <1>1, <1>6, <1>9, <1>12, <1>13, <1>14, <1>15, SesionesDePA
-----------------------------------------------------------------------------
(* The steps of PES *)

\* The first messages are no numbers and no end.
LEMMA PreviosNada ==
  ASSUME NEW r \in Trabajadores, NEW x \in Seq(Mensajes)
  PROVE  /\ Previos(r) \in Seq(Mensajes) /\ Previos(r) \o x \in Seq(Mensajes)
         /\ \A j : Contiene(Previos(r) \o x, Msj("NOTIFICAR", j)) <=> Contiene(x, Msj("NOTIFICAR", j))
         /\ \A t : t \notin {"ID", "INFOPAS"} => (Tiene(Previos(r) \o x, t) <=> Tiene(x, t))
  <1> DEFINE a == Msj("ID", r)
             b == Msj("INFOPAS", PACount)
             n(j) == Msj("NOTIFICAR", j)
  <1>1. a \in Mensajes /\ a.tag = "ID" /\ b \in Mensajes /\ b.tag = "INFOPAS"
    <2>1. r \in Nat
      BY Roles
    <2> QED BY <2>1, Iniciales
  <1>2. \A j : a # n(j) /\ b # n(j)
    BY MsjIguales
  <1>3. Previos(r) \in {<<a, b>>, <<a>>, <<b>>, <<>>}
    BY DEF Previos
  <1> HIDE DEF a, b, n
  <1>4. /\ <<b>> \o x \in Seq(Mensajes)
        /\ \A j : Contiene(<<b>> \o x, n(j)) <=> Contiene(x, n(j))
        /\ \A t : t \notin {"ID", "INFOPAS"} => (Tiene(<<b>> \o x, t) <=> Tiene(x, t))
    <2>1. \A m, t : /\ Contiene(<<b>> \o x, m) <=> b = m \/ Contiene(x, m)
                    /\ Tiene(<<b>> \o x, t) <=> b.tag = t \/ Tiene(x, t)
      BY <1>1, ContieneEncabeza
    <2>2. <<b>> \o x \in Seq(Mensajes)
      BY <1>1, Encabeza
    <2> QED BY <1>1, <1>2, <2>1, <2>2
  <1>5. ASSUME NEW y \in Seq(Mensajes)
        PROVE  /\ <<a>> \o y \in Seq(Mensajes)
               /\ \A j : Contiene(<<a>> \o y, n(j)) <=> Contiene(y, n(j))
               /\ \A t : t \notin {"ID", "INFOPAS"} => (Tiene(<<a>> \o y, t) <=> Tiene(y, t))
    <2>1. \A m, t : /\ Contiene(<<a>> \o y, m) <=> a = m \/ Contiene(y, m)
                    /\ Tiene(<<a>> \o y, t) <=> a.tag = t \/ Tiene(y, t)
      BY <1>1, ContieneEncabeza
    <2>2. <<a>> \o y \in Seq(Mensajes)
      BY <1>1, Encabeza
    <2> QED BY <1>1, <1>2, <2>1, <2>2
  <1>6. <<a, b>> \o x = <<a>> \o (<<b>> \o x)
    BY <1>1, Asocia
  <1>7. <<>> \o x = x
    BY ConcatEmptySeq
  <1>8. <<a>> \in Seq(Mensajes) /\ <<b>> \in Seq(Mensajes) /\ <<a, b>> \in Seq(Mensajes) /\ <<>> \in Seq(Mensajes)
    BY <1>1
  <1> DEFINE bx == <<b>> \o x
  <1>9. /\ bx \in Seq(Mensajes)
        /\ \A j : Contiene(bx, n(j)) <=> Contiene(x, n(j))
        /\ \A t : t \notin {"ID", "INFOPAS"} => (Tiene(bx, t) <=> Tiene(x, t))
    BY <1>4
  <1> HIDE DEF bx
  <1> DEFINE z == Previos(r) \o x
  <1>10. z \in Seq(Mensajes) /\ (\A j : Contiene(z, n(j)) <=> Contiene(x, n(j)))
         /\ \A t : t \notin {"ID", "INFOPAS"} => (Tiene(z, t) <=> Tiene(x, t))
    <2>1. CASE Previos(r) = <<a, b>>
      <3>1. z = <<a>> \o bx
        BY <1>6, <2>1 DEF bx
      <3> HIDE DEF z
      <3>2. /\ <<a>> \o bx \in Seq(Mensajes)
            /\ \A j : Contiene(<<a>> \o bx, n(j)) <=> Contiene(bx, n(j))
            /\ \A t : t \notin {"ID", "INFOPAS"} => (Tiene(<<a>> \o bx, t) <=> Tiene(bx, t))
        BY <1>5, <1>9
      <3> QED BY <1>9, <3>1, <3>2
    <2>2. CASE Previos(r) = <<a>>
      <3>1. z = <<a>> \o x
        BY <2>2
      <3> HIDE DEF z
      <3> QED BY <1>5, <3>1
    <2>3. CASE Previos(r) = <<b>>
      <3>1. z = bx
        BY <2>3 DEF bx
      <3> HIDE DEF z
      <3> QED BY <1>9, <3>1
    <2>4. CASE Previos(r) = <<>>
      <3>1. z = x
        BY <1>7, <2>4
      <3> HIDE DEF z
      <3> QED BY <3>1
    <2> QED BY <1>3, <2>1, <2>2, <2>3, <2>4
  <1> QED BY <1>3, <1>8, <1>10 DEF n

LEMMA UnaSola ==
  ASSUME NEW s \in Seq(Mensajes), Len(s) = 1
  PROVE  s = <<s[1]>> /\ s[1] \in Mensajes
  <1>1. s[1] \in Mensajes
    OBVIOUS
  <1> DEFINE a == s[1]
  <1>2. <<a>> \in Seq(Mensajes) /\ Len(<<a>>) = Len(s)
    BY <1>1
  <1>3. \A n \in 1..Len(s) : s[n] = <<a>>[n]
    <2>1. \A n \in 1..Len(s) : n = 1
      OBVIOUS
    <2> QED BY <2>1
  <1>4. s = <<a>>
    <2> HIDE DEF a
    <2> QED BY <1>2, <1>3, SeqEqual
  <1> QED BY <1>1, <1>4

\* What PES finds in a report and in a goodbye.
LEMMA HayESTADISTICAS ==
  ASSUME TypeOK, InvCanales, NEW o \in Rangos, Probe(o, PES, "ESTADISTICAS")
  PROVE  /\ Empezado /\ o \in PGs /\ fase[o] = "bucle" /\ canal[PES][o] = <<>>
         /\ Informe(canal[o][PES]) /\ canal[o][PES] = <<canal[o][PES][1]>> /\ canal[o][PES][1] \in Mensajes
         /\ TrasRecv(o, PES, "ESTADISTICAS") = Con(canal, o, PES, <<>>)
         /\ Recibido(o, PES, "ESTADISTICAS") = canal[o][PES][1]
  <1>1. Tipado /\ PES \in Rangos
    BY TipoDeCanal, Roles
  <1>2. canal[o][PES] # <<>> /\ Head(canal[o][PES]).tag = "ESTADISTICAS" /\ canal[o][PES] \in Seq(Mensajes)
    BY <1>1 DEF Probe, Delante, Tipado
  <1>3. o \in Trabajadores
    <2>1. ~Mudo(o, PES)
      BY <1>1, <1>2 DEF InvCanales
    <2> QED BY <2>1, Roles DEF Mudo
  <1>4. Empezado /\ (o \in PGs => CanalesPG(o)) /\ (o \notin PGs => CanalesOtro(o))
    BY <1>1, <1>2, <1>3, YaEmpezado, Roles
  <1>5. canal[o][PES] \notin {<<>>, <<Ultimo>>}
    BY <1>2, Cartas, Unas
  <1>6. o \in PGs
    BY <1>4, <1>5 DEF CanalesOtro
  <1>7. fase[o] = "bucle" /\ canal[PES][o] = <<>> /\ Informe(canal[o][PES])
    BY <1>4, <1>5, <1>6 DEF CanalesPG
  <1>8. canal[o][PES] = <<canal[o][PES][1]>> /\ canal[o][PES][1] \in Mensajes
    BY <1>2, <1>7, UnaSola DEF Informe
  <1> DEFINE m == canal[o][PES][1]
  <1>9. m \in Mensajes /\ m.tag = "ESTADISTICAS" /\ canal[o][PES] = <<m>>
    BY <1>7, <1>8 DEF Informe
  <1> HIDE DEF m
  <1>10. TrasRecv(o, PES, "ESTADISTICAS") = Con(canal, o, PES, <<>>) /\ Recibido(o, PES, "ESTADISTICAS") = m
    BY <1>1, <1>9, RecibeUno
  <1> QED BY <1>4, <1>6, <1>7, <1>8, <1>10 DEF m

LEMMA HayFINAL ==
  ASSUME TypeOK, InvCanales, NEW o \in Rangos, Probe(o, PES, "FINAL")
  PROVE  /\ Empezado /\ o \in Trabajadores /\ fase[o] = "fin" /\ canal[o][PES] = <<Ultimo>>
         /\ TrasRecv(o, PES, "FINAL") = Con(canal, o, PES, <<>>)
         /\ (o \in PGs => CanalesPG(o)) /\ (o \notin PGs => CanalesOtro(o))
  <1>1. Tipado /\ PES \in Rangos
    BY TipoDeCanal, Roles
  <1>2. canal[o][PES] # <<>> /\ Head(canal[o][PES]).tag = "FINAL" /\ canal[o][PES] \in Seq(Mensajes)
    BY <1>1 DEF Probe, Delante, Tipado
  <1>3. o \in Trabajadores
    <2>1. ~Mudo(o, PES)
      BY <1>1, <1>2 DEF InvCanales
    <2> QED BY <2>1, Roles DEF Mudo
  <1>4. Empezado /\ (o \in PGs => CanalesPG(o)) /\ (o \notin PGs => CanalesOtro(o))
    BY <1>1, <1>2, <1>3, YaEmpezado, Roles
  <1>5. ~Informe(canal[o][PES])
    <2>1. canal[o][PES][1] = Head(canal[o][PES])
      BY <1>2, Frente
    <2> QED BY <1>2, <2>1 DEF Informe
  <1>6. fase[o] = "fin" /\ canal[o][PES] = <<Ultimo>>
    BY <1>2, <1>4, <1>5 DEF CanalesPG, CanalesOtro
  <1>7. TrasRecv(o, PES, "FINAL") = Con(canal, o, PES, <<>>)
    <2>1. Ultimo \in Mensajes /\ Ultimo.tag = "FINAL"
      BY Cartas
    <2> QED BY <1>1, <1>6, <2>1, RecibeUno
  <1> QED BY <1>3, <1>4, <1>6, <1>7

LEMMA OrdenesFinal ==
  ASSUME IInv, NEW o \in Rangos, PESFinal(o)
  PROVE  Ordenes' /\ InvSesiones' /\ canal' \in Redes /\ Quietos
  <1>1. TypeOK /\ InvCanales /\ canal \in Redes /\ Probe(o, PES, "FINAL")
    BY EnRedes DEF IInv, PESFinal
  <1>2. /\ Empezado /\ o \in Trabajadores /\ fase[o] = "fin" /\ canal[o][PES] = <<Ultimo>>
        /\ TrasRecv(o, PES, "FINAL") = Con(canal, o, PES, <<>>)
        /\ (o \in PGs => CanalesPG(o)) /\ (o \notin PGs => CanalesOtro(o))
    BY <1>1, HayFINAL
  <1>3. PES \in Rangos /\ o # PES /\ \A r \in Trabajadores : r \in Rangos /\ r # PES
    BY <1>2, Roles
  <1> DEFINE v == <<>>
  <1>4. v \in Seq(Mensajes)
    BY VaciaTipo
  <1>5. canal' = Con(canal, o, PES, v)
    BY <1>2 DEF PESFinal
  <1> HIDE DEF v
  <1>6. /\ canal' \in Redes
        /\ \A e, f \in Rangos : canal'[e][f] = IF e = o /\ f = PES THEN v ELSE canal[e][f]
    <2>1. /\ Con(canal, o, PES, v) \in Redes
          /\ \A e, f \in Rangos : Con(canal, o, PES, v)[e][f] = IF e = o /\ f = PES THEN v ELSE canal[e][f]
      BY <1>1, <1>3, <1>4, Pone
    <2> QED BY <1>5, <2>1
  <1>7. /\ fase \in [Rangos -> Fases] /\ fase[PES] = "bucle" /\ statsRecv' = statsRecv + 1
        /\ fase' = [fase EXCEPT ![PES] = IF Sigue(numRemaining, statsRecv + 1) THEN "bucle" ELSE "fin"]
        /\ UNCHANGED <<modo, arrayNumeros, nextNumber, numRemaining, contadorFinalizados, recibidas, pg, pa>>
    BY <1>1 DEF PESFinal, TypeOK
  <1>8. Ajenos(o) /\ MudosIgual /\ fase'[PES] \in {"bucle", "fin"} /\ fase'[o] = "fin"
    <2>1. MudosIgual
      BY <1>2, <1>6 DEF MudosIgual, Mudo
    <2>2. Ajenos(o)
      BY <1>3, <1>6, <1>7 DEF Ajenos, pg
    <2> QED BY <1>2, <1>3, <1>7, <2>1, <2>2
  <1>9. canal'[o][PES] = <<>> /\ canal'[PES][o] = canal[PES][o]
    BY <1>3, <1>6 DEF v
  <1>10. o \in PGs => CanalesPG(o)' /\ \A j \in Indices : Lleva(o, j)' <=> Lleva(o, j)
    <2> SUFFICES ASSUME o \in PGs
                 PROVE  CanalesPG(o)' /\ \A j \in Indices : Lleva(o, j)' <=> Lleva(o, j)
      OBVIOUS
    <2>1. CanalesPG(o)'
      BY <1>2, <1>8, <1>9 DEF CanalesPG
    <2>2. ASSUME NEW j \in Indices PROVE Lleva(o, j)' <=> Lleva(o, j)
      <3>1. ~\E n \in DOMAIN <<>> : <<>>[n].tag = "ESTADISTICAS"
        BY Unas
      <3>2. ~\E n \in DOMAIN <<Ultimo>> : <<Ultimo>>[n].tag = "ESTADISTICAS"
        BY Cartas, Unas
      <3> QED BY <1>2, <1>8, <1>9, <3>1, <3>2 DEF Lleva
    <2> QED BY <2>1, <2>2
  <1>11. o \notin PGs => CanalesOtro(o)'
    BY <1>2, <1>8, <1>9 DEF CanalesOtro
  <1>12. Cerrado /\ Avisado(o)'
    BY <1>2, <1>8 DEF Cerrado, Avisado
  <1>13. statsRecv' + Cardinality(PorAcabar') = Cardinality(Trabajadores)
    <2>1. PorAcabar' = PorAcabar \ {o} /\ o \in PorAcabar
      <3>1. \A q \in Trabajadores \ {o} : (fase'[q] # "fin" \/ canal'[q][PES] # <<>>)
                                           <=> (fase[q] # "fin" \/ canal[q][PES] # <<>>)
        BY <1>8 DEF Ajenos
      <3>2. canal[o][PES] # <<>>
        BY <1>2, Unas
      <3> QED BY <1>2, <1>8, <1>9, <3>1, <3>2 DEF PorAcabar
    <2>2. IsFiniteSet(PorAcabar)
      <3>1. PorAcabar \subseteq Trabajadores
        BY DEF PorAcabar
      <3> QED BY <3>1, RolesFinitos, FS_Subset
    <2>3. Cardinality(PorAcabar') = Cardinality(PorAcabar) - 1 /\ Cardinality(PorAcabar) \in Nat
      BY <2>1, <2>2, FS_RemoveElement, FS_CardinalityType
    <2>4. statsRecv + Cardinality(PorAcabar) = Cardinality(Trabajadores) /\ statsRecv \in Nat
      BY RolesFinitos DEF IInv, InvCuentas, TypeOK
    <2> QED BY <1>7, <2>3, <2>4
  <1>14. Ordenes' /\ Quietos
    BY <1>2, <1>7, <1>8, <1>10, <1>11, <1>12, <1>13, PasoUnico DEF IInv, Ordenes
  <1>15. InvSesiones'
    <2>1. \A p \in PGs : fase'[p] = fase[p]
      BY <1>3, <1>7, Roles
    <2>2. \A p \in PGs, a \in PAs : canal'[p][a] = canal[p][a] /\ canal'[a][p] = canal[a][p]
      BY <1>3, <1>6, Roles
    <2>3. UNCHANGED <<pg, pa, arrayNumeros>>
      BY <1>7
    <2> QED BY <2>1, <2>2, <2>3, SesionesIgual DEF IInv
  <1> QED BY <1>6, <1>14, <1>15
\* The first messages to d, and what the step leaves on every channel.
Primeros(d) == IF d \in 1..PGReal THEN <<Msj("NOTIFICAR", d)>> ELSE <<>>

LEMMA PrimerosTipo ==
  ASSUME NEW d \in Trabajadores
  PROVE  /\ Primeros(d) \in Encargos /\ (d \notin PGs => Primeros(d) = <<>>)
         /\ Primeros(d) \in Seq(Mensajes) /\ ~Tiene(Primeros(d), "FINALIZACION")
         /\ \A j : Contiene(Primeros(d), Msj("NOTIFICAR", j)) <=> d \in 1..PGReal /\ j = d
  <1>1. CASE d \in 1..PGReal
    <2>1. d \in Indices /\ d \in PGs
      BY <1>1, PGRealTipo DEF Indices
    <2> DEFINE m == Msj("NOTIFICAR", d)
               n(j) == Msj("NOTIFICAR", j)
    <2>2. Primeros(d) = <<m>>
      BY <1>1 DEF Primeros
    <2>3. Primeros(d) \in Encargos
      BY <2>1, <2>2 DEF Encargos
    <2>4. m.tag = "NOTIFICAR" /\ m \in Mensajes /\ \A j : n(j) = m <=> j = d
      BY <2>1, Iniciales, MsjIguales
    <2> HIDE DEF m, n
    <2>5. ~Tiene(<<m>>, "FINALIZACION")
      BY <2>4, ContieneCortas
    <2>6. \A j : Contiene(<<m>>, n(j)) <=> m = n(j)
      BY ContieneCortas
    <2>7. <<m>> \in Seq(Mensajes)
      BY <2>4
    <2> QED BY <1>1, <2>1, <2>2, <2>3, <2>4, <2>5, <2>6, <2>7 DEF n
  <1>2. CASE d \notin 1..PGReal
    <2>1. Primeros(d) = <<>>
      BY <1>2 DEF Primeros
    <2>2. \A m : ~Contiene(<<>>, m) /\ ~Tiene(<<>>, m)
      BY ContieneCortas
    <2> QED BY <1>2, <2>1, <2>2, VaciaTipo DEF Encargos
  <1> QED BY <1>1, <1>2

LEMMA EfectoRepartir ==
  ASSUME IInv, PESRepartir
  PROVE  /\ canal' \in Redes /\ ~Empezado /\ Empezado' /\ fase'[PES] = "bucle"
         /\ \A r \in Trabajadores : fase[r] = "id" /\ fase'[r] = "id"
         /\ \A r \in Trabajadores : canal'[PES][r] = Previos(r)' \o Primeros(r)
         /\ \A o, d \in Rangos : canal[o][d] = <<>> /\ (o # PES \/ d = PES => canal'[o][d] = <<>>)
  <1>1. TypeOK /\ InvCanales /\ fase[PES] = "inicio" /\ PES \in Rangos
    BY Roles DEF IInv, PESRepartir
  <1>2. ~Empezado /\ (\A r \in Trabajadores : fase[r] = "id") /\ \A o, d \in Rangos : canal[o][d] = <<>>
    BY <1>1 DEF Empezado, InvCanales
  <1>3. fase' = [fase EXCEPT ![PES] = "bucle"] /\ fase \in [Rangos -> Fases]
    BY <1>1 DEF PESRepartir, TypeOK
  <1>4. Empezado' /\ fase'[PES] = "bucle" /\ \A r \in Trabajadores : fase'[r] = "id"
    BY <1>1, <1>2, <1>3, Roles DEF Empezado
  <1> DEFINE T(d) == <<Msj("ID", d)>>
                        \o (IF d \in PGs THEN <<Msj("INFOPAS", PACount)>> ELSE <<>>)
                        \o (IF d \in 1..PGReal THEN <<Msj("NOTIFICAR", d)>> ELSE <<>>)
  <1>5. canal' = [o \in Rangos |-> [d \in Rangos |-> IF o # PES \/ d = PES THEN <<>> ELSE T(d)]]
    BY DEF PESRepartir
  <1>6. ASSUME NEW r \in Trabajadores
        PROVE  T(r) = Previos(r)' \o Primeros(r) /\ T(r) \in Seq(Mensajes)
    <2> DEFINE a == Msj("ID", r)
               b == Msj("INFOPAS", PACount)
               x == Primeros(r)
    <2>1. a \in Mensajes /\ b \in Mensajes /\ x \in Seq(Mensajes) /\ (r \notin PGs => x = <<>>)
      <3>1. r \in Nat
        BY Roles
      <3> QED BY <3>1, Iniciales, PrimerosTipo
    <2>2. T(r) = <<a>> \o (IF r \in PGs THEN <<b>> ELSE <<>>) \o x
      BY DEF Primeros
    <2>3. Previos(r)' = IF r \in PGs THEN <<a, b>> ELSE <<a>>
      BY <1>4 DEF Previos
    <2> DEFINE t == T(r)
               y == Previos(r)'
    <2>4. t = <<a>> \o (IF r \in PGs THEN <<b>> ELSE <<>>) \o x /\ y = IF r \in PGs THEN <<a, b>> ELSE <<a>>
      BY <2>2, <2>3
    <2> HIDE DEF a, b, x, t, y
    <2>5. t = y \o x
      <3>1. CASE r \in PGs
        <4>1. t = <<a>> \o <<b>> \o x /\ y = <<a, b>>
          BY <2>4, <3>1
        <4>2. <<a, b>> = <<a>> \o <<b>>
          BY <2>1, Asocia
        <4> QED BY <4>1, <4>2
      <3>2. CASE r \notin PGs
        <4>1. t = <<a>> \o <<>> \o x /\ y = <<a>>
          BY <2>4, <3>2
        <4>2. <<a>> \o <<>> = <<a>>
          <5>1. <<a>> \in Seq(Mensajes)
            BY <2>1
          <5> QED BY <5>1, ConcatEmptySeq
        <4> QED BY <4>1, <4>2
      <3> QED BY <3>1, <3>2
    <2>6. y \in Seq(Mensajes)
      BY <2>1, <2>4
    <2>7. y \o x \in Seq(Mensajes)
      BY <2>1, <2>6, ConcatProperties
    <2> QED BY <2>5, <2>7 DEF t, y, x
  <1> HIDE DEF T
  <1>7. canal' \in Redes
    <2>1. \A d \in Rangos : d # PES => T(d) \in Seq(Mensajes)
      BY <1>6, Roles
    <2> QED BY <1>5, <2>1, VaciaTipo DEF Redes
  <1>8. \A r \in Trabajadores : canal'[PES][r] = T(r)
    <2>1. \A r \in Trabajadores : r \in Rangos /\ r # PES
      BY Roles
    <2> QED BY <1>1, <1>5, <2>1
  <1>9. \A o, d \in Rangos : canal[o][d] = <<>> /\ (o # PES \/ d = PES => canal'[o][d] = <<>>)
    BY <1>2, <1>5
  <1> QED BY <1>2, <1>4, <1>6, <1>7, <1>8, <1>9

LEMMA OrdenesRepartir ==
  ASSUME IInv, PESRepartir
  PROVE  Ordenes' /\ InvSesiones' /\ canal' \in Redes
  <1>1. /\ canal' \in Redes /\ ~Empezado /\ Empezado' /\ fase'[PES] = "bucle"
        /\ \A r \in Trabajadores : fase[r] = "id" /\ fase'[r] = "id"
        /\ \A r \in Trabajadores : canal'[PES][r] = Previos(r)' \o Primeros(r)
        /\ \A o, d \in Rangos : canal[o][d] = <<>> /\ (o # PES \/ d = PES => canal'[o][d] = <<>>)
    BY EfectoRepartir
  <1>2. /\ PES \in Rangos /\ \A r \in Trabajadores : r \in Rangos /\ r # PES
        /\ PGs \subseteq Trabajadores /\ PAs \cup PIs \subseteq Trabajadores
        /\ \A r \in PAs \cup PIs : r \notin PGs
    BY Roles
  <1>3. nextNumber' = PGReal /\ UNCHANGED <<arrayNumeros, numRemaining, contadorFinalizados, statsRecv, recibidas, pg, pa>>
    BY DEF PESRepartir
  <1>4. ASSUME NEW p \in PGs PROVE CanalesPG(p)'
    <2>1. Primeros(p) \in Encargos /\ canal'[PES][p] = Previos(p)' \o Primeros(p)
      BY <1>1, <1>2, PrimerosTipo
    <2>2. canal'[p][PES] = <<>> /\ fase'[p] = "id"
      BY <1>1, <1>2
    <2> QED BY <2>1, <2>2 DEF CanalesPG, Encargos, Fin, Msj
  <1>5. ASSUME NEW r \in PAs \cup PIs PROVE CanalesOtro(r)'
    <2>1. Primeros(r) = <<>> /\ canal'[PES][r] = Previos(r)' \o Primeros(r)
      BY <1>1, <1>2, PrimerosTipo
    <2>2. canal'[r][PES] = <<>> /\ fase'[r] = "id"
      BY <1>1, <1>2
    <2> QED BY <2>1, <2>2 DEF CanalesOtro
  <1>6. InvCanales'
    <2>1. ASSUME NEW o \in Rangos, NEW d \in Rangos, Mudo(o, d) PROVE canal'[o][d] = <<>>
      <3>1. o # PES \/ d = PES
        <4>1. d # PES => d \in Trabajadores
          BY DEF Rangos
        <4> QED BY <2>1, <4>1 DEF Mudo
      <3> QED BY <1>1, <3>1
    <2>2. \A o, d : Mudo(o, d)' <=> Mudo(o, d)
      BY DEF Mudo
    <2> QED BY <1>1, <1>4, <1>5, <2>1, <2>2 DEF InvCanales
  <1>7. ASSUME NEW p \in PGs, NEW j \in Indices
        PROVE  ~Lleva(p, j) /\ (Lleva(p, j)' <=> p \in 1..PGReal /\ j = p)
    <2>1. canal[PES][p] = <<>> /\ canal[p][PES] = <<>> /\ canal'[p][PES] = <<>> /\ fase[p] = "id" /\ fase'[p] = "id"
          /\ canal'[PES][p] = Previos(p)' \o Primeros(p)
      BY <1>1, <1>2
    <2>2. ~\E n \in DOMAIN <<>> : <<>>[n].tag = "ESTADISTICAS"
      BY Unas
    <2> DEFINE n == Msj("NOTIFICAR", j)
               s == canal'[PES][p]
    <2>3. ~Contiene(<<>>, n)
      BY ContieneCortas
    <2>4. Contiene(s, n) <=> p \in 1..PGReal /\ j = p
      <3> DEFINE x == Primeros(p)
                 y == Previos(p)'
                 z == <<Msj("ID", p), Msj("INFOPAS", PACount)>>
      <3>1. y = z
        BY <2>1 DEF Previos
      <3>2. x \in Seq(Mensajes) /\ (Contiene(x, n) <=> p \in 1..PGReal /\ j = p)
        BY <1>2, PrimerosTipo
      <3>3. Previos(p) = z
        BY <2>1 DEF Previos
      <3>4. Contiene(Previos(p) \o x, n) <=> Contiene(x, n)
        <4> HIDE DEF x
        <4> QED BY <1>2, <3>2, PreviosNada
      <3>5. s = y \o x
        BY <2>1
      <3> HIDE DEF s, x, y, z, n
      <3> QED BY <3>1, <3>2, <3>3, <3>4, <3>5
    <2>5. ~Lleva(p, j)
      BY <2>1, <2>2, <2>3 DEF Lleva, Contiene
    <2>6. Lleva(p, j)' <=> Contiene(s, n)
      BY <2>1, <2>2 DEF Lleva, Contiene
    <2> QED BY <2>4, <2>5, <2>6
  <1>8. PGReal \in 1..PGCount /\ PGReal \in 1..TOTALNUM /\ 1..PGReal \subseteq PGs
    BY PGRealTipo
  <1>9. Activos = {} /\ Activos' = 1..PGReal
    <2>1. Activos = {}
      BY <1>7 DEF Activos
    <2>2. \A p \in 1..PGReal : p \in PGs /\ p \in Indices
      BY <1>8 DEF Indices
    <2> QED BY <1>7, <2>1, <2>2 DEF Activos
  <1>10. Len(recibidas) = 0 /\ recibidas = <<>>
    <2>1. Len(recibidas) + Cardinality(Activos) = nextNumber /\ nextNumber = 0
      BY <1>1 DEF IInv, InvCuentas
    <2>2. Cardinality(Activos) = 0
      BY <1>9, FS_EmptySet
    <2>3. recibidas \in Seq([numero : Indices, pg : PGs, respuestas : Nat])
      BY DEF IInv, TypeOK
    <2>4. Len(recibidas) \in Nat
      BY <2>3
    <2>5. Len(recibidas) = 0
      BY <2>1, <2>2, <2>4
    <2> QED BY <2>3, <2>5
  <1>11. DOMAIN recibidas' = {} /\ Resueltos' = {}
    BY <1>3, <1>10, Unas DEF Resueltos
  <1>12. InvNumeros'
    <2>1. \A p, q \in PGs : \A j \in Indices : Lleva(p, j)' /\ Lleva(q, j)' => p = q
      BY <1>7
    <2>2. \A p \in PGs : \A j, l \in Indices : Lleva(p, j)' /\ Lleva(p, l)' => j = l
      BY <1>7
    <2>3. \A p \in PGs : \A j \in Indices : Lleva(p, j)' => j <= nextNumber' /\ j \notin Resueltos'
      BY <1>3, <1>7, <1>8, <1>11
    <2>4. ASSUME NEW j \in Indices, j <= nextNumber' PROVE \E p \in PGs : Lleva(p, j)'
      <3>1. j \in 1..PGReal
        BY <1>3, <1>8, <2>4 DEF Indices
      <3> QED BY <1>7, <1>8, <3>1
    <2> QED BY <1>9, <1>11, <2>1, <2>2, <2>3, <2>4 DEF InvNumeros, PGReal
  <1>13. ~Cerrado'
    <2> SUFFICES ASSUME NEW r \in Trabajadores PROVE fase'[r] # "fin" /\ ~Hay(PES, r, "FINALIZACION")'
      BY DEF Cerrado
    <2> DEFINE x == Primeros(r)
               y == Previos(r)'
               z == IF r \in PGs THEN <<Msj("ID", r), Msj("INFOPAS", PACount)>> ELSE <<Msj("ID", r)>>
               s == canal'[PES][r]
    <2>1. fase[r] = "id" /\ fase'[r] = "id" /\ s = y \o x
      BY <1>1
    <2>2. y = z /\ Previos(r) = z
      BY <2>1 DEF Previos
    <2>3. x \in Seq(Mensajes) /\ ~Tiene(x, "FINALIZACION")
      BY PrimerosTipo
    <2>4. Tiene(Previos(r) \o x, "FINALIZACION") <=> Tiene(x, "FINALIZACION")
      <3> HIDE DEF x
      <3> QED BY <2>3, PreviosNada
    <2>5. ~Tiene(s, "FINALIZACION")
      <3> HIDE DEF s, x, y, z
      <3> QED BY <2>1, <2>2, <2>3, <2>4
    <2> QED BY <2>1, <2>5 DEF Hay, Tiene
  <1>14. InvCuentas'
    <2>1. Cardinality(Activos') = PGReal
      <3>1. Cardinality(1..PGReal) = PGReal
        <4>1. 1 \in Int /\ PGReal \in Int /\ 1 <= PGReal
          BY <1>8
        <4>2. Cardinality(1..PGReal) = IF 1 > PGReal THEN 0 ELSE PGReal - 1 + 1
          BY <4>1, FS_Interval
        <4> QED BY <4>1, <4>2
      <3> QED BY <1>9, <3>1
    <2>2. contadorFinalizados = 0 /\ numRemaining + Len(recibidas) = TOTALNUM
          /\ statsRecv + Cardinality(PorAcabar) = Cardinality(Trabajadores)
      BY <1>1 DEF IInv, InvCuentas
    <2>3. PorAcabar' = PorAcabar
      BY <1>1 DEF PorAcabar
    <2>4. PGReal' = PGReal /\ Trabajadores' = Trabajadores
      BY DEF PGReal, Trabajadores
    <2>5. PGReal \in Nat
      BY <1>8
    <2> QED BY <1>1, <1>3, <1>10, <1>13, <2>1, <2>2, <2>3, <2>4, <2>5 DEF InvCuentas
  <1>15. PreguntasAcotadas'
    BY <1>11 DEF PreguntasAcotadas
  <1>16. InvSesiones'
    <2>1. \A p \in PGs : fase'[p] = fase[p]
      BY <1>1, <1>2
    <2>2. \A p \in PGs, a \in PAs : canal'[p][a] = canal[p][a] /\ canal'[a][p] = canal[a][p]
      <3>1. \A p \in PGs, a \in PAs : p \in Rangos /\ a \in Rangos /\ p # PES /\ a # PES
        BY Roles
      <3> QED BY <1>1, <3>1
    <2> QED BY <1>3, <2>1, <2>2, SesionesIgual DEF IInv
  <1> QED BY <1>1, <1>6, <1>12, <1>14, <1>15, <1>16 DEF Ordenes
LEMMA FinalesTipo ==
  ASSUME NEW d \in Rangos
  PROVE  /\ Finales(d) \in {<<>>, <<Fin>>, <<Fin, Fin>>} /\ Finales(d) \in Seq(Mensajes)
         /\ (d = PES => Finales(d) = <<>>)
         /\ (d \in PAs \cup PIs => Finales(d) = <<Fin>>)
         /\ \A j : ~Contiene(Finales(d), Msj("NOTIFICAR", j))
  <1> DEFINE f == <<Fin>>
             x == IF d \in 1..(PGCount - 1) \cup PIs \cup PAs THEN f ELSE <<>>
             y == IF d \in PGReal..PGCount THEN f ELSE <<>>
  <1>1. Finales(d) = x \o y
    BY DEF Finales, Fin
  <1>2. f \in Seq(Mensajes) /\ Fin \in Mensajes
    <2>1. Fin \in Mensajes
      BY Cartas
    <2> QED BY <2>1
  <1>3. d = PES => d \notin 1..(PGCount - 1) \cup PIs \cup PAs /\ d \notin PGReal..PGCount
    <2>1. PGReal \in 1..PGCount /\ 0 \notin 1..(PGCount - 1) /\ PES = 0
      BY PGRealTipo DEF PES
    <2>2. 0 \notin PGReal..PGCount
      BY <2>1
    <2> QED BY <2>1, <2>2, Roles
  <1>4. d \in PAs \cup PIs => d \notin PGReal..PGCount
    <2>1. PGReal \in 1..PGCount
      BY PGRealTipo
    <2>2. ASSUME d \in PGReal..PGCount PROVE d \in PGs
      BY <2>1, <2>2 DEF PGs
    <2> QED BY <2>2, Roles
  <1>5. x \in {<<>>, f} /\ y \in {<<>>, f} /\ (d = PES => x = <<>> /\ y = <<>>)
        /\ (d \in PAs \cup PIs => x = f /\ y = <<>>)
    BY <1>3, <1>4
  <1> HIDE DEF x, y
  <1>6. f \o f = <<Fin, Fin>> /\ f \o <<>> = f /\ <<>> \o f = f /\ <<>> \o <<>> = <<>>
    <2>1. f \o f = <<Fin, Fin>>
      BY <1>2, Asocia
    <2> HIDE DEF f
    <2>2. f \o <<>> = f /\ <<>> \o f = f
      BY <1>2, ConcatEmptySeq
    <2>3. <<>> \o <<>> = <<>>
      BY VaciaTipo, ConcatEmptySeq
    <2> QED BY <2>1, <2>2, <2>3
  <1>7. Finales(d) \in {<<>>, f, <<Fin, Fin>>} /\ (d = PES => Finales(d) = <<>>)
        /\ (d \in PAs \cup PIs => Finales(d) = f)
    <2> HIDE DEF f
    <2> QED BY <1>1, <1>5, <1>6
  <1>8. Finales(d) \in Encargos
    BY <1>7 DEF Encargos
  <1>9. Finales(d) \in Seq(Mensajes)
    BY <1>8, EncargosTipo
  <1>10. \A j : ~Contiene(Finales(d), Msj("NOTIFICAR", j))
    <2> SUFFICES ASSUME NEW j, Contiene(Finales(d), Msj("NOTIFICAR", j)) PROVE FALSE
      OBVIOUS
    <2> DEFINE m == Msj("NOTIFICAR", j)
    <2>1. Fin # m
      BY MsjIguales DEF Fin
    <2> HIDE DEF m
    <2>2. ~Contiene(<<>>, m) /\ ~Contiene(<<Fin>>, m) /\ ~Contiene(<<Fin, Fin>>, m)
      <3>1. Contiene(<<Fin>>, m) <=> Fin = m
        BY ContieneCortas
      <3>2. Contiene(<<Fin, Fin>>, m) <=> Fin = m \/ Fin = m
        BY ContieneCortas
      <3>3. ~Contiene(<<>>, m)
        BY ContieneCortas
      <3> QED BY <2>1, <3>1, <3>2, <3>3
    <2> QED BY <1>7, <2>2 DEF m
  <1> QED BY <1>7, <1>9, <1>10

Quedan == nextNumber < TOTALNUM
Todos == ~Quedan /\ contadorFinalizados + 1 = PGReal

\* The report m of o, collected, and the channels after it.
Colecta(o, m) ==
    /\ m = canal[o][PES][1] /\ m \in Mensajes /\ canal[o][PES] = <<m>> /\ canal[PES][o] = <<>>
    /\ m.tag = "ESTADISTICAS" /\ m.dato \in Indices /\ Logaritmica(m.respuestas)
    /\ recibidas' = Append(recibidas, [numero |-> m.dato, pg |-> o, respuestas |-> m.respuestas])
    /\ \A e, f \in Rangos :
         canal'[e][f] = IF e = o /\ f = PES THEN <<>>
                        ELSE IF e = PES /\ f = o /\ Quedan THEN <<Msj("NOTIFICAR", nextNumber + 1)>>
                        ELSE IF e = PES /\ Todos THEN canal[e][f] \o Finales(f)
                        ELSE canal[e][f]

LEMMA EfectoEstadisticas ==
  ASSUME IInv, NEW o \in Rangos, PESEstadisticas(o)
  PROVE  /\ canal' \in Redes /\ Empezado /\ o \in PGs /\ fase[o] = "bucle"
         /\ \E m : Colecta(o, m)
  <1>1. TypeOK /\ InvCanales /\ canal \in Redes /\ Probe(o, PES, "ESTADISTICAS")
    BY EnRedes DEF IInv, PESEstadisticas
  <1> DEFINE m == canal[o][PES][1]
  <1>2. /\ Empezado /\ o \in PGs /\ fase[o] = "bucle" /\ canal[PES][o] = <<>>
        /\ Informe(canal[o][PES]) /\ canal[o][PES] = <<m>> /\ m \in Mensajes
        /\ TrasRecv(o, PES, "ESTADISTICAS") = Con(canal, o, PES, <<>>)
        /\ Recibido(o, PES, "ESTADISTICAS") = m
    BY <1>1, HayESTADISTICAS
  <1>3. PES \in Rangos /\ o \in Rangos /\ o # PES /\ nextNumber \in Nat
    BY <1>1, <1>2, Roles DEF TypeOK
  <1> DEFINE v == <<>>
             c == Con(canal, o, PES, v)
             s == <<Msj("NOTIFICAR", nextNumber + 1)>>
  <1>4. v \in Seq(Mensajes) /\ (Quedan => s \in Seq(Mensajes))
    <2>1. Quedan => nextNumber + 1 \in Indices
      BY <1>3 DEF Quedan, Indices
    <2>2. Quedan => Msj("NOTIFICAR", nextNumber + 1) \in Mensajes
      BY <2>1, Iniciales
    <2> QED BY <2>2, VaciaTipo
  <1>5. /\ recibidas' = Append(recibidas, [numero |-> m.dato, pg |-> o, respuestas |-> m.respuestas])
        /\ canal' = [e \in Rangos |-> [d \in Rangos |->
                       c[e][d] \o (IF e = PES /\ d = o /\ Quedan THEN s
                                   ELSE IF e = PES /\ Todos THEN Finales(d) ELSE v)]]
    BY <1>2 DEF PESEstadisticas, Quedan, Todos
  <1> HIDE DEF v, s, m
  <1>6. c \in Redes /\ \A e, f \in Rangos : c[e][f] = IF e = o /\ f = PES THEN v ELSE canal[e][f]
    BY <1>1, <1>3, <1>4, Pone
  <1> HIDE DEF c
  <1>7. ASSUME NEW e \in Rangos, NEW f \in Rangos
        PROVE  /\ canal'[e][f] \in Seq(Mensajes)
               /\ canal'[e][f] = IF e = o /\ f = PES THEN v
                                 ELSE IF e = PES /\ f = o /\ Quedan THEN s
                                 ELSE IF e = PES /\ Todos THEN canal[e][f] \o Finales(f)
                                 ELSE canal[e][f]
    <2> DEFINE z == IF e = PES /\ f = o /\ Quedan THEN s
                    ELSE IF e = PES /\ Todos THEN Finales(f) ELSE v
    <2>1. canal'[e][f] = c[e][f] \o z
      BY <1>5
    <2>2. z \in Seq(Mensajes)
      BY <1>4, FinalesTipo
    <2>3. c[e][f] \in Seq(Mensajes) /\ canal[e][f] \in Seq(Mensajes)
      BY <1>1, <1>6 DEF Redes
    <2>4. c[e][f] = IF e = o /\ f = PES THEN v ELSE canal[e][f]
      BY <1>6
    <2>5. \A x \in Seq(Mensajes) : x \o <<>> = x /\ <<>> \o x = x
      BY ConcatEmptySeq
    <2>6. v = <<>> /\ canal[PES][o] = <<>>
      BY <1>2 DEF v
    <2>7. c[e][f] \o z \in Seq(Mensajes)
      BY <2>2, <2>3, ConcatProperties
    <2>8. CASE e = o /\ f = PES
      <3>1. z = v /\ c[e][f] = v
        BY <1>3, <2>4, <2>8
      <3> HIDE DEF z
      <3> QED BY <1>4, <2>1, <2>5, <2>6, <2>7, <2>8, <3>1
    <2>9. CASE e = PES /\ f = o /\ Quedan
      <3>1. z = s /\ c[e][f] = <<>>
        BY <1>3, <2>4, <2>6, <2>9
      <3> HIDE DEF z
      <3> QED BY <1>3, <1>4, <2>1, <2>5, <2>7, <2>9, <3>1
    <2>10. CASE ~(e = o /\ f = PES) /\ ~(e = PES /\ f = o /\ Quedan)
      <3>1. c[e][f] = canal[e][f] /\ z = IF e = PES /\ Todos THEN Finales(f) ELSE v
        BY <2>4, <2>10
      <3> HIDE DEF z
      <3> QED BY <2>1, <2>3, <2>5, <2>6, <2>7, <2>10, <3>1
    <2> QED BY <2>8, <2>9, <2>10
  <1>8. canal' \in Redes
    <2>1. \A e \in Rangos : canal'[e] = [f \in Rangos |-> canal'[e][f]]
      BY <1>5
    <2>2. canal' = [e \in Rangos |-> canal'[e]]
      BY <1>5
    <2> QED BY <1>7, <2>1, <2>2 DEF Redes
  <1>9. m.tag = "ESTADISTICAS" /\ m.dato \in Indices /\ Logaritmica(m.respuestas)
    BY <1>2 DEF Informe, m
  <1>10. \A e, f \in Rangos :
           canal'[e][f] = IF e = o /\ f = PES THEN <<>>
                          ELSE IF e = PES /\ f = o /\ Quedan THEN <<Msj("NOTIFICAR", nextNumber + 1)>>
                          ELSE IF e = PES /\ Todos THEN canal[e][f] \o Finales(f)
                          ELSE canal[e][f]
    BY <1>7 DEF v, s
  <1>11. m = canal[o][PES][1]
    BY DEF m
  <1>12. Colecta(o, m)
    BY <1>2, <1>5, <1>9, <1>10, <1>11 DEF Colecta
  <1> QED BY <1>2, <1>8, <1>12

\* Who holds no number and has not been told to finish has only its first messages to read.
LEMMA SinTarea ==
  ASSUME IInv, Empezado, ~Cerrado, NEW r \in Trabajadores,
         r \in PGs => \A l \in Indices : ~Lleva(r, l)
  PROVE  /\ fase[r] \in {"id", "infopas", "bucle"} /\ canal[PES][r] = Previos(r) /\ canal[r][PES] = <<>>
         /\ (r \notin PGs => fase[r] \in {"id", "bucle"})
  <1>1. fase[r] # "fin" /\ ~Tiene(canal[PES][r], "FINALIZACION")
    BY DEF Cerrado, Hay, Tiene
  <1>2. /\ Previos(r) \in Seq(Mensajes)
        /\ \A x \in Seq(Mensajes) : Tiene(Previos(r) \o x, "FINALIZACION") <=> Tiene(x, "FINALIZACION")
        /\ \A x \in Seq(Mensajes) : \A j : Contiene(Previos(r) \o x, Msj("NOTIFICAR", j)) <=> Contiene(x, Msj("NOTIFICAR", j))
    BY PreviosNada, VaciaTipo
  <1>3. Fin.tag = "FINALIZACION"
    BY Cartas
  <1>4. Tiene(<<Fin>>, "FINALIZACION") /\ Tiene(<<Fin, Fin>>, "FINALIZACION")
    <2>1. Tiene(<<Fin>>, "FINALIZACION") <=> Fin.tag = "FINALIZACION"
      BY ContieneCortas
    <2>2. Tiene(<<Fin, Fin>>, "FINALIZACION") <=> Fin.tag = "FINALIZACION" \/ Fin.tag = "FINALIZACION"
      BY ContieneCortas
    <2> QED BY <1>3, <2>1, <2>2
  <1>5. Previos(r) \o <<>> = Previos(r)
    BY <1>2, ConcatEmptySeq
  <1>6. CASE r \in PGs
    <2>1. CanalesPG(r)
      BY <1>6 DEF IInv, InvCanales
    <2>2. ~Informe(canal[r][PES])
      <3> SUFFICES ASSUME Informe(canal[r][PES]) PROVE FALSE
        OBVIOUS
      <3>1. 1 \in DOMAIN canal[r][PES]
        <4>1. canal[r][PES] \in Seq(Mensajes)
          <5>1. r \in Rangos /\ PES \in Rangos
            BY Roles
          <5> QED BY <5>1 DEF IInv, TypeOK
        <4> QED BY <4>1 DEF Informe
      <3>2. canal[r][PES][1].tag = "ESTADISTICAS" /\ canal[r][PES][1].dato \in Indices
        BY DEF Informe
      <3>3. Lleva(r, canal[r][PES][1].dato)
        BY <3>1, <3>2 DEF Lleva
      <3> QED BY <1>6, <3>2, <3>3
    <2>3. fase[r] \notin {"conecta", "adivina"}
      <3> SUFFICES ASSUME fase[r] \in {"conecta", "adivina"} PROVE FALSE
        OBVIOUS
      <3>1. numAAdivinar[r] \in Indices
        BY <2>1 DEF CanalesPG
      <3> QED BY <1>6, <3>1 DEF Lleva
    <2>4. /\ fase[r] \in {"id", "infopas", "bucle"} /\ canal[r][PES] = <<>>
          /\ \E x \in Encargos : canal[PES][r] = Previos(r) \o x
      BY <1>1, <2>1, <2>2, <2>3 DEF CanalesPG
    <2>5. PICK x \in Encargos : canal[PES][r] = Previos(r) \o x
      BY <2>4
    <2>6. x \in Seq(Mensajes) /\ ~Tiene(x, "FINALIZACION")
      BY <1>1, <1>2, <2>5, EncargosTipo
    <2>7. \A j \in Indices : x # <<Msj("NOTIFICAR", j)>>
      <3> SUFFICES ASSUME NEW j \in Indices, x = <<Msj("NOTIFICAR", j)>> PROVE FALSE
        OBVIOUS
      <3> DEFINE m == Msj("NOTIFICAR", j)
      <3>1. Contiene(<<m>>, m)
        <4> HIDE DEF m
        <4> QED BY ContieneCortas
      <3>2. Contiene(x, m)
        BY <3>1
      <3>3. Contiene(Previos(r) \o x, Msj("NOTIFICAR", j))
        BY <1>2, <2>6, <3>2
      <3>4. Lleva(r, j)
        BY <2>5, <3>3 DEF Lleva, Contiene
      <3> QED BY <1>6, <3>4
    <2>8. x = <<>>
      BY <1>4, <2>6, <2>7 DEF Encargos
    <2> QED BY <1>5, <1>6, <2>4, <2>5, <2>8
  <1>7. CASE r \notin PGs
    <2>1. CanalesOtro(r)
      BY <1>7 DEF IInv, InvCanales, Trabajadores
    <2>2. /\ fase[r] \in {"id", "bucle"} /\ canal[r][PES] = <<>>
          /\ \E x \in {<<>>, <<Fin>>} : canal[PES][r] = Previos(r) \o x
      BY <1>1, <2>1 DEF CanalesOtro
    <2>3. PICK x \in {<<>>, <<Fin>>} : canal[PES][r] = Previos(r) \o x
      BY <2>2
    <2>4. x = <<>>
      <3>1. <<Fin>> \in Seq(Mensajes)
        BY EncargosTipo DEF Encargos
      <3> QED BY <1>1, <1>2, <1>4, <2>3, <3>1
    <2> QED BY <1>5, <1>7, <2>2, <2>3, <2>4
  <1> QED BY <1>6, <1>7

LEMMA ActivosFinitos ==
  IsFiniteSet(Activos) /\ Cardinality(Activos) \in Nat
  <1>1. Activos \subseteq PGs
    BY DEF Activos
  <1> QED BY <1>1, RolesFinitos, FS_Subset, FS_CardinalityType

LEMMA LlevaEstadisticas ==
  ASSUME IInv, Empezado, NEW o \in PGs, fase[o] = "bucle", NEW m, Colecta(o, m),
         UNCHANGED pg, \A r \in Trabajadores : fase'[r] = fase[r]
  PROVE  /\ \A l \in Indices : Lleva(o, l) <=> l = m.dato
         /\ \A l \in Indices : Lleva(o, l)' <=> Quedan /\ l = nextNumber + 1
         /\ \A p \in PGs \ {o} : \A l \in Indices : Lleva(p, l)' <=> Lleva(p, l)
         /\ ~Cerrado
         /\ Todos => \A p \in PGs \ {o} : \A l \in Indices : ~Lleva(p, l)
  <1>1. /\ m.tag = "ESTADISTICAS" /\ m.dato \in Indices /\ canal[o][PES] = <<m>> /\ canal[PES][o] = <<>>
        /\ \A e, f \in Rangos :
             canal'[e][f] = IF e = o /\ f = PES THEN <<>>
                            ELSE IF e = PES /\ f = o /\ Quedan THEN <<Msj("NOTIFICAR", nextNumber + 1)>>
                            ELSE IF e = PES /\ Todos THEN canal[e][f] \o Finales(f)
                            ELSE canal[e][f]
    BY DEF Colecta
  <1>2. /\ PES \in Rangos /\ o # PES /\ PGs \subseteq Trabajadores
        /\ \A r \in Trabajadores : r \in Rangos /\ r # PES
    BY Roles
  <1>3. \A n : ~Contiene(<<>>, n) /\ ~\E i \in DOMAIN <<>> : <<>>[i].tag = "ESTADISTICAS"
    BY ContieneCortas, Unas
  <1>4. \A l \in Indices : Lleva(o, l) <=> l = m.dato
    <2>1. DOMAIN <<m>> = {1} /\ <<m>>[1] = m
      BY Unas
    <2> QED BY <1>1, <1>3, <2>1 DEF Lleva, Contiene
  <1>5. o \in Activos /\ Activos # {}
    BY <1>1, <1>4 DEF Activos
  <1>6. Cardinality(Activos) > 0
    BY <1>5, ActivosFinitos, FS_EmptySet
  <1>7. contadorFinalizados + Cardinality(Activos) = PGReal /\ contadorFinalizados \in Nat /\ PGReal \in Nat
    BY PGRealTipo DEF IInv, InvCuentas, TypeOK
  <1>8. ~Cerrado
    <2>1. contadorFinalizados # PGReal
      BY <1>6, <1>7, ActivosFinitos
    <2> QED BY <2>1 DEF IInv, InvCuentas
  <1>9. Todos => \A p \in PGs \ {o} : \A l \in Indices : ~Lleva(p, l)
    <2> SUFFICES ASSUME Todos PROVE \A p \in PGs \ {o} : \A l \in Indices : ~Lleva(p, l)
      OBVIOUS
    <2>1. Cardinality(Activos) = 1
      BY <1>7, ActivosFinitos DEF Todos
    <2>2. \E p : Activos = {p}
      BY <2>1, ActivosFinitos, FS_Singleton
    <2>3. Activos = {o}
      BY <1>5, <2>2
    <2> QED BY <2>3 DEF Activos
  <1>10. \A l \in Indices : Lleva(o, l)' <=> Quedan /\ l = nextNumber + 1
    <2> TAKE l \in Indices
    <2>1. canal'[o][PES] = <<>> /\ fase'[o] = "bucle"
      BY <1>1, <1>2
    <2> DEFINE n == Msj("NOTIFICAR", l)
    <2>2. Lleva(o, l)' <=> Contiene(canal'[PES][o], n)
      BY <1>3, <2>1 DEF Lleva, Contiene
    <2>3. CASE Quedan
      <3> DEFINE u == Msj("NOTIFICAR", nextNumber + 1)
      <3>1. canal'[PES][o] = <<u>>
        BY <1>1, <1>2, <2>3
      <3>2. u = n <=> l = nextNumber + 1
        BY MsjIguales
      <3> HIDE DEF u, n
      <3>3. Contiene(<<u>>, n) <=> u = n
        BY ContieneCortas
      <3> QED BY <2>2, <2>3, <3>1, <3>2, <3>3
    <2>4. CASE ~Quedan
      <3>1. canal'[PES][o] = IF Todos THEN <<>> \o Finales(o) ELSE <<>>
        BY <1>1, <1>2, <2>4
      <3>2. Finales(o) \in Seq(Mensajes) /\ ~Contiene(Finales(o), n)
        BY <1>2, FinalesTipo
      <3>3. <<>> \o Finales(o) = Finales(o)
        BY <3>2, ConcatEmptySeq
      <3>4. ~Contiene(canal'[PES][o], n)
        BY <1>3, <3>1, <3>2, <3>3
      <3> QED BY <2>2, <2>4, <3>4
    <2> QED BY <2>3, <2>4
  <1>11. ASSUME NEW p \in PGs \ {o}, NEW l \in Indices PROVE Lleva(p, l)' <=> Lleva(p, l)
    <2>1. /\ canal'[p][PES] = canal[p][PES] /\ fase'[p] = fase[p] /\ numAAdivinar' = numAAdivinar
          /\ canal'[PES][p] = IF Todos THEN canal[PES][p] \o Finales(p) ELSE canal[PES][p]
      BY <1>1, <1>2 DEF pg
    <2>2. CASE ~Todos
      BY <2>1, <2>2 DEF Lleva
    <2>3. CASE Todos
      <3>1. \A j \in Indices : ~Lleva(p, j)
        BY <1>9, <2>3
      <3>2. fase[p] \in {"id", "infopas", "bucle"} /\ canal[PES][p] = Previos(p) /\ canal[p][PES] = <<>>
        BY <1>2, <1>8, <3>1, SinTarea
      <3> DEFINE n == Msj("NOTIFICAR", l)
      <3>3. ~Contiene(canal'[PES][p], n)
        <4>1. Finales(p) \in Seq(Mensajes) /\ ~Contiene(Finales(p), n)
          BY <1>2, FinalesTipo
        <4>2. Contiene(Previos(p) \o Finales(p), n) <=> Contiene(Finales(p), n)
          BY <1>2, <4>1, PreviosNada
        <4>3. canal'[PES][p] = Previos(p) \o Finales(p)
          BY <2>1, <2>3, <3>2
        <4> HIDE DEF n
        <4> QED BY <4>1, <4>2, <4>3
      <3>4. ~Lleva(p, l)'
        BY <1>3, <2>1, <3>2, <3>3 DEF Lleva, Contiene
      <3> QED BY <3>1, <3>4
    <2> QED BY <2>2, <2>3
  <1> QED BY <1>4, <1>8, <1>9, <1>10, <1>11
-----------------------------------------------------------------------------
(* PES collects a report *)

LEMMA CanalesEstadisticas ==
  ASSUME IInv, Empezado, NEW o \in PGs, fase[o] = "bucle", NEW m, Colecta(o, m),
         UNCHANGED pg, \A r \in Trabajadores : fase'[r] = fase[r], fase'[PES] \in {"bucle", "fin"}
  PROVE  InvCanales'
  <1>1. /\ canal[PES][o] = <<>>
        /\ \A e, f \in Rangos :
             canal'[e][f] = IF e = o /\ f = PES THEN <<>>
                            ELSE IF e = PES /\ f = o /\ Quedan THEN <<Msj("NOTIFICAR", nextNumber + 1)>>
                            ELSE IF e = PES /\ Todos THEN canal[e][f] \o Finales(f)
                            ELSE canal[e][f]
    BY DEF Colecta
  <1>2. /\ PES \in Rangos /\ o # PES /\ PGs \subseteq Trabajadores
        /\ \A r \in Trabajadores : r \in Rangos /\ r # PES
    BY Roles
  <1>3. /\ ~Cerrado
        /\ Todos => \A p \in PGs \ {o} : \A l \in Indices : ~Lleva(p, l)
    BY LlevaEstadisticas
  <1>4. Empezado' /\ InvCanales /\ numAAdivinar' = numAAdivinar
    BY DEF Empezado, IInv, pg
  <1>5. ASSUME NEW e \in Rangos, NEW f \in Rangos, Mudo(e, f) PROVE canal'[e][f] = <<>>
    <2>1. canal[e][f] = <<>>
      BY <1>4, <1>5 DEF InvCanales
    <2>2. e = PES => f = PES
      BY <1>5, Roles DEF Mudo
    <2>3. ~(e = o /\ f = PES) /\ ~(e = PES /\ f = o)
      BY <1>2, <1>5, <2>2 DEF Mudo
    <2>4. e = PES => canal[e][f] \o Finales(f) = <<>>
      <3> SUFFICES ASSUME e = PES PROVE canal[e][f] \o Finales(f) = <<>>
        OBVIOUS
      <3>1. Finales(f) = <<>>
        BY <2>2, FinalesTipo
      <3>2. <<>> \o <<>> = <<>>
        BY VaciaTipo, ConcatEmptySeq
      <3> QED BY <2>1, <3>1, <3>2
    <2> QED BY <1>1, <2>1, <2>3, <2>4
  <1>6. CanalesPG(o)'
    <2>1. canal'[o][PES] = <<>> /\ fase'[o] = "bucle" /\ Previos(o)' = <<>>
      BY <1>1, <1>2 DEF Previos
    <2>2. \E x \in Encargos : canal'[PES][o] = x
      <3>1. CASE Quedan
        <4>1. nextNumber + 1 \in Indices
          BY <3>1 DEF Quedan, Indices, IInv, TypeOK
        <4> DEFINE x == <<Msj("NOTIFICAR", nextNumber + 1)>>
        <4>2. x \in Encargos
          BY <4>1 DEF Encargos
        <4>3. canal'[PES][o] = x
          BY <1>1, <1>2, <3>1
        <4> QED BY <4>2, <4>3
      <3>2. CASE ~Quedan /\ Todos
        <4>1. canal'[PES][o] = <<>> \o Finales(o)
          BY <1>1, <1>2, <3>2
        <4>2. Finales(o) \in Encargos /\ Finales(o) \in Seq(Mensajes)
          BY <1>2, FinalesTipo DEF Encargos
        <4>3. <<>> \o Finales(o) = Finales(o)
          BY <4>2, ConcatEmptySeq
        <4> QED BY <4>1, <4>2, <4>3
      <3>3. CASE ~Quedan /\ ~Todos
        <4>1. canal'[PES][o] = <<>>
          BY <1>1, <1>2, <3>3
        <4> QED BY <4>1 DEF Encargos
      <3> QED BY <3>1, <3>2, <3>3
    <2>3. PICK x \in Encargos : canal'[PES][o] = x
      BY <2>2
    <2>4. <<>> \o x = x
      BY EncargosTipo, ConcatEmptySeq
    <2>5. canal'[PES][o] = Previos(o)' \o x
      BY <2>1, <2>3, <2>4
    <2>6. Encargos' = Encargos
      BY DEF Encargos, Fin
    <2> QED BY <2>1, <2>5, <2>6 DEF CanalesPG
  <1>7. ASSUME NEW r \in Trabajadores \ {o}
        PROVE  /\ fase'[r] = fase[r] /\ canal'[r][PES] = canal[r][PES] /\ Previos(r)' = Previos(r)
               /\ canal'[PES][r] = IF Todos THEN canal[PES][r] \o Finales(r) ELSE canal[PES][r]
    BY <1>1, <1>2 DEF Previos
  <1>8. ASSUME Todos, NEW r \in Trabajadores \ {o}
        PROVE  /\ fase[r] \in {"id", "infopas", "bucle"} /\ (r \notin PGs => fase[r] \in {"id", "bucle"})
               /\ canal'[PES][r] = Previos(r)' \o Finales(r) /\ canal'[r][PES] = <<>>
    <2>1. r \in PGs => \A l \in Indices : ~Lleva(r, l)
      BY <1>3, <1>8
    <2>2. /\ fase[r] \in {"id", "infopas", "bucle"} /\ canal[PES][r] = Previos(r) /\ canal[r][PES] = <<>>
          /\ (r \notin PGs => fase[r] \in {"id", "bucle"})
      BY <1>3, <2>1, SinTarea
    <2> QED BY <1>7, <1>8, <2>2
  <1>9. ASSUME NEW p \in PGs \ {o} PROVE CanalesPG(p)'
    <2>1. p \in Trabajadores \ {o} /\ CanalesPG(p)
      BY <1>2, <1>4, <1>9 DEF InvCanales
    <2>2. CASE ~Todos
      BY <1>4, <1>7, <2>1, <2>2 DEF CanalesPG, Informe
    <2>3. CASE Todos
      <3>1. Finales(p) \in Encargos
        BY <1>2, FinalesTipo DEF Encargos
      <3>2. Encargos' = Encargos
        BY DEF Encargos, Fin
      <3> QED BY <1>7, <1>8, <2>1, <2>3, <3>1, <3>2 DEF CanalesPG
    <2> QED BY <2>2, <2>3
  <1>10. ASSUME NEW r \in PAs \cup PIs PROVE CanalesOtro(r)'
    <2>1. r \in Trabajadores \ {o} /\ r \notin PGs /\ CanalesOtro(r)
      BY <1>4, <1>10, Roles DEF InvCanales
    <2>2. CASE ~Todos
      BY <1>7, <2>1, <2>2 DEF CanalesOtro
    <2>3. CASE Todos
      <3>1. Finales(r) \in {<<>>, <<Fin>>}
        BY <1>2, <1>10, <2>1, FinalesTipo
      <3> QED BY <1>7, <1>8, <2>1, <2>3, <3>1 DEF CanalesOtro, Fin
    <2> QED BY <2>2, <2>3
  <1>11. \A e, f : Mudo(e, f)' <=> Mudo(e, f)
    BY DEF Mudo
  <1> QED BY <1>4, <1>5, <1>6, <1>9, <1>10, <1>11 DEF InvCanales
LEMMA NumerosEstadisticas ==
  ASSUME IInv, Empezado, NEW o \in PGs, fase[o] = "bucle", NEW m, Colecta(o, m),
         UNCHANGED pg, \A r \in Trabajadores : fase'[r] = fase[r],
         nextNumber' = IF Quedan THEN nextNumber + 1 ELSE nextNumber
  PROVE  /\ InvNumeros' /\ Len(recibidas') = Len(recibidas) + 1 /\ Resueltos' = Resueltos \cup {m.dato}
         /\ Activos' = IF Quedan THEN Activos ELSE Activos \ {o}
         /\ o \in Activos
         /\ \A n \in DOMAIN recibidas' : recibidas'[n] \in {recibidas[i] : i \in DOMAIN recibidas}
               \/ recibidas'[n] = [numero |-> m.dato, pg |-> o, respuestas |-> m.respuestas]
  <1> DEFINE g == [numero |-> m.dato, pg |-> o, respuestas |-> m.respuestas]
             S == Seq([numero : Indices, pg : PGs, respuestas : Nat])
  <1>1. g \in [numero : Indices, pg : PGs, respuestas : Nat] /\ g.numero = m.dato /\ recibidas \in S
    <2>1. m.dato \in Indices /\ m \in Mensajes
      BY DEF Colecta
    <2> QED BY <2>1 DEF IInv, TypeOK, Mensajes
  <1>2. recibidas' = Append(recibidas, g)
    BY DEF Colecta
  <1> DEFINE N == Len(recibidas)
  <1> HIDE DEF g
  <1>3. /\ N \in Nat /\ DOMAIN recibidas = 1..N /\ DOMAIN recibidas' = 1..(N + 1) /\ Len(recibidas') = N + 1
        /\ \A n \in 1..N : recibidas'[n] = recibidas[n]
        /\ recibidas'[N + 1] = g
    BY <1>1, <1>2
  <1>4. /\ \A l \in Indices : Lleva(o, l) <=> l = m.dato
        /\ \A l \in Indices : Lleva(o, l)' <=> Quedan /\ l = nextNumber + 1
        /\ \A p \in PGs \ {o} : \A l \in Indices : Lleva(p, l)' <=> Lleva(p, l)
    BY LlevaEstadisticas
  <1>5. /\ nextNumber \in 0..TOTALNUM /\ (Quedan => nextNumber + 1 \in Indices) /\ nextNumber' \in Nat
        /\ nextNumber <= nextNumber' /\ m.dato \in Indices /\ Indices \subseteq Nat
    <2>1. nextNumber \in 0..TOTALNUM
      BY DEF IInv, TypeOK
    <2>2. m.dato \in Indices
      BY DEF Colecta
    <2> QED BY <2>1, <2>2 DEF Quedan, Indices
  <1>6. Resueltos' = Resueltos \cup {m.dato}
    <2> HIDE DEF N
    <2>1. \A n \in DOMAIN recibidas' : n \in DOMAIN recibidas \/ n = N + 1
      BY <1>3
    <2>2. \A n \in DOMAIN recibidas : n \in DOMAIN recibidas' /\ recibidas'[n].numero = recibidas[n].numero
      BY <1>3
    <2>3. N + 1 \in DOMAIN recibidas' /\ recibidas'[N + 1].numero = m.dato
      BY <1>1, <1>3
    <2> QED BY <2>1, <2>2, <2>3 DEF Resueltos
  <1>7. InvNumeros
    BY DEF IInv
  <1>8. m.dato <= nextNumber /\ m.dato \notin Resueltos
    BY <1>4, <1>5, <1>7 DEF InvNumeros
  <1>9. \A p \in PGs : \A l \in Indices : Lleva(p, l) => l <= nextNumber /\ l \notin Resueltos
    BY <1>7 DEF InvNumeros
  <1>10. \A p \in PGs, q \in PGs : \A l \in Indices : Lleva(p, l)' /\ Lleva(q, l)' => p = q
    <2> SUFFICES ASSUME NEW p \in PGs, NEW q \in PGs, NEW l \in Indices, Lleva(p, l)', Lleva(q, l)', p # q
                 PROVE  FALSE
      OBVIOUS
    <2>1. \A r \in PGs \ {o} : Lleva(r, l)' => Lleva(r, l) /\ l <= nextNumber
      BY <1>4, <1>9
    <2>2. Lleva(o, l)' => ~(l <= nextNumber)
      BY <1>4, <1>5
    <2>3. p # o /\ q # o
      BY <2>1, <2>2
    <2>4. Lleva(p, l) /\ Lleva(q, l)
      BY <2>1, <2>3
    <2> QED BY <1>7, <2>4 DEF InvNumeros
  <1>11. \A p \in PGs : \A j \in Indices, l \in Indices : Lleva(p, j)' /\ Lleva(p, l)' => j = l
    BY <1>4, <1>7 DEF InvNumeros
  <1>12. \A p \in PGs : \A j \in Indices : Lleva(p, j)' => j <= nextNumber' /\ j \notin Resueltos'
    <2> SUFFICES ASSUME NEW p \in PGs, NEW j \in Indices, Lleva(p, j)'
                 PROVE  j <= nextNumber' /\ j \notin Resueltos'
      OBVIOUS
    <2>1. CASE p = o
      <3>1. Quedan /\ j = nextNumber + 1
        BY <1>4, <2>1
      <3>2. j \notin Resueltos
        <4> SUFFICES ASSUME j \in Resueltos PROVE FALSE
          OBVIOUS
        <4>1. PICK n \in DOMAIN recibidas : recibidas[n].numero = j
          BY DEF Resueltos
        <4>2. j <= nextNumber
          BY <1>7, <4>1 DEF InvNumeros
        <4> QED BY <1>5, <3>1, <4>2
      <3>3. j # m.dato
        BY <1>5, <1>8, <3>1
      <3> QED BY <1>5, <1>6, <3>1, <3>2, <3>3
    <2>2. CASE p # o
      <3>1. Lleva(p, j) /\ j <= nextNumber /\ j \notin Resueltos
        BY <1>4, <1>9, <2>2
      <3>2. j # m.dato
        BY <1>4, <1>5, <1>7, <2>2, <3>1 DEF InvNumeros
      <3> QED BY <1>5, <1>6, <3>1, <3>2
    <2> QED BY <2>1, <2>2
  <1>13. \A j \in Indices : j <= nextNumber' => j \in Resueltos' \/ \E p \in PGs : Lleva(p, j)'
    <2> SUFFICES ASSUME NEW j \in Indices, j <= nextNumber', j \notin Resueltos'
                 PROVE  \E p \in PGs : Lleva(p, j)'
      OBVIOUS
    <2>1. j \notin Resueltos /\ j # m.dato
      BY <1>6
    <2>2. CASE j <= nextNumber
      <3>1. PICK p \in PGs : Lleva(p, j)
        BY <1>7, <2>1, <2>2 DEF InvNumeros
      <3>2. p # o
        BY <1>4, <2>1, <3>1
      <3> QED BY <1>4, <3>1, <3>2
    <2>3. CASE ~(j <= nextNumber)
      <3>1. Quedan /\ j = nextNumber + 1
        BY <1>5, <2>3
      <3> QED BY <1>4, <3>1
    <2> QED BY <2>2, <2>3
  <1>14. \A n \in DOMAIN recibidas' : recibidas'[n].numero <= nextNumber'
    <2> SUFFICES ASSUME NEW n \in DOMAIN recibidas' PROVE recibidas'[n].numero <= nextNumber'
      OBVIOUS
    <2>1. CASE n \in 1..N
      <3>1. recibidas'[n].numero = recibidas[n].numero /\ recibidas[n].numero <= nextNumber
        BY <1>3, <1>7, <2>1 DEF InvNumeros
      <3>2. recibidas[n].numero \in Nat
        <4>1. recibidas[n] \in [numero : Indices, pg : PGs, respuestas : Nat]
          BY <1>1, <2>1, ElementOfSeq
        <4> QED BY <1>5, <4>1
      <3> QED BY <1>5, <3>1, <3>2
    <2>2. CASE n = N + 1
      <3>1. recibidas'[n].numero = m.dato /\ m.dato \in Nat
        BY <1>1, <1>3, <1>5, <2>2
      <3> QED BY <1>5, <1>8, <3>1
    <2> QED BY <1>3, <2>1, <2>2
  <1>15. \A n \in DOMAIN recibidas', i \in DOMAIN recibidas' : recibidas'[n].numero = recibidas'[i].numero => n = i
    <2>1. \A n \in 1..N : recibidas'[n].numero = recibidas[n].numero /\ recibidas[n].numero # m.dato
      BY <1>3, <1>8 DEF Resueltos
    <2>2. recibidas'[N + 1].numero = m.dato
      BY <1>1, <1>3
    <2>3. \A n \in 1..N, i \in 1..N : recibidas[n].numero = recibidas[i].numero => n = i
      BY <1>3, <1>7 DEF InvNumeros
    <2>4. \A n \in 1..(N + 1) : n \in 1..N \/ n = N + 1
      BY <1>3
    <2> HIDE DEF N
    <2> QED BY <1>3, <2>1, <2>2, <2>3, <2>4
  <1>16. Activos' = (IF Quedan THEN Activos ELSE Activos \ {o}) /\ o \in Activos
    <2>1. o \in Activos
      BY <1>4, <1>5 DEF Activos
    <2>2. \A p \in PGs \ {o} : (\E l \in Indices : Lleva(p, l)') <=> (\E l \in Indices : Lleva(p, l))
      BY <1>4
    <2>3. (\E l \in Indices : Lleva(o, l)') <=> Quedan
      BY <1>4, <1>5
    <2> QED BY <2>1, <2>2, <2>3 DEF Activos
  <1>17. Activos' \subseteq 1..PGReal
    BY <1>7, <1>16 DEF InvNumeros
  <1>18. InvNumeros'
    BY <1>10, <1>11, <1>12, <1>13, <1>14, <1>15, <1>17 DEF InvNumeros
  <1>19. \A n \in DOMAIN recibidas' : recibidas'[n] \in {recibidas[i] : i \in DOMAIN recibidas} \/ recibidas'[n] = g
    <2>1. \A n \in 1..(N + 1) : n \in 1..N \/ n = N + 1
      BY <1>3
    <2> HIDE DEF N
    <2> QED BY <1>3, <2>1
  <1> QED BY <1>3, <1>6, <1>16, <1>18, <1>19 DEF g
LEMMA OrdenesEstadisticas ==
  ASSUME IInv, NEW o \in Rangos, PESEstadisticas(o)
  PROVE  Ordenes' /\ InvSesiones' /\ canal' \in Redes
  <1>1. canal' \in Redes /\ Empezado /\ o \in PGs /\ fase[o] = "bucle" /\ \E m : Colecta(o, m)
    BY EfectoEstadisticas
  <1>2. PICK m : Colecta(o, m)
    BY <1>1
  <1>3. /\ numRemaining' = numRemaining - 1
        /\ nextNumber' = IF Quedan THEN nextNumber + 1 ELSE nextNumber
        /\ contadorFinalizados' = IF Quedan THEN contadorFinalizados ELSE contadorFinalizados + 1
        /\ fase' = [fase EXCEPT ![PES] = IF Sigue(numRemaining - 1, statsRecv) THEN @ ELSE "fin"]
        /\ fase[PES] = "bucle"
        /\ UNCHANGED <<modo, arrayNumeros, statsRecv, pg, pa>>
    BY DEF PESEstadisticas, Quedan
  <1>4. /\ \A r \in Trabajadores : r \in Rangos /\ r # PES
        /\ PES \in Rangos /\ PGs \subseteq Trabajadores /\ PAs \subseteq Trabajadores
    BY Roles
  <1>5. (\A r \in Trabajadores : fase'[r] = fase[r]) /\ fase'[PES] \in {"bucle", "fin"} /\ UNCHANGED pg
    <2>1. fase \in [Rangos -> Fases]
      BY DEF IInv, TypeOK
    <2> QED BY <1>3, <1>4, <2>1
  <1>6. InvCanales'
    BY <1>1, <1>2, <1>5, CanalesEstadisticas
  <1>7. /\ InvNumeros' /\ Len(recibidas') = Len(recibidas) + 1
        /\ Activos' = (IF Quedan THEN Activos ELSE Activos \ {o}) /\ o \in Activos
        /\ \A n \in DOMAIN recibidas' : recibidas'[n] \in {recibidas[i] : i \in DOMAIN recibidas}
              \/ recibidas'[n] = [numero |-> m.dato, pg |-> o, respuestas |-> m.respuestas]
    BY <1>1, <1>2, <1>3, <1>5, NumerosEstadisticas
  <1>8. /\ ~Cerrado
        /\ \A l \in Indices : Lleva(o, l) <=> l = m.dato
    BY <1>1, <1>2, <1>5, LlevaEstadisticas
  <1>9. /\ \A e, f \in Rangos :
             canal'[e][f] = IF e = o /\ f = PES THEN <<>>
                            ELSE IF e = PES /\ f = o /\ Quedan THEN <<Msj("NOTIFICAR", nextNumber + 1)>>
                            ELSE IF e = PES /\ Todos THEN canal[e][f] \o Finales(f)
                            ELSE canal[e][f]
        /\ Logaritmica(m.respuestas) /\ canal[PES][o] = <<>>
    BY <1>2 DEF Colecta
  <1>10. /\ numRemaining + Len(recibidas) = TOTALNUM
         /\ Len(recibidas) + Cardinality(Activos) = nextNumber
         /\ contadorFinalizados + Cardinality(Activos) = PGReal
         /\ contadorFinalizados > 0 => nextNumber = TOTALNUM
         /\ statsRecv + Cardinality(PorAcabar) = Cardinality(Trabajadores)
    BY <1>1 DEF IInv, InvCuentas
  <1>11. /\ numRemaining \in Nat /\ nextNumber \in 0..TOTALNUM /\ contadorFinalizados \in Nat
         /\ Len(recibidas) \in Nat /\ PGReal \in Nat
    <2>1. recibidas \in Seq([numero : Indices, pg : PGs, respuestas : Nat])
      BY DEF IInv, TypeOK
    <2>2. Len(recibidas) \in Nat
      BY <2>1, LenProperties
    <2>3. numRemaining \in Nat /\ nextNumber \in 0..TOTALNUM /\ contadorFinalizados \in Nat
      BY DEF IInv, TypeOK
    <2> QED BY <2>2, <2>3, PGRealTipo
  <1>12. Cardinality(Activos) \in Nat /\ Cardinality(Activos') = IF Quedan THEN Cardinality(Activos)
                                                                ELSE Cardinality(Activos) - 1
    BY <1>7, ActivosFinitos, FS_RemoveElement
  <1>13. PorAcabar' = PorAcabar
    <2>1. canal'[o][PES] = <<>> /\ fase'[o] # "fin" /\ fase[o] # "fin"
      BY <1>1, <1>4, <1>5, <1>9
    <2>2. \A r \in Trabajadores \ {o} : canal'[r][PES] = canal[r][PES] /\ fase'[r] = fase[r]
      BY <1>4, <1>5, <1>9
    <2> QED BY <2>1, <2>2 DEF PorAcabar
  <1>14. Cerrado' => Todos
    <2> SUFFICES ASSUME ~Todos, NEW r \in Trabajadores, fase'[r] = "fin" \/ Hay(PES, r, "FINALIZACION")'
                 PROVE  FALSE
      BY DEF Cerrado
    <2>1. fase[r] # "fin" /\ ~Tiene(canal[PES][r], "FINALIZACION")
      BY <1>8 DEF Cerrado, Hay, Tiene
    <2>2. Tiene(canal'[PES][r], "FINALIZACION")
      BY <1>5, <2>1 DEF Hay, Tiene
    <2> DEFINE x == Msj("NOTIFICAR", nextNumber + 1)
    <2>3. canal'[PES][r] = canal[PES][r] \/ canal'[PES][r] = <<x>>
      BY <1>4, <1>9
    <2>4. x.tag # "FINALIZACION"
      BY DEF Msj
    <2> HIDE DEF x
    <2>5. Tiene(<<x>>, "FINALIZACION") <=> x.tag = "FINALIZACION"
      BY ContieneCortas
    <2> QED BY <2>1, <2>2, <2>3, <2>4, <2>5
  <1>15. InvCuentas'
    <2>1. Empezado'
      BY <1>5 DEF Empezado
    <2>2. numRemaining' + Len(recibidas') = TOTALNUM
      BY <1>3, <1>7, <1>10, <1>11
    <2>3. Len(recibidas') + Cardinality(Activos') = nextNumber'
      BY <1>3, <1>7, <1>10, <1>11, <1>12
    <2>4. contadorFinalizados' + Cardinality(Activos') = PGReal
      BY <1>3, <1>10, <1>11, <1>12
    <2>5. contadorFinalizados' > 0 => nextNumber' = TOTALNUM
      BY <1>3, <1>10, <1>11 DEF Quedan
    <2>6. statsRecv' + Cardinality(PorAcabar') = Cardinality(Trabajadores)
      BY <1>3, <1>10, <1>13
    <2>7. Cerrado' => contadorFinalizados' = PGReal
      BY <1>3, <1>14 DEF Todos
    <2> QED BY <2>1, <2>2, <2>3, <2>4, <2>5, <2>6, <2>7 DEF InvCuentas
  <1>16. PreguntasAcotadas'
    <2> SUFFICES ASSUME NEW n \in DOMAIN recibidas' PROVE Logaritmica(recibidas'[n].respuestas)
      BY DEF PreguntasAcotadas
    <2>1. CASE recibidas'[n] \in {recibidas[i] : i \in DOMAIN recibidas}
      BY <2>1 DEF IInv, PreguntasAcotadas
    <2>2. CASE recibidas'[n] = [numero |-> m.dato, pg |-> o, respuestas |-> m.respuestas]
      <3>1. recibidas'[n].respuestas = m.respuestas
        BY <2>2
      <3> QED BY <1>9, <3>1
    <2> QED BY <1>7, <2>1, <2>2
  <1>17. InvSesiones'
    <2>1. \A p \in PGs : fase'[p] = fase[p]
      BY <1>4, <1>5
    <2>2. \A p \in PGs, a \in PAs : canal'[p][a] = canal[p][a] /\ canal'[a][p] = canal[a][p]
      <3> TAKE p \in PGs, a \in PAs
      <3>1. p \in Rangos /\ a \in Rangos /\ p # PES /\ a # PES /\ a # o
        BY <1>1, <1>4, Roles
      <3> QED BY <1>9, <3>1
    <2>3. UNCHANGED <<pg, pa, arrayNumeros>>
      BY <1>3
    <2> QED BY <2>1, <2>2, <2>3, SesionesIgual DEF IInv
  <1> QED BY <1>1, <1>6, <1>7, <1>15, <1>16, <1>17 DEF Ordenes
-----------------------------------------------------------------------------
(* Types, process by process *)

TipoPES ==
    /\ arrayNumeros \in [Indices -> Aleatorios]
    /\ nextNumber \in 0..TOTALNUM
    /\ numRemaining \in 0..TOTALNUM
    /\ contadorFinalizados \in 0..PGCount
    /\ statsRecv \in 0..Cardinality(Trabajadores)
    /\ recibidas \in Seq([numero : Indices, pg : PGs, respuestas : Nat])
TipoPG ==
    /\ numAAdivinar \in [PGs -> 0..TOTALNUM]
    /\ k \in [PGs -> 0..PACount]
    /\ idPA \in [PGs -> 0..(PACount - 1)]
    /\ contador \in [PGs -> Nat]
TipoPA ==
    /\ estatusPA \in [PAs -> {"LIBRE", "OCUPADO"}]
    /\ origenPG \in [PAs -> 0..PGCount]
    /\ numMin \in [PAs -> 0..NumMax]
    /\ numMax \in [PAs -> 0..NumMax]
    /\ numMedio \in [PAs -> 0..NumMax]

LEMMA TipoPartes ==
  /\ TypeOK => /\ modo \in {"ansioso", "cita"} /\ canal \in Redes /\ fase \in [Rangos -> Fases]
               /\ TipoPES /\ TipoPG /\ TipoPA
  /\ modo' = modo /\ modo \in {"ansioso", "cita"} /\ canal' \in Redes /\ fase' \in [Rangos -> Fases]
       /\ TipoPES' /\ TipoPG' /\ TipoPA' => TypeOK'
  BY DEF TypeOK, TipoPES, TipoPG, TipoPA, Redes

LEMMA TipoIgual ==
  /\ TipoPES /\ UNCHANGED pes => TipoPES'
  /\ TipoPG /\ UNCHANGED pg => TipoPG'
  /\ TipoPA /\ UNCHANGED pa => TipoPA'
  <1>1. TipoPES /\ UNCHANGED pes => TipoPES'
    BY DEF TipoPES, pes
  <1>2. TipoPG /\ UNCHANGED pg => TipoPG'
    BY DEF TipoPG, pg
  <1>3. TipoPA /\ UNCHANGED pa => TipoPA'
    BY DEF TipoPA, pa
  <1> QED BY <1>1, <1>2, <1>3

\* The steps that leave everything but the channels and a phase alone.
LEMMA TipoFuera ==
  ASSUME IInv, NEW r \in Trabajadores, Identificar(r) \/ Finalizar(r) \/ (r \in PGs /\ PGInfoPAs(r))
  PROVE  TypeOK'
  <1>1. canal' \in Redes
    BY OrdenesIdentificar, EfectoFinalizar, EfectoInfoPAs
  <1>2. TypeOK
    BY DEF IInv
  <1>3. fase' \in [Rangos -> Fases] /\ UNCHANGED <<modo, pes, pg, pa>>
    BY <1>2 DEF TypeOK, Fases, Identificar, Finalizar, PGInfoPAs
  <1> QED BY <1>1, <1>2, <1>3, TipoPartes, TipoIgual

LEMMA TipoRepartir ==
  ASSUME IInv, PESRepartir
  PROVE  TypeOK'
  <1>1. canal' \in Redes
    BY OrdenesRepartir
  <1>2. TypeOK
    BY DEF IInv
  <1>3. fase' \in [Rangos -> Fases]
    BY <1>2 DEF TypeOK, Fases, PESRepartir
  <1>4. /\ nextNumber' = PGReal
        /\ UNCHANGED <<modo, arrayNumeros, numRemaining, contadorFinalizados, statsRecv, recibidas, pg, pa>>
    BY DEF PESRepartir
  <1>5. PGReal \in 0..TOTALNUM
    BY PGRealTipo
  <1>6. TipoPES'
    <2>1. TipoPES
      BY <1>2, TipoPartes
    <2> QED BY <1>4, <1>5, <2>1 DEF TipoPES
  <1> QED BY <1>1, <1>2, <1>3, <1>4, <1>6, TipoPartes, TipoIgual

LEMMA TipoEstadisticas ==
  ASSUME IInv, NEW o \in Rangos, PESEstadisticas(o)
  PROVE  TypeOK'
  <1>1. /\ canal' \in Redes /\ Ordenes'
        /\ o \in PGs /\ \E m : Colecta(o, m)
    BY OrdenesEstadisticas, EfectoEstadisticas
  <1>2. PICK m : Colecta(o, m)
    BY <1>1
  <1>3. TypeOK
    BY DEF IInv
  <1>4. /\ numRemaining' = numRemaining - 1
        /\ nextNumber' = IF Quedan THEN nextNumber + 1 ELSE nextNumber
        /\ contadorFinalizados' = IF Quedan THEN contadorFinalizados ELSE contadorFinalizados + 1
        /\ UNCHANGED <<modo, arrayNumeros, statsRecv, pg, pa>>
    BY DEF PESEstadisticas, Quedan
  <1>5. fase' \in [Rangos -> Fases]
    BY <1>3 DEF TypeOK, Fases, PESEstadisticas
  <1>6. recibidas' \in Seq([numero : Indices, pg : PGs, respuestas : Nat])
    <2> DEFINE T == [numero : Indices, pg : PGs, respuestas : Nat]
               g == [numero |-> m.dato, pg |-> o, respuestas |-> m.respuestas]
    <2>1. recibidas \in Seq(T)
      BY <1>3 DEF TypeOK
    <2>2. g \in T
      BY <1>1, <1>2 DEF Colecta, Mensajes
    <2>3. recibidas' = Append(recibidas, g)
      BY <1>2 DEF Colecta
    <2> HIDE DEF T, g
    <2>4. recibidas' \in Seq(T)
      BY <2>1, <2>2, <2>3
    <2> QED BY <2>4 DEF T
  <1>7. numRemaining' \in 0..TOTALNUM
    <2>1. numRemaining \in 0..TOTALNUM
      BY <1>3 DEF TypeOK
    <2>2. numRemaining > 0
      <3>1. recibidas \in Seq([numero : Indices, pg : PGs, respuestas : Nat])
        BY <1>3 DEF TypeOK
      <3>2. /\ numRemaining + Len(recibidas) = TOTALNUM
            /\ Len(recibidas) + Cardinality(Activos) = nextNumber
        BY DEF IInv, InvCuentas
      <3>3. Cardinality(Activos) > 0 /\ Cardinality(Activos) \in Nat
        <4>1. o \in Activos
          <5>1. m.dato \in Indices /\ canal[o][PES] = <<m>> /\ m.tag = "ESTADISTICAS"
            BY <1>2 DEF Colecta
          <5>2. 1 \in DOMAIN <<m>> /\ <<m>>[1] = m
            BY Unas
          <5>3. Lleva(o, m.dato)
            BY <5>1, <5>2 DEF Lleva
          <5> QED BY <1>1, <5>1, <5>3 DEF Activos
        <4> QED BY <4>1, ActivosFinitos, FS_EmptySet
      <3>4. nextNumber \in 0..TOTALNUM
        BY <1>3 DEF TypeOK
      <3> QED BY <2>1, <3>1, <3>2, <3>3, <3>4, LenProperties
    <2> QED BY <1>4, <2>1, <2>2
  <1>8. nextNumber' \in 0..TOTALNUM
    BY <1>3, <1>4 DEF TypeOK, Quedan
  <1>9. contadorFinalizados' \in 0..PGCount
    <2>1. contadorFinalizados' + Cardinality(Activos') = PGReal
      <3>1. Empezado'
        <4>1. fase'[PES] \in {"bucle", "fin"}
          <5>1. fase \in [Rangos -> Fases] /\ PES \in Rangos
            BY <1>3, Roles DEF TypeOK
          <5> QED BY <5>1 DEF PESEstadisticas
        <4> QED BY <4>1 DEF Empezado
      <3> QED BY <1>1, <3>1 DEF Ordenes, InvCuentas
    <2>2. Cardinality(Activos') \in Nat
      <3>1. Activos' \subseteq PGs
        BY DEF Activos
      <3> QED BY <3>1, RolesFinitos, FS_Subset, FS_CardinalityType
    <2>3. contadorFinalizados' \in Nat
      BY <1>3, <1>4 DEF TypeOK
    <2> QED BY <2>1, <2>2, <2>3, PGRealTipo
  <1>10. TipoPES'
    <2>1. TipoPES
      BY <1>3, TipoPartes
    <2> QED BY <1>4, <1>6, <1>7, <1>8, <1>9, <2>1 DEF TipoPES
  <1> QED BY <1>1, <1>3, <1>4, <1>5, <1>10, TipoPartes, TipoIgual

LEMMA TipoFinal ==
  ASSUME IInv, NEW o \in Rangos, PESFinal(o)
  PROVE  TypeOK'
  <1>1. canal' \in Redes /\ Ordenes'
    BY OrdenesFinal
  <1>2. TypeOK
    BY DEF IInv
  <1>3. fase' \in [Rangos -> Fases]
    BY <1>2 DEF TypeOK, Fases, PESFinal
  <1>4. /\ statsRecv' = statsRecv + 1
        /\ UNCHANGED <<modo, arrayNumeros, nextNumber, numRemaining, contadorFinalizados, recibidas, pg, pa>>
    BY DEF PESFinal
  <1>5. statsRecv' \in 0..Cardinality(Trabajadores)
    <2>1. statsRecv' + Cardinality(PorAcabar') = Cardinality(Trabajadores)
      BY <1>1 DEF Ordenes, InvCuentas
    <2>2. Cardinality(PorAcabar') \in Nat
      <3>1. PorAcabar' \subseteq Trabajadores
        BY DEF PorAcabar
      <3> QED BY <3>1, RolesFinitos, FS_Subset, FS_CardinalityType
    <2>3. statsRecv' \in Nat
      BY <1>2, <1>4, RolesFinitos DEF TypeOK
    <2> QED BY <2>1, <2>2, <2>3, RolesFinitos
  <1>6. TipoPES'
    <2>1. TipoPES
      BY <1>2, TipoPartes
    <2> QED BY <1>4, <1>5, <2>1 DEF TipoPES
  <1> QED BY <1>1, <1>2, <1>3, <1>4, <1>6, TipoPartes, TipoIgual
LEMMA TipoNotificar ==
  ASSUME IInv, NEW p \in PGs, PGNotificar(p)
  PROVE  TypeOK'
  <1>1. /\ canal' \in Redes /\ Turno(k[p]) \in 0..(PACount - 1)
        /\ \E j \in Indices : numAAdivinar' = [numAAdivinar EXCEPT ![p] = j]
    BY EfectoNotificar
  <1>2. TypeOK
    BY DEF IInv
  <1>3. fase' \in [Rangos -> Fases]
    BY <1>2 DEF TypeOK, Fases, PGNotificar
  <1>4. /\ k' = [k EXCEPT ![p] = Turno(k[p])] /\ contador' = [contador EXCEPT ![p] = 0]
        /\ UNCHANGED <<modo, pes, pa, idPA>>
    BY DEF PGNotificar
  <1>5. TipoPG'
    <2>1. TipoPG
      BY <1>2, TipoPartes
    <2>2. \A n \in 0..(PACount - 1) : n \in 0..PACount
      OBVIOUS
    <2>3. \A j \in Indices : j \in 0..TOTALNUM
      BY DEF Indices
    <2> QED BY <1>1, <1>4, <2>1, <2>2, <2>3 DEF TipoPG
  <1> QED BY <1>1, <1>2, <1>3, <1>4, <1>5, TipoPartes, TipoIgual

LEMMA TipoConectado ==
  ASSUME IInv, NEW p \in PGs, PGConectado(p)
  PROVE  TypeOK'
  <1>1. canal' \in Redes /\ k[p] \in 0..(PACount - 1)
    BY EfectoConectado
  <1>2. TypeOK
    BY DEF IInv
  <1>3. fase' \in [Rangos -> Fases]
    BY <1>2 DEF TypeOK, Fases, PGConectado
  <1>4. /\ k' = [k EXCEPT ![p] = k[p] + 1] /\ idPA' = [idPA EXCEPT ![p] = k[p]]
        /\ UNCHANGED <<modo, pes, pa, numAAdivinar, contador>>
    BY DEF PGConectado
  <1>5. TipoPG'
    <2>1. TipoPG
      BY <1>2, TipoPartes
    <2>2. k[p] + 1 \in 0..PACount
      BY <1>1
    <2> QED BY <1>1, <1>4, <2>1, <2>2 DEF TipoPG
  <1> QED BY <1>1, <1>2, <1>3, <1>4, <1>5, TipoPartes, TipoIgual

LEMMA TipoRechazado ==
  ASSUME IInv, NEW p \in PGs, PGRechazado(p)
  PROVE  TypeOK'
  <1>1. canal' \in Redes /\ Turno(k[p] + 1) \in 0..(PACount - 1)
    BY EfectoRechazado
  <1>2. TypeOK
    BY DEF IInv
  <1>3. /\ k' = [k EXCEPT ![p] = Turno(k[p] + 1)]
        /\ UNCHANGED <<modo, fase, pes, pa, numAAdivinar, contador, idPA>>
    BY DEF PGRechazado
  <1>4. TipoPG'
    <2>1. TipoPG
      BY <1>2, TipoPartes
    <2>2. Turno(k[p] + 1) \in 0..PACount
      BY <1>1
    <2> QED BY <1>3, <2>1, <2>2 DEF TipoPG
  <1> QED BY <1>1, <1>2, <1>3, <1>4, TipoPartes, TipoIgual

LEMMA TipoAdivina ==
  ASSUME IInv, NEW p \in PGs, PGAdivina(p)
  PROVE  TypeOK'
  <1>1. canal' \in Redes
    BY EfectoAdivina
  <1>2. TypeOK
    BY DEF IInv
  <1>3. fase' \in [Rangos -> Fases]
    BY <1>2 DEF TypeOK, Fases, PGAdivina
  <1>4. /\ contador' = [contador EXCEPT ![p] = contador[p] + 1]
        /\ UNCHANGED <<modo, pes, pa, numAAdivinar, k, idPA>>
    BY DEF PGAdivina
  <1>5. TipoPG'
    <2>1. TipoPG
      BY <1>2, TipoPartes
    <2> QED BY <1>4, <2>1 DEF TipoPG
  <1> QED BY <1>1, <1>2, <1>3, <1>4, <1>5, TipoPartes, TipoIgual

LEMMA TipoSolicitud ==
  ASSUME IInv, NEW a \in PAs, NEW o \in Rangos, PASolicitud(a, o)
  PROVE  TypeOK'
  <1>1. canal' \in Redes /\ o \in PGs
    BY EfectoSolicitud
  <1>2. TypeOK
    BY DEF IInv
  <1> DEFINE medio == Medio(0, NumMax)
  <1>3. medio \in 0..NumMax /\ 0 \in 0..NumMax /\ NumMax \in 0..NumMax
    BY MedioInicial
  <1>4. /\ estatusPA' = [estatusPA EXCEPT ![a] = "OCUPADO"]
        /\ origenPG' = [origenPG EXCEPT ![a] = IF estatusPA[a] = "LIBRE" THEN o ELSE @]
        /\ numMin' = [numMin EXCEPT ![a] = IF estatusPA[a] = "LIBRE" THEN 0 ELSE @]
        /\ numMax' = [numMax EXCEPT ![a] = IF estatusPA[a] = "LIBRE" THEN NumMax ELSE @]
        /\ numMedio' = [numMedio EXCEPT ![a] = IF estatusPA[a] = "LIBRE" THEN medio ELSE @]
        /\ UNCHANGED <<modo, fase, pes, pg>>
    BY DEF PASolicitud
  <1> HIDE DEF medio
  <1>5. TipoPA'
    <2>1. TipoPA
      BY <1>2, TipoPartes
    <2>2. o \in 0..PGCount
      BY <1>1 DEF PGs
    <2> QED BY <1>3, <1>4, <2>1, <2>2 DEF TipoPA
  <1> QED BY <1>1, <1>2, <1>4, <1>5, TipoPartes, TipoIgual

LEMMA TipoProcesa ==
  ASSUME IInv, NEW a \in PAs, NEW o \in Rangos, PAProcesa(a, o)
  PROVE  TypeOK'
  <1>1. canal' \in Redes /\ Empezado /\ o \in PGs /\ \E c, x : Procesado(a, o, c, x)
    BY EfectoProcesa
  <1>2. TypeOK /\ TipoPA
    BY TipoPartes DEF IInv
  <1>3. PICK c, x : Procesado(a, o, c, x)
    BY <1>1
  <1> DEFINE mn == MinimoTras(a, c)
             mx == MaximoTras(a, c)
             md == IF c = IGUAL THEN numMedio[a] ELSE Medio(mn, mx)
  <1>4. /\ estatusPA' = [estatusPA EXCEPT ![a] = IF c = IGUAL THEN "LIBRE" ELSE estatusPA[a]]
        /\ numMin' = [numMin EXCEPT ![a] = mn]
        /\ numMax' = [numMax EXCEPT ![a] = mx]
        /\ numMedio' = [numMedio EXCEPT ![a] = md]
    BY <1>3 DEF Procesado
  <1>5. UNCHANGED <<modo, fase, pes, pg, origenPG>>
    BY DEF PAProcesa
  <1>6. mn \in 0..NumMax /\ mx \in 0..NumMax /\ md \in 0..NumMax
    <2>1. CASE c = IGUAL
      <3>1. mn = numMin[a] /\ mx = numMax[a] /\ md = numMedio[a]
        BY <2>1 DEF MinimoTras, MaximoTras, NuevoMin, NuevoMax, IGUAL, MAYOR, MENOR
      <3> HIDE DEF mn, mx, md
      <3> QED BY <1>2, <3>1 DEF TipoPA
    <2>2. CASE c # IGUAL
      <3>1. c = Respuesta(o, a) /\ EnSesion(o, a) /\ Busca(o, a)
        BY <1>3, <2>2 DEF Procesado
      <3>2. /\ MinimoTras(a, Respuesta(o, a)) \in 0..NumMax /\ MaximoTras(a, Respuesta(o, a)) \in 0..NumMax
            /\ Medio(MinimoTras(a, Respuesta(o, a)), MaximoTras(a, Respuesta(o, a))) \in 0..NumMax
        BY <1>1, <2>2, <3>1, Estrechado
      <3> QED BY <2>2, <3>1, <3>2
    <2> QED BY <2>1, <2>2
  <1> HIDE DEF mn, mx, md
  <1>7. TipoPA'
    BY <1>2, <1>4, <1>5, <1>6 DEF TipoPA
  <1> QED BY <1>1, <1>2, <1>5, <1>7, TipoPartes, TipoIgual
-----------------------------------------------------------------------------
(* The inductive invariant *)

LEMMA Inicial == Init => IInv
  <1> SUFFICES ASSUME Init PROVE IInv
    OBVIOUS
  <1>1. \A o, d \in Rangos : canal[o][d] = <<>>
    BY DEF Init
  <1>2. \A r \in Trabajadores : fase[r] = "id"
    BY Roles DEF Init
  <1>3. /\ PES \in Rangos /\ (\A r \in Trabajadores : r \in Rangos)
        /\ PGs \subseteq Trabajadores /\ PAs \subseteq Trabajadores
    BY Roles
  <1>4. DOMAIN <<>> = {} /\ Len(<<>>) = 0
    BY Unas
  <1>5. fase[PES] = "inicio"
    BY <1>3 DEF Init
  <1>6. TypeOK
    <2>1. canal \in Redes
      <3>1. <<>> \in Seq(Mensajes)
        BY VaciaTipo
      <3> QED BY <3>1 DEF Init, Redes
    <2>2. fase \in [Rangos -> Fases]
      BY DEF Init, Fases
    <2>3. TipoPES
      <3>1. Cardinality(Trabajadores) \in Nat
        BY RolesFinitos
      <3>2. recibidas \in Seq([numero : Indices, pg : PGs, respuestas : Nat])
        BY DEF Init
      <3>3. /\ arrayNumeros \in [Indices -> Aleatorios] /\ nextNumber = 0 /\ numRemaining = TOTALNUM
            /\ contadorFinalizados = 0 /\ statsRecv = 0
        BY DEF Init
      <3> QED BY <3>1, <3>2, <3>3 DEF TipoPES
    <2>4. TipoPG
      BY DEF Init, TipoPG
    <2>5. TipoPA
      <3>1. Medio(0, NumMax) \in 0..NumMax
        BY MedioInicial
      <3> QED BY <3>1 DEF Init, TipoPA
    <2> QED BY <2>1, <2>2, <2>3, <2>4, <2>5 DEF Init, TypeOK, Redes, TipoPES, TipoPG, TipoPA
  <1>7. InvCanales
    BY <1>1, <1>2, <1>5 DEF InvCanales, Empezado
  <1>8. InvSesiones
    <2>1. \A p \in PGs, a \in PAs : ~Propia(p, a)
      BY DEF Init, Propia
    <2>2. \A p \in PGs : fase[p] = "id"
      BY <1>2, <1>3
    <2>3. \A p \in PGs, a \in PAs : SinSesion(p, a)
      BY <1>1, <1>3, <2>2 DEF SinSesion, Conecta, EnSesion
    <2>4. \A a \in PAs : estatusPA[a] # "OCUPADO"
      BY DEF Init
    <2> QED BY <2>1, <2>2, <2>3, <2>4 DEF InvSesiones
  <1>9. \A p \in PGs : \A j \in Indices : ~Lleva(p, j)
    BY <1>1, <1>2, <1>3, <1>4 DEF Lleva
  <1>10. InvNumeros /\ Activos = {}
    <2>1. Activos = {}
      BY <1>9 DEF Activos
    <2>2. nextNumber = 0 /\ DOMAIN recibidas = {}
      BY <1>4 DEF Init
    <2>3. \A j \in Indices : ~(j <= nextNumber)
      BY <2>2 DEF Indices
    <2> QED BY <1>9, <2>1, <2>2, <2>3 DEF InvNumeros
  <1>11. InvCuentas
    <2>1. PorAcabar = Trabajadores
      BY <1>2 DEF PorAcabar
    <2>2. Cardinality(Activos) = 0
      BY <1>10, FS_EmptySet
    <2>3. ~Cerrado
      BY <1>1, <1>2, <1>3, <1>4 DEF Cerrado, Hay
    <2>4. ~Empezado
      BY <1>5 DEF Empezado
    <2>5. /\ nextNumber = 0 /\ numRemaining = TOTALNUM /\ contadorFinalizados = 0 /\ statsRecv = 0
          /\ Len(recibidas) = 0
      BY <1>4 DEF Init
    <2> QED BY <2>1, <2>2, <2>3, <2>4, <2>5, RolesFinitos DEF InvCuentas
  <1>12. PreguntasAcotadas
    BY <1>4 DEF Init, PreguntasAcotadas
  <1> QED BY <1>6, <1>7, <1>8, <1>10, <1>11, <1>12 DEF IInv

LEMMA Quieto ==
  ASSUME IInv, UNCHANGED vars
  PROVE  IInv' /\ Quietos
  <1>1. /\ canal' = canal /\ fase' = fase /\ UNCHANGED <<modo, pes, pg, pa>>
        /\ UNCHANGED <<arrayNumeros, nextNumber, numRemaining, contadorFinalizados, statsRecv, recibidas, numAAdivinar>>
    BY DEF vars, pes, pg
  <1>2. TypeOK /\ InvCanales /\ InvSesiones /\ InvNumeros /\ InvCuentas /\ PreguntasAcotadas
    BY DEF IInv
  <1>3. TypeOK'
    BY <1>1, <1>2, TipoPartes, TipoIgual
  <1>4. InvCanales'
    <2>1. \A r : Previos(r)' = Previos(r)
      BY <1>1 DEF Previos
    <2>2. \A p \in PGs : CanalesPG(p) => CanalesPG(p)'
      BY <1>1, <2>1 DEF CanalesPG, Informe
    <2>3. \A r \in PAs \cup PIs : CanalesOtro(r) => CanalesOtro(r)'
      BY <1>1, <2>1 DEF CanalesOtro
    <2>4. \A o, d : Mudo(o, d)' <=> Mudo(o, d)
      BY DEF Mudo
    <2>5. Empezado' <=> Empezado
      BY <1>1 DEF Empezado
    <2> QED BY <1>1, <1>2, <2>2, <2>3, <2>4, <2>5 DEF InvCanales
  <1>5. InvSesiones'
    BY <1>1, <1>2, SesionesIgual
  <1>6. \A p \in PGs : \A j \in Indices : Lleva(p, j)' <=> Lleva(p, j)
    BY <1>1 DEF Lleva
  <1>7. InvNumeros' /\ Activos' = Activos
    BY <1>1, <1>2, <1>6, NumerosIgual
  <1>8. Cerrado' <=> Cerrado
    BY <1>1 DEF Cerrado, Hay
  <1>9. PorAcabar' = PorAcabar
    BY <1>1 DEF PorAcabar
  <1>10. InvCuentas'
    BY <1>1, <1>2, <1>7, <1>8, <1>9 DEF InvCuentas, Empezado
  <1>11. PreguntasAcotadas'
    BY <1>1, <1>2 DEF PreguntasAcotadas
  <1> QED BY <1>1, <1>3, <1>4, <1>5, <1>6, <1>7, <1>8, <1>10, <1>11 DEF IInv, Quietos

\* Every step keeps the invariant, and only the steps of PES that hand numbers out or
\* collect them touch the numbers.
LEMMA Paso ==
  ASSUME IInv, [Next]_vars
  PROVE  IInv' /\ (Quietos \/ PESRepartir \/ \E o \in Rangos : PESEstadisticas(o))
  <1>1. CASE PESRepartir
    <2>1. Ordenes' /\ InvSesiones' /\ TypeOK'
      BY <1>1, OrdenesRepartir, TipoRepartir
    <2> QED BY <1>1, <2>1 DEF IInv, Ordenes
  <1>2. ASSUME NEW o \in Rangos, PESEstadisticas(o)
        PROVE  IInv'
    <2>1. Ordenes' /\ InvSesiones' /\ TypeOK'
      BY <1>2, OrdenesEstadisticas, TipoEstadisticas
    <2> QED BY <2>1 DEF IInv, Ordenes
  <1>3. ASSUME NEW o \in Rangos, PESFinal(o)
        PROVE  IInv' /\ Quietos
    <2>1. Ordenes' /\ InvSesiones' /\ TypeOK' /\ Quietos
      BY <1>3, OrdenesFinal, TipoFinal
    <2> QED BY <2>1 DEF IInv, Ordenes
  <1>4. ASSUME NEW r \in Trabajadores, Identificar(r) \/ Finalizar(r)
        PROVE  IInv' /\ Quietos
    <2>1. Ordenes' /\ Quietos
      BY <1>4, OrdenesIdentificar, OrdenesFinalizar
    <2>2. InvSesiones' /\ TypeOK'
      BY <1>4, SesionesFuera, TipoFuera
    <2> QED BY <2>1, <2>2 DEF IInv, Ordenes
  <1>5. ASSUME NEW p \in PGs, PasoPG(p)
        PROVE  IInv' /\ Quietos
    <2>1. CASE PGInfoPAs(p)
      <3>1. Ordenes' /\ Quietos
        BY <2>1, OrdenesInfoPAs
      <3>2. InvSesiones' /\ TypeOK'
        BY <2>1, Roles, SesionesFuera, TipoFuera
      <3> QED BY <3>1, <3>2 DEF IInv, Ordenes
    <2>2. CASE PGNotificar(p)
      <3>1. Ordenes' /\ Quietos /\ InvSesiones' /\ TypeOK'
        BY <2>2, OrdenesNotificar, SesionesNotificar, TipoNotificar
      <3> QED BY <3>1 DEF IInv, Ordenes
    <2>3. CASE PGConectado(p)
      <3>1. Ordenes' /\ Quietos /\ InvSesiones' /\ TypeOK'
        BY <2>3, OrdenesConectado, SesionesConectado, TipoConectado
      <3> QED BY <3>1 DEF IInv, Ordenes
    <2>4. CASE PGRechazado(p)
      <3>1. Ordenes' /\ Quietos /\ InvSesiones' /\ TypeOK'
        BY <2>4, OrdenesRechazado, SesionesRechazado, TipoRechazado
      <3> QED BY <3>1 DEF IInv, Ordenes
    <2>5. CASE PGAdivina(p)
      <3>1. Ordenes' /\ Quietos /\ InvSesiones' /\ TypeOK'
        BY <2>5, OrdenesAdivina, SesionesAdivina, TipoAdivina
      <3> QED BY <3>1 DEF IInv, Ordenes
    <2> QED BY <1>5, <2>1, <2>2, <2>3, <2>4, <2>5 DEF PasoPG
  <1>6. ASSUME NEW a \in PAs, NEW o \in Rangos, PasoPA(a, o)
        PROVE  IInv' /\ Quietos
    <2>1. CASE PASolicitud(a, o)
      <3>1. Ordenes' /\ Quietos /\ InvSesiones' /\ TypeOK'
        BY <2>1, OrdenesSolicitud, SesionesSolicitud, TipoSolicitud
      <3> QED BY <3>1 DEF IInv, Ordenes
    <2>2. CASE PAProcesa(a, o)
      <3>1. Ordenes' /\ Quietos /\ InvSesiones' /\ TypeOK'
        BY <2>2, OrdenesProcesa, SesionesProcesa, TipoProcesa
      <3> QED BY <3>1 DEF IInv, Ordenes
    <2> QED BY <1>6, <2>1, <2>2 DEF PasoPA
  <1>7. CASE UNCHANGED vars
    BY <1>7, Quieto
  <1> QED BY <1>1, <1>2, <1>3, <1>4, <1>5, <1>6, <1>7 DEF Next, PasoPES, Terminado

\* What is on every channel of the guessing game, between the coordinator and the others and
\* between a manager and a guesser, for any number of processes of any kind and of numbers,
\* and whether MPI_Send blocks or not.
THEOREM Invariante == Spec => []IInv
  <1>1. IInv /\ [Next]_vars => IInv'
    BY Paso
  <1> QED BY <1>1, Inicial, PTL DEF Spec

\* The counters of process_pes stay inside the arrays they index, a guesser's range and
\* proposal inside 0..NumMax, and a channel holds only messages of the protocol.
THEOREM TipoCorrecto == Spec => []TypeOK
  <1>1. IInv => TypeOK
    BY DEF IInv
  <1> QED BY <1>1, Invariante, PTL

\* A session is between one manager and one guesser, and both know it: estatusPA, set when a
\* request is accepted and reset at IGUAL, is enough of a lock for any number of managers.
THEOREM SesionSiempreExclusiva == Spec => []SesionExclusiva
  <1>1. IInv => SesionExclusiva
    <2> SUFFICES ASSUME IInv, NEW p \in PGs, NEW a \in PAs, EnSesion(p, a)
                 PROVE  Propia(p, a) /\ \A q \in PGs \ {p} : ~EnSesion(q, a)
      BY DEF SesionExclusiva, Propia
    <2>1. ASSUME NEW q \in PGs, EnSesion(q, a) PROVE Propia(q, a)
      <3>1. ~SinSesion(q, a)
        BY <2>1 DEF SinSesion, EnSesion, Conecta
      <3> QED BY <3>1 DEF IInv, InvSesiones
    <2>2. Propia(p, a)
      BY <2>1
    <2> QED BY <2>1, <2>2 DEF Propia
  <1> QED BY <1>1, Invariante, PTL

\* process_pa receives from origenPG whatever source MPI_Probe named: the only answer that
\* may wait is that of its session, and it is in front of what the manager asks next.
THEOREM RespuestaSiempreDelOrigen == Spec => []RespuestaDelOrigen
  <1>1. IInv => RespuestaDelOrigen
    <2> SUFFICES ASSUME IInv, NEW a \in PAs, NEW o \in Rangos, Hay(o, a, "PROCESAMIENTO")
                 PROVE  Propia(o, a) /\ Delante(o, a, "PROCESAMIENTO") /\ Len(canal[o][a]) <= 2
      BY DEF RespuestaDelOrigen, Propia
    <2>1. TypeOK /\ InvCanales /\ InvSesiones
      BY DEF IInv
    <2>2. o \in PGs /\ Tiene(canal[o][a], "PROCESAMIENTO")
      BY <2>1, SoloPG DEF Hay, Tiene
    <2>3. Solicitud(1).tag = "SOLICITUD"
      BY Cartas
    <2>4. Propia(o, a)
      <3> SUFFICES ASSUME ~Propia(o, a) PROVE FALSE
        OBVIOUS
      <3>1. SinSesion(o, a)
        BY <2>1, <2>2 DEF InvSesiones
      <3>2. canal[o][a] = <<>> \/ canal[o][a] = <<Solicitud(1)>>
        BY <3>1 DEF SinSesion
      <3> DEFINE s == Solicitud(1)
                 t == "PROCESAMIENTO"
      <3>3. s.tag # t
        BY <2>3
      <3> HIDE DEF s, t
      <3>4. ~Tiene(<<>>, t) /\ (Tiene(<<s>>, t) <=> s.tag = t)
        BY ContieneCortas
      <3> QED BY <2>2, <3>2, <3>3, <3>4 DEF s, t
    <2>5. ConSesion(o, a)
      BY <2>1, <2>2, <2>4 DEF InvSesiones
    <2>6. \E n \in {MENOR, MAYOR, IGUAL} :
             canal[o][a] = <<Propuesta(n)>> \/ canal[o][a] = <<Propuesta(n), Solicitud(1)>>
      <3>1. canal[o][a] # <<>>
        <4>1. ~Tiene(<<>>, "PROCESAMIENTO")
          BY ContieneCortas
        <4> QED BY <2>2, <4>1
      <3>2. \A x, y : Caracter(x, y) \in {MENOR, MAYOR, IGUAL}
        BY <2>1, MediosNat
      <3> QED BY <2>5, <3>1, <3>2 DEF ConSesion
    <2>7. PICK n \in {MENOR, MAYOR, IGUAL} :
             canal[o][a] = <<Propuesta(n)>> \/ canal[o][a] = <<Propuesta(n), Solicitud(1)>>
      BY <2>6
    <2>8. Propuesta(n).tag = "PROCESAMIENTO"
      BY DEF Propuesta, Msj
    <2>9. Delante(o, a, "PROCESAMIENTO") /\ Len(canal[o][a]) <= 2
      <3> DEFINE m == Propuesta(n)
                 s == Solicitud(1)
      <3>1. canal[o][a] = <<m>> \/ canal[o][a] = <<m, s>>
        BY <2>7
      <3>2. m.tag = "PROCESAMIENTO"
        BY <2>8
      <3> HIDE DEF m, s
      <3>3. /\ <<m>> # <<>> /\ Head(<<m>>) = m /\ Len(<<m>>) = 1
            /\ <<m, s>> # <<>> /\ Head(<<m, s>>) = m /\ Len(<<m, s>>) = 2
        BY Unas, Dobles
      <3>4. canal[o][a] # <<>> /\ Head(canal[o][a]) = m
        BY <3>1, <3>3
      <3>5. Len(canal[o][a]) = 1 \/ Len(canal[o][a]) = 2
        BY <3>1, <3>3
      <3>6. Delante(o, a, "PROCESAMIENTO")
        BY <3>2, <3>4 DEF Delante
      <3>7. Len(canal[o][a]) <= 2
        <4>1. \A l : l = 1 \/ l = 2 => l <= 2
          OBVIOUS
        <4> QED BY <3>5, <4>1
      <3> QED BY <3>6, <3>7
    <2> QED BY <2>4, <2>9
  <1> QED BY <1>1, Invariante, PTL

\* However the messages of the others interleave, the range a guesser narrows still holds the
\* number of the manager in session with it, so the guess is found.
THEOREM RangoSiempreContiene == Spec => []RangoContiene
  <1>1. IInv => RangoContiene
    <2> SUFFICES ASSUME IInv, NEW p \in PGs, NEW a \in PAs, EnSesion(p, a)
                 PROVE  Busca(p, a)
      BY DEF RangoContiene, Busca
    <2>1. ~SinSesion(p, a) /\ ~Conecta(p, a)
      BY DEF SinSesion, EnSesion, Conecta
    <2>2. ConSesion(p, a)
      BY <2>1 DEF IInv, InvSesiones
    <2> QED BY <2>1, <2>2 DEF ConSesion
  <1> QED BY <1>1, Invariante, PTL

\* The statistics that reach process_pes count a logarithmic number of answers: with n of
\* them, 2^(n-2) < NumMax, 21 for the 999999 of the program.
THEOREM PreguntasSiempreAcotadas == Spec => []PreguntasAcotadas
  <1>1. IInv => PreguntasAcotadas
    BY DEF IInv
  <1> QED BY <1>1, Invariante, PTL
-----------------------------------------------------------------------------
(* The bag of numbers *)

LEMMA DuennoUnico ==
  ASSUME IInv, NEW p \in PGs, NEW q \in PGs, NEW j \in Indices, NumeroEn(p, j), NumeroEn(q, j)
  PROVE  p = q
  <1>1. InvNumeros
    BY DEF IInv
  <1>2. \A r \in PGs : NumeroEn(r, j) => Lleva(r, j) \/ \E n \in DOMAIN recibidas : recibidas[n].numero = j /\ recibidas[n].pg = r
    BY DEF NumeroEn
  <1>3. \A r \in PGs : Lleva(r, j) => j \notin Resueltos
    BY <1>1 DEF InvNumeros
  <1>4. \A n \in DOMAIN recibidas : recibidas[n].numero \in Resueltos
    BY DEF Resueltos
  <1>5. CASE Lleva(p, j) /\ Lleva(q, j)
    BY <1>1, <1>5 DEF InvNumeros
  <1>6. CASE ~Lleva(p, j) /\ ~Lleva(q, j)
    <2>1. PICK n \in DOMAIN recibidas : recibidas[n].numero = j /\ recibidas[n].pg = p
      BY <1>2, <1>6
    <2>2. PICK m \in DOMAIN recibidas : recibidas[m].numero = j /\ recibidas[m].pg = q
      BY <1>2, <1>6
    <2>3. n = m
      BY <1>1, <2>1, <2>2 DEF InvNumeros
    <2> QED BY <2>1, <2>2, <2>3
  <1> QED BY <1>2, <1>3, <1>4, <1>5, <1>6

DuennoBien ==
    \A j \in Indices :
        /\ \A p \in PGs : Duenno[j] = p <=> NumeroEn(p, j)
        /\ Duenno[j] \in PGs \cup {PES}
        /\ Duenno[j] # PES => Duenno[j] \in PGs /\ NumeroEn(Duenno[j], j)

LEMMA DuennoDe == IInv => DuennoBien
  <1> SUFFICES ASSUME IInv, NEW j \in Indices
               PROVE  /\ \A p \in PGs : Duenno[j] = p <=> NumeroEn(p, j)
                      /\ Duenno[j] \in PGs \cup {PES}
                      /\ Duenno[j] # PES => Duenno[j] \in PGs /\ NumeroEn(Duenno[j], j)
    BY DEF DuennoBien
  <1>1. PES \notin PGs
    BY Roles
  <1>2. Duenno[j] = IF \E p \in PGs : NumeroEn(p, j) THEN CHOOSE p \in PGs : NumeroEn(p, j) ELSE PES
    BY DEF Duenno
  <1>3. CASE \E p \in PGs : NumeroEn(p, j)
    <2>1. Duenno[j] \in PGs /\ NumeroEn(Duenno[j], j)
      BY <1>2, <1>3
    <2>2. \A p \in PGs : NumeroEn(p, j) => p = Duenno[j]
      BY <2>1, DuennoUnico
    <2> QED BY <1>1, <2>1, <2>2
  <1>4. CASE ~\E p \in PGs : NumeroEn(p, j)
    BY <1>1, <1>2, <1>4
  <1> QED BY <1>3, <1>4

\* A manager holds at most one number that is not solved.
LEMMA BolsaExclusiva == IInv => Bolsa!Exclusivo
  <1> SUFFICES ASSUME IInv, NEW j \in Bolsa!Ocupados, NEW l \in Bolsa!Ocupados, Duenno[j] = Duenno[l]
               PROVE  j = l
    BY DEF Bolsa!Exclusivo
  <1>1. ASSUME NEW i \in Bolsa!Ocupados
        PROVE  i \in Indices /\ Duenno[i] \in PGs /\ Lleva(Duenno[i], i)
    <2>1. i \in Indices /\ Duenno[i] # PES /\ i \notin Resueltos
      BY <1>1 DEF Bolsa!Ocupados
    <2>2. Duenno[i] \in PGs /\ NumeroEn(Duenno[i], i)
      BY <2>1, DuennoDe DEF DuennoBien
    <2>3. \A n \in DOMAIN recibidas : recibidas[n].numero # i
      BY <2>1 DEF Resueltos
    <2> QED BY <2>1, <2>2, <2>3 DEF NumeroEn
  <1>2. Lleva(Duenno[j], j) /\ Lleva(Duenno[j], l) /\ Duenno[j] \in PGs /\ j \in Indices /\ l \in Indices
    BY <1>1
  <1> QED BY <1>2 DEF IInv, InvNumeros

\* Nobody is told to finish before the last number is solved.
CerradoBien == Cerrado => Resueltos = Indices

LEMMA CerradoResueltos == IInv => CerradoBien
  <1> SUFFICES ASSUME IInv, Cerrado PROVE Resueltos = Indices
    BY DEF CerradoBien
  <1>1. Empezado /\ contadorFinalizados = PGReal
    BY DEF IInv, InvCuentas
  <1>2. Cardinality(Activos) = 0 /\ nextNumber = TOTALNUM
    <2>1. contadorFinalizados + Cardinality(Activos) = PGReal /\ (contadorFinalizados > 0 => nextNumber = TOTALNUM)
      BY <1>1 DEF IInv, InvCuentas
    <2> QED BY <1>1, <2>1, ActivosFinitos, PGRealTipo
  <1>3. Activos = {}
    BY <1>2, ActivosFinitos, FS_EmptySet
  <1>4. \A j \in Indices : j \in Resueltos
    <2> TAKE j \in Indices
    <2>1. j <= nextNumber
      BY <1>2 DEF Indices
    <2>2. \A p \in PGs : ~Lleva(p, j)
      BY <1>3 DEF Activos
    <2> QED BY <2>1, <2>2 DEF IInv, InvNumeros
  <1>5. Resueltos \subseteq Indices
    <2>1. recibidas \in Seq([numero : Indices, pg : PGs, respuestas : Nat])
      BY DEF IInv, TypeOK
    <2>2. \A n \in 1..Len(recibidas) : recibidas[n] \in [numero : Indices, pg : PGs, respuestas : Nat]
      BY <2>1, ElementOfSeq
    <2>3. DOMAIN recibidas = 1..Len(recibidas)
      BY <2>1
    <2> QED BY <2>2, <2>3 DEF Resueltos
  <1> QED BY <1>4, <1>5

LEMMA BolsaInicial ==
  ASSUME Init
  PROVE  Bolsa!Init
  <1>1. IInv
    BY Inicial
  <1>2. nextNumber = 0 /\ DOMAIN recibidas = {} /\ fase[PES] = "inicio"
    BY Unas, Roles DEF Init
  <1>3. Resueltos = {}
    BY <1>2 DEF Resueltos
  <1>4. \A j \in Indices, p \in PGs : ~NumeroEn(p, j)
    <2> SUFFICES ASSUME NEW j \in Indices, NEW p \in PGs, NumeroEn(p, j) PROVE FALSE
      OBVIOUS
    <2>1. Lleva(p, j)
      BY <1>2 DEF NumeroEn
    <2>2. j <= nextNumber
      BY <1>1, <2>1 DEF IInv, InvNumeros
    <2> QED BY <1>2, <2>2 DEF Indices
  <1>5. Duenno = [j \in Indices |-> PES]
    BY <1>4 DEF Duenno
  <1>6. Cerrado = FALSE
    <2>1. ~Empezado
      BY <1>2 DEF Empezado
    <2>2. ~Cerrado
      BY <1>1, <2>1 DEF IInv, InvCuentas
    <2> QED BY <2>2 DEF Cerrado
  <1> QED BY <1>3, <1>5, <1>6 DEF Bolsa!Init

\* What a step that hands out or collects numbers has to do.
LEMMA BolsaPaso ==
  ASSUME IInv, IInv', ~Cerrado,
         \A p \in PGs : \A j \in Indices : NumeroEn(p, j) => NumeroEn(p, j)',
         Resueltos \subseteq Resueltos',
         \A j \in Resueltos' \ Resueltos : j \in Indices /\ \E p \in PGs : NumeroEn(p, j)
  PROVE  Bolsa!Repartir
  <1>1. DuennoBien /\ DuennoBien'
    <2>1. IInv' => DuennoBien'
      BY DuennoDe, PTL
    <2> QED BY <2>1, DuennoDe
  <1>2. Duenno' \in [Indices -> PGs \cup {PES}]
    <2>1. \A j \in Indices : Duenno'[j] \in PGs \cup {PES}
      BY <1>1 DEF DuennoBien
    <2>2. Duenno' = [j \in Indices |-> Duenno'[j]]
      BY DEF Duenno
    <2> QED BY <2>1, <2>2
  <1>3. \A j \in Indices : Duenno[j] # PES => Duenno'[j] = Duenno[j]
    <2> SUFFICES ASSUME NEW j \in Indices, Duenno[j] # PES PROVE Duenno'[j] = Duenno[j]
      OBVIOUS
    <2>1. Duenno[j] \in PGs /\ NumeroEn(Duenno[j], j)
      BY <1>1 DEF DuennoBien
    <2>2. PICK p \in PGs : p = Duenno[j]
      BY <2>1
    <2>3. NumeroEn(p, j)'
      BY <2>1, <2>2
    <2>4. Duenno'[j] = p
      BY <1>1, <2>3 DEF DuennoBien
    <2> QED BY <2>2, <2>4
  <1>4. Resueltos' \ Resueltos \subseteq Bolsa!Ocupados
    <2> SUFFICES ASSUME NEW j \in Resueltos' \ Resueltos PROVE j \in Indices /\ Duenno[j] # PES
      BY DEF Bolsa!Ocupados
    <2>1. j \in Indices /\ \E p \in PGs : Duenno[j] = p
      BY <1>1 DEF DuennoBien
    <2> QED BY <2>1, Roles
  <1>5. Bolsa!Exclusivo'
    BY BolsaExclusiva, PTL
  <1>6. Cerrado' \in BOOLEAN /\ (Cerrado' => Resueltos' = Indices)
    <2>1. CerradoBien'
      BY CerradoResueltos, PTL
    <2> QED BY <2>1 DEF Cerrado, CerradoBien
  <1> QED BY <1>2, <1>3, <1>4, <1>5, <1>6 DEF Bolsa!Repartir
LEMMA BolsaQuieta ==
  ASSUME IInv, Quietos
  PROVE  UNCHANGED <<Duenno, Resueltos, Cerrado>>
  <1>1. recibidas' = recibidas /\ Resueltos' = Resueltos
    BY DEF Quietos, Resueltos
  <1>2. \A p \in PGs : \A j \in Indices : NumeroEn(p, j)' <=> NumeroEn(p, j)
    BY <1>1 DEF Quietos, NumeroEn
  <1>3. Duenno' = Duenno
    BY <1>2 DEF Duenno
  <1>4. Cerrado' = Cerrado
    BY DEF Quietos, Cerrado
  <1> QED BY <1>1, <1>3, <1>4

LEMMA BolsaRepartir ==
  ASSUME IInv, IInv', PESRepartir
  PROVE  Bolsa!Repartir
  <1>1. fase[PES] = "inicio" /\ recibidas' = recibidas
    BY DEF PESRepartir
  <1>2. ~Empezado
    BY <1>1 DEF Empezado
  <1>3. nextNumber = 0 /\ ~Cerrado /\ InvNumeros
    BY <1>2 DEF IInv, InvCuentas
  <1>4. Resueltos' = Resueltos
    BY <1>1 DEF Resueltos
  <1>5. \A p \in PGs : \A j \in Indices : ~Lleva(p, j)
    <2> SUFFICES ASSUME NEW p \in PGs, NEW j \in Indices, Lleva(p, j) PROVE FALSE
      OBVIOUS
    <2>1. j <= 0
      BY <1>3 DEF InvNumeros
    <2> QED BY <2>1 DEF Indices
  <1>6. \A p \in PGs : \A j \in Indices : NumeroEn(p, j) => NumeroEn(p, j)'
    BY <1>1, <1>5 DEF NumeroEn
  <1> QED BY <1>3, <1>4, <1>6, BolsaPaso

LEMMA BolsaEstadisticas ==
  ASSUME IInv, IInv', NEW o \in Rangos, PESEstadisticas(o)
  PROVE  Bolsa!Repartir
  <1>1. Empezado /\ o \in PGs /\ fase[o] = "bucle" /\ \E m : Colecta(o, m)
    BY EfectoEstadisticas
  <1>2. PICK m : Colecta(o, m)
    BY <1>1
  <1>3. UNCHANGED pg /\ (\A r \in Trabajadores : fase'[r] = fase[r])
        /\ nextNumber' = IF Quedan THEN nextNumber + 1 ELSE nextNumber
    <2>1. fase \in [Rangos -> Fases] /\ \A r \in Trabajadores : r \in Rangos /\ r # PES
      BY Roles DEF IInv, TypeOK
    <2> QED BY <2>1 DEF PESEstadisticas, Quedan
  <1>4. /\ \A l \in Indices : Lleva(o, l) <=> l = m.dato
        /\ \A p \in PGs \ {o} : \A l \in Indices : Lleva(p, l)' <=> Lleva(p, l)
        /\ ~Cerrado
    BY <1>1, <1>2, <1>3, LlevaEstadisticas
  <1>5. Resueltos' = Resueltos \cup {m.dato}
    BY <1>1, <1>2, <1>3, NumerosEstadisticas
  <1>6. m.dato \in Indices /\ NumeroEn(o, m.dato)
    BY <1>2, <1>4 DEF Colecta, NumeroEn
  <1>7. /\ \A n \in DOMAIN recibidas : n \in DOMAIN recibidas' /\ recibidas'[n] = recibidas[n]
        /\ \E n \in DOMAIN recibidas' : recibidas'[n].numero = m.dato /\ recibidas'[n].pg = o
    <2> DEFINE S == [numero : Indices, pg : PGs, respuestas : Nat]
               g == [numero |-> m.dato, pg |-> o, respuestas |-> m.respuestas]
               N == Len(recibidas)
    <2>1. recibidas \in Seq(S)
      BY DEF IInv, TypeOK
    <2>2. g \in S /\ g.numero = m.dato /\ g.pg = o
      BY <1>1, <1>2, <1>6 DEF Colecta, Mensajes
    <2>3. recibidas' = Append(recibidas, g)
      BY <1>2 DEF Colecta
    <2> HIDE DEF S, g
    <2>4. /\ N \in Nat /\ DOMAIN recibidas = 1..N /\ DOMAIN recibidas' = 1..(N + 1)
          /\ \A n \in 1..N : recibidas'[n] = recibidas[n]
          /\ recibidas'[N + 1] = g
      BY <2>1, <2>2, <2>3
    <2> HIDE DEF N
    <2>5. N + 1 \in DOMAIN recibidas' /\ \A n \in 1..N : n \in 1..(N + 1)
      BY <2>4
    <2> QED BY <2>2, <2>4, <2>5
  <1>8. ASSUME NEW p \in PGs, NEW j \in Indices, NumeroEn(p, j)
        PROVE  NumeroEn(p, j)'
    <2>1. CASE \E n \in DOMAIN recibidas : recibidas[n].numero = j /\ recibidas[n].pg = p
      BY <1>7, <2>1 DEF NumeroEn
    <2>2. CASE Lleva(p, j) /\ p # o
      BY <1>4, <2>2 DEF NumeroEn
    <2>3. CASE Lleva(p, j) /\ p = o
      BY <1>4, <1>7, <2>3 DEF NumeroEn
    <2> QED BY <1>8, <2>1, <2>2, <2>3 DEF NumeroEn
  <1> QED BY <1>1, <1>4, <1>5, <1>6, <1>8, BolsaPaso

\* Whatever the interleaving of the sessions, the program implements the bag: each number goes
\* to one manager, which holds no other, is solved once and stays solved, and FINALIZACION is
\* sent only when all the numbers are solved.
THEOREM ImplementaLaBolsa == Spec => ImplementaBolsa
  <1>1. Init => Bolsa!Init
    BY BolsaInicial
  <1>2. IInv /\ IInv' /\ [Next]_vars => [Bolsa!Repartir]_<<Duenno, Resueltos, Cerrado>>
    <2> SUFFICES ASSUME IInv, IInv', [Next]_vars
                 PROVE  Bolsa!Repartir \/ UNCHANGED <<Duenno, Resueltos, Cerrado>>
      OBVIOUS
    <2>1. Quietos \/ PESRepartir \/ \E o \in Rangos : PESEstadisticas(o)
      BY Paso
    <2> QED BY <2>1, BolsaQuieta, BolsaRepartir, BolsaEstadisticas
  <1> QED BY <1>1, <1>2, Invariante, PTL DEF Spec, ImplementaBolsa, Bolsa!Spec
=============================================================================
