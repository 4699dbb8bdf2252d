------------------------- MODULE MultidifusionPrueba -------------------------
(***************************************************************************)
(* Proofs about MultidifusionOrdenTotal, for every N and NUM_MENSAJES, any *)
(* number of rounds, and any number of HTTP failures and /reinicio.        *)
(***************************************************************************)
EXTENDS MultidifusionInvariante, TLAPS

USE NAssumption, MensajesAssumption, ArranquesAssumption, IntervencionesAssumption

-----------------------------------------------------------------------------
(* Types, for any number of rounds *)

LEMMA InitTipo == Init => TypeOK
  BY DEF Init, TypeOK, Nodos, Instancias, Claves, Mensajes, SinId, Fases, Marcas

LEMMA StartTipo ==
  ASSUME TypeOK, NEW p \in Nodos, StartEnTurno(p) PROVE TypeOK'
  <1> DEFINE a == miProceso[p] + 1
  <1>1. a \in Instancias /\ a \in 0..MaxArranques
    <2>1. miProceso[p] \in 0..MaxArranques
      BY DEF TypeOK
    <2>2. miProceso[p] < MaxArranques
      BY DEF StartEnTurno, Start
    <2> QED BY <2>1, <2>2 DEF Instancias
  <1>2. miProceso' \in [Nodos -> 0..MaxArranques]
    <2>1. miProceso' = [miProceso EXCEPT ![p] = a]
      BY DEF StartEnTurno, Start
    <2> QED BY <1>1, <2>1 DEF TypeOK
  <1>3. fase' \in [Nodos -> [Instancias -> Fases]]
    <2>1. fase' = [fase EXCEPT ![p][a] = "nuevo"]
      BY DEF StartEnTurno, Start
    <2> QED BY <1>1, <2>1 DEF TypeOK, Fases
  <1>4. arranque' \in [Nodos -> [Instancias -> 0..(N + 1)]]
    <2>1. arranque' = [arranque EXCEPT ![p][a] = 1]
      BY DEF StartEnTurno, Start
    <2> QED BY <1>1, <2>1 DEF TypeOK
  <1> QED BY <1>2, <1>3, <1>4 DEF TypeOK, StartEnTurno, Start, servidor

LEMMA PreparadoTipo ==
  ASSUME TypeOK, NEW p \in Nodos, NEW a \in Instancias, Preparado(p, a) PROVE TypeOK'
  <1> DEFINE d == arranque[p][a]
             f == Completa(d, p) /\ Arrancable(d)
             g == Completa(d, p) /\ ~Arrancable(d)
  <1>1. d \in Nodos /\ d + 1 \in 0..(N + 1) /\ BuzonPreparado(d, p)
    <2>1. d \in Nodos /\ BuzonPreparado(d, p)
      BY DEF Preparado
    <2> QED BY <2>1 DEF Nodos
  <1>2. preparados' \in [Nodos -> SUBSET Nodos] /\ semBuzon' \in [Nodos -> 0..1]
    BY <1>1 DEF BuzonPreparado, TypeOK
  <1>3. arranque' \in [Nodos -> [Instancias -> 0..(N + 1)]]
    <2>1. arranque' = [arranque EXCEPT ![p][a] = IF g THEN 0 ELSE d + 1]
      BY DEF Preparado
    <2>2. (IF g THEN 0 ELSE d + 1) \in 0..(N + 1)
      BY <1>1
    <2> QED BY <2>1, <2>2 DEF TypeOK
  <1>4. fase' \in [Nodos -> [Instancias -> Fases]] /\ faltan' \in [Nodos -> [Instancias -> SUBSET Nodos]]
    <2>1. CASE f
      <3>1. miProceso[d] \in Instancias
        <4>1. miProceso[d] \in 0..MaxArranques
          BY <1>1 DEF TypeOK
        <4>2. miProceso[d] # 0
          BY <2>1 DEF Arrancable
        <4> QED BY <4>1, <4>2 DEF Instancias
      <3>2. fase' = [fase EXCEPT ![d][miProceso[d]] = "apertura"]
            /\ faltan' = [faltan EXCEPT ![d][miProceso[d]] = Nodos]
        BY <2>1 DEF Preparado
      <3> QED BY <1>1, <3>1, <3>2 DEF TypeOK, Fases
    <2>2. CASE ~f
      BY <2>2 DEF Preparado, TypeOK
    <2> QED BY <2>1, <2>2
  <1> QED BY <1>1, <1>2, <1>3, <1>4 DEF TypeOK, Preparado, BuzonPreparado

LEMMA PropuestaNat ==
  ASSUME NEW r \in Nat, NEW d \in Nodos, NEW x \in Nat
  PROVE  Propuesta(r, d) \in Nat /\ Propuesta(r, d) > 0
         /\ EncontrarMaximo(x, Propuesta(r, d)) \in Nat
         /\ EncontrarMaximo(x, Propuesta(r, d)) > 0
         /\ EncontrarMaximo(x, Propuesta(r, d)) \in {x, Propuesta(r, d)}
  BY DEF Propuesta, EncontrarMaximo, Nodos

LEMMA ClaveMensaje ==
  ASSUME NEW p \in Nodos, NEW k \in Numeros
  PROVE  <<p, k>> \in Mensajes /\ <<p, k>> \in Claves
  BY DEF Mensajes, Claves, Numeros

LEMMA AperturaTipo ==
  ASSUME TypeOK, NEW p \in Nodos, NEW a \in Instancias, Apertura(p, a) PROVE TypeOK'
  <1>1. PICK d \in faltan[p][a] :
          /\ BuzonApertura(d, <<p, i[p][a]>>)
          /\ maximo' = [maximo EXCEPT ![p][a] = EncontrarMaximo(@, Propuesta(reloj[d], d))]
          /\ fase' = [fase EXCEPT ![p][a] = IF faltan[p][a] = {d} THEN "orden" ELSE @]
          /\ faltan' = [faltan EXCEPT ![p][a] = IF @ = {d} THEN Nodos ELSE @ \ {d}]
    BY DEF Apertura
  <1>2. d \in Nodos /\ <<p, i[p][a]>> \in Claves
    BY ClaveMensaje DEF TypeOK, Numeros
  <1>3. maximo' \in [Nodos -> [Instancias -> Nat]]
    <2>1. reloj[d] \in Nat /\ maximo[p][a] \in Nat
      BY <1>2 DEF TypeOK
    <2>2. EncontrarMaximo(maximo[p][a], Propuesta(reloj[d], d)) \in Nat
      BY <1>2, <2>1, PropuestaNat
    <2> QED BY <1>1, <2>2 DEF TypeOK
  <1>4. fase' \in [Nodos -> [Instancias -> Fases]] /\ faltan' \in [Nodos -> [Instancias -> SUBSET Nodos]]
    BY <1>1 DEF TypeOK, Fases
  <1>5. /\ reloj' \in [Nodos -> Nat] /\ orden' \in [Nodos -> [Claves -> Nat]]
        /\ flaj' \in [Nodos -> [Claves -> Marcas]]
    BY <1>1, <1>2 DEF TypeOK, BuzonApertura, Marcas
  <1> QED BY <1>1, <1>3, <1>4, <1>5 DEF TypeOK, Apertura, BuzonApertura

LEMMA OrdenTipo ==
  ASSUME TypeOK, NEW p \in Nodos, NEW a \in Instancias, Orden(p, a) PROVE TypeOK'
  <1>1. PICK d \in faltan[p][a] :
          /\ BuzonOrden(d, <<p, i[p][a]>>, maximo[p][a])
          /\ LET ultimo == faltan[p][a] = {d}
                 quedan == i[p][a] < NUM_MENSAJES
             IN  /\ faltan' = [faltan EXCEPT ![p][a] = IF ultimo THEN Nodos ELSE @ \ {d}]
                 /\ maximo' = [maximo EXCEPT ![p][a] = IF ultimo THEN 0 ELSE @]
                 /\ i' = [i EXCEPT ![p][a] = IF ultimo /\ quedan THEN @ + 1 ELSE @]
                 /\ fase' = [fase EXCEPT ![p][a] = IF ~ultimo THEN @
                                                   ELSE IF quedan THEN "apertura" ELSE "fin"]
    BY DEF Orden
  <1>2. d \in Nodos /\ <<p, i[p][a]>> \in Claves
    BY ClaveMensaje DEF TypeOK, Numeros
  <1>3. faltan' \in [Nodos -> [Instancias -> SUBSET Nodos]] /\ maximo' \in [Nodos -> [Instancias -> Nat]]
    BY <1>1 DEF TypeOK
  <1>4. fase' \in [Nodos -> [Instancias -> Fases]] /\ i' \in [Nodos -> [Instancias -> 1..NUM_MENSAJES]]
    BY <1>1 DEF TypeOK, Fases
  <1>5. /\ reloj' \in [Nodos -> Nat] /\ orden' \in [Nodos -> [Claves -> Nat]]
        /\ flaj' \in [Nodos -> [Claves -> Marcas]]
    BY <1>1, <1>2 DEF TypeOK, BuzonOrden, Marcas
  <1> QED BY <1>1, <1>3, <1>4, <1>5 DEF TypeOK, Orden, BuzonOrden

LEMMA FinTipo ==
  ASSUME TypeOK, NEW p \in Nodos, NEW a \in Instancias, Fin(p, a) PROVE TypeOK'
  <1>1. PICK d \in faltan[p][a] :
          /\ BuzonFin(d, p)
          /\ faltan' = [faltan EXCEPT ![p][a] = @ \ {d}]
          /\ fase' = [fase EXCEPT ![p][a] = IF faltan[p][a] = {d} THEN "terminado" ELSE @]
    BY DEF Fin
  <1>2. d \in Nodos
    BY DEF TypeOK
  <1>3. Lineas(d) \subseteq Claves \X Nat
    BY <1>2 DEF Lineas, TypeOK
  <1>4. /\ reloj' \in [Nodos -> Nat] /\ preparados' \in [Nodos -> SUBSET Nodos]
        /\ finalizados' \in [Nodos -> SUBSET Nodos] /\ escrituras' \in [Nodos -> Nat]
    BY <1>1, <1>2 DEF TypeOK, BuzonFin
  <1>5. fichero' \in [Nodos -> SUBSET (Claves \X Nat)]
    BY <1>1, <1>2, <1>3 DEF TypeOK, BuzonFin
  <1>6. fase' \in [Nodos -> [Instancias -> Fases]] /\ faltan' \in [Nodos -> [Instancias -> SUBSET Nodos]]
    BY <1>1 DEF TypeOK, Fases
  <1> QED BY <1>1, <1>4, <1>5, <1>6 DEF TypeOK, Fin, BuzonFin

LEMMA FallaTipo ==
  ASSUME TypeOK, NEW p \in Nodos, NEW a \in Instancias, FallaHTTP(p, a) PROVE TypeOK'
  BY DEF TypeOK, FallaHTTP, Intervenir, servidor, Fases

LEMMA ReinicioTipo ==
  ASSUME TypeOK, NEW p \in Nodos, Reinicio(p) PROVE TypeOK'
  <1>1. reloj' \in [Nodos -> Nat]
    <2>1. reloj' = [reloj EXCEPT ![p] = 0] \/ reloj' = reloj
      BY DEF Reinicio
    <2>2. reloj \in [Nodos -> Nat]
      BY DEF TypeOK
    <2> QED BY <2>1, <2>2
  <1>2. /\ preparados' = [preparados EXCEPT ![p] = {}] /\ finalizados' = [finalizados EXCEPT ![p] = {}]
        /\ intervenciones < MaxIntervenciones /\ intervenciones' = intervenciones + 1
        /\ UNCHANGED <<orden, flaj, semBuzon, fichero, escrituras, proceso, miProceso>>
    BY DEF Reinicio, Intervenir
  <1> QED BY <1>1, <1>2 DEF TypeOK, proceso

LEMMA PasoTipo == TypeOK /\ [NextIntervenciones]_vars => TypeOK'
  <1> SUFFICES ASSUME TypeOK, [NextIntervenciones]_vars PROVE TypeOK'
    OBVIOUS
  <1>1. CASE UNCHANGED vars
    BY <1>1 DEF TypeOK, vars, servidor, proceso
  <1>2. CASE NextIntervenciones
    <2>1. ASSUME NEW p \in Nodos, StartEnTurno(p) PROVE TypeOK'
      BY <2>1, StartTipo
    <2>2. ASSUME NEW p \in Nodos, NEW a \in Instancias, Preparado(p, a) PROVE TypeOK'
      BY <2>2, PreparadoTipo
    <2>3. ASSUME NEW p \in Nodos, NEW a \in Instancias, Multidifusion(p, a) PROVE TypeOK'
      BY <2>3, AperturaTipo, OrdenTipo, FinTipo DEF Multidifusion
    <2>4. ASSUME NEW p \in Nodos, NEW a \in Instancias, FallaHTTP(p, a) PROVE TypeOK'
      BY <2>4, FallaTipo
    <2>5. ASSUME NEW p \in Nodos, Reinicio(p) PROVE TypeOK'
      BY <2>5, ReinicioTipo
    <2> QED BY <1>2, <2>1, <2>2, <2>3, <2>4, <2>5 DEF NextIntervenciones, NextFallos, Next, Paso
  <1> QED BY <1>1, <1>2

\* Every variable keeps its type, in any number of rounds, whatever fails and whoever
\* calls /reinicio.
THEOREM TipoCorrecto == SpecIntervenciones => []TypeOK
  <1>1. Init => TypeOK
    BY InitTipo
  <1>2. TypeOK /\ [NextIntervenciones]_vars => TypeOK'
    BY PasoTipo
  <1> QED BY <1>1, <1>2, PTL DEF SpecIntervenciones

-----------------------------------------------------------------------------
(* Answers and messages *)

\* A new answer differs from every answer given since the clocks were 0.
LEMMA RespuestaNueva ==
  ASSUME NEW rj \in [Nodos -> Nat], NEW d \in Nodos, NEW v \in Nat, Contestado(v, rj)
  PROVE  v # Propuesta(rj[d], d)
  <1>0. PICK j \in Nodos : \E r \in 0..(rj[j] - 1) : v = Propuesta(r, j)
    BY DEF Contestado
  <1>1. PICK r \in 0..(rj[j] - 1) : v = Propuesta(r, j)
    BY <1>0
  <1>2. rj[j] \in Nat /\ rj[d] \in Nat /\ j \in 1..9 /\ d \in 1..9
    BY DEF Nodos
  <1>3. r \in Nat /\ r < rj[j]
    BY <1>2
  <1>4. CASE j = d
    BY <1>1, <1>2, <1>3, <1>4 DEF Propuesta
  <1>5. CASE j # d
    BY <1>1, <1>2, <1>3, <1>5 DEF Propuesta
  <1> QED BY <1>4, <1>5

\* An advance of one clock forgets no answer and adds the one just given.
LEMMA RelojAvanza ==
  ASSUME NEW rj \in [Nodos -> Nat], NEW d \in Nodos
  PROVE  LET rk == [rj EXCEPT ![d] = @ + 1]
         IN  /\ \A v \in Nat : Contestado(v, rj) => Contestado(v, rk)
             /\ Contestado(Propuesta(rj[d], d), rk)
  <1> DEFINE rk == [rj EXCEPT ![d] = @ + 1]
  <1>1. /\ rk \in [Nodos -> Nat]
        /\ rk[d] = rj[d] + 1
        /\ \A j \in Nodos : rj[j] <= rk[j]
    OBVIOUS
  <1>2. ASSUME NEW v \in Nat, Contestado(v, rj) PROVE Contestado(v, rk)
    <2>0. PICK j \in Nodos : \E r \in 0..(rj[j] - 1) : v = Propuesta(r, j)
      BY <1>2 DEF Contestado
    <2>1. PICK r \in 0..(rj[j] - 1) : v = Propuesta(r, j)
      BY <2>0
    <2>2. r \in 0..(rk[j] - 1)
      BY <1>1, <2>1
    <2> QED BY <2>1, <2>2 DEF Contestado
  <1>3. rj[d] \in 0..(rk[d] - 1)
    BY <1>1
  <1> QED BY <1>2, <1>3 DEF Contestado

LEMMA MensajePar ==
  ASSUME NEW m \in Mensajes
  PROVE  m[1] \in Nodos /\ m[2] \in Numeros /\ m = <<m[1], m[2]>> /\ m \in Claves
  BY DEF Mensajes, Numeros, Claves

\* A step neither agrees nor changes the order of a message outside M.
Conserva(a, M) == \A m \in Mensajes \ M :
    (Anunciado(m, a)' <=> Anunciado(m, a)) /\ (Anunciado(m, a) => orden'[1][m] = orden[1][m])

-----------------------------------------------------------------------------
(* Steps that leave alone what a part of the invariant speaks of *)

LEMMA RondasIgual ==
  ASSUME NEW a \in Instancias, InvRondas(a), UNCHANGED miProceso,
         \A q \in Nodos : escrituras'[q] \in {a - 1, a},
         \A q \in Nodos, b \in Instancias : b # a =>
            /\ fase'[q][b] = fase[q][b] /\ arranque'[q][b] = arranque[q][b]
            /\ i'[q][b] = i[q][b] /\ maximo'[q][b] = maximo[q][b]
  PROVE  InvRondas(a)'
  <1>1. ASSUME NEW q \in Nodos, NEW b \in Instancias
        PROVE  /\ b < a => fase'[q][b] = "terminado" /\ arranque'[q][b] = N + 1
               /\ b > a => /\ fase'[q][b] = "sin" /\ arranque'[q][b] = 0
                           /\ i'[q][b] = 1 /\ maximo'[q][b] = 0
    <2>1. /\ b < a => fase[q][b] = "terminado" /\ arranque[q][b] = N + 1
          /\ b > a => /\ fase[q][b] = "sin" /\ arranque[q][b] = 0
                      /\ i[q][b] = 1 /\ maximo[q][b] = 0
      BY DEF InvRondas
    <2>2. b < a \/ b > a => b # a
      BY DEF Instancias
    <2> QED BY <2>1, <2>2
  <1> QED BY <1>1 DEF InvRondas

\* Only the threads of the current round are running.
LEMMA EnRonda ==
  ASSUME NEW a \in Instancias, InvRondas(a), NEW p \in Nodos, NEW b \in Instancias,
         fase[p][b] \in {"apertura", "orden", "fin"}
  PROVE  b = a
  <1>1. ~(b < a) /\ ~(b > a)
    BY DEF InvRondas
  <1> QED BY <1>1 DEF Instancias

LEMMA RondaDePreparado ==
  ASSUME NEW a \in Instancias, InvRondas(a), NEW p \in Nodos, NEW b \in Instancias, Preparado(p, b)
  PROVE  b = a
  <1>1. arranque[p][b] \in Nodos
    BY DEF Preparado
  <1>2. ~(b < a) /\ ~(b > a)
    BY <1>1 DEF InvRondas, Nodos
  <1> QED BY <1>2 DEF Instancias

LEMMA CompletoIgual ==
  ASSUME NEW q \in Nodos, Completo(q),
         \A k \in Numeros, z \in Nodos : flaj'[z][<<q, k>>] = flaj[z][<<q, k>>] /\ orden'[z][<<q, k>>] = orden[z][<<q, k>>]
  PROVE  Completo(q)'
  BY DEF Completo, MismoOrden

\* While a thread multicasts nobody has heard its end, nor written the file.
LEMMA NadieEscribe ==
  ASSUME NEW a \in Instancias, InvRonda(a), NEW p \in Nodos, ~Cerrado(p, a)
  PROVE  \A q \in Nodos : p \notin finalizados[q] /\ escrituras[q] # a
  BY DEF InvRonda, InvFin

LEMMA InicioInv ==
  ASSUME Init PROVE TypeOK /\ InvRonda(1) /\ InvOrdenes(1) /\ 1 \in Instancias
  <1>0. TypeOK
    BY InitTipo
  <1>1. 1 \in Nodos /\ 1 \in Instancias
    BY DEF Instancias, Nodos
  <1>2. InvRondas(1)
    BY <1>1 DEF Init, InvRondas, Instancias
  <1>3. InvArranque(1)
    BY <1>1 DEF Init, InvArranque, SemaforoLibre, Difunde, Cerrado
  <1>4. InvHilo(1)
    BY <1>1 DEF Init, InvHilo
  <1>5. \A m \in Mensajes : ~Anunciado(m, 1)
    <2> SUFFICES ASSUME NEW m \in Mensajes PROVE ~Anunciado(m, 1)
      OBVIOUS
    <2>1. m[1] \in Nodos /\ m[2] \in Numeros
      BY MensajePar
    <2>2. i[m[1]][1] = 1 /\ fase[m[1]][1] = "sin"
      BY <2>1, <1>1 DEF Init
    <2> QED BY <2>1, <2>2 DEF Anunciado, Numeros
  <1>6. InvRegistro(1)
    <2>1. \A q \in Nodos : flaj[q][SinId] = "ausente"
      BY DEF Init, Claves
    <2>2. ASSUME NEW p \in Nodos, NEW q \in Nodos, NEW k \in Numeros PROVE EnRegistro(p, q, k, 1)
      <3>1. <<p, k>> \in Mensajes /\ <<p, k>> \in Claves
        BY ClaveMensaje
      <3>2. i[p][1] = 1 /\ fase[p][1] = "sin" /\ flaj[q][<<p, k>>] = "ausente" /\ ~(k < 1)
        BY <1>1, <3>1 DEF Init, Numeros
      <3> QED BY <3>1, <3>2, <1>5 DEF EnRegistro
    <2> QED BY <2>1, <2>2 DEF InvRegistro
  <1>7. InvFin(1)
    BY <1>1 DEF Init, InvFin, Acuerdo
  <1>8. InvOrdenes(1)
    BY <1>1, <1>5 DEF Init, InvOrdenes, InvUnico, InvReloj, Difunde, FicheroCompleto
  <1> QED BY <1>0, <1>1, <1>2, <1>3, <1>4, <1>6, <1>7, <1>8 DEF InvRonda

-----------------------------------------------------------------------------
(* Each step keeps the invariant of its round *)

LEMMA AperturaInv ==
  ASSUME TypeOK, NEW a \in Instancias, InvRonda(a), NEW p \in Nodos, Apertura(p, a)
  PROVE  InvRonda(a)' /\ (InvOrdenes(a) => InvOrdenes(a)') /\ Conserva(a, {})
  <1> DEFINE n == i[p][a]
             m == <<p, n>>
  <1>a. 1 \in Nodos
    BY DEF Nodos
  <1>m. n \in Numeros /\ m \in Claves /\ m \in Mensajes
    BY ClaveMensaje DEF TypeOK, Numeros
  <1>1. PICK d \in faltan[p][a] :
          /\ BuzonApertura(d, m)
          /\ maximo' = [maximo EXCEPT ![p][a] = EncontrarMaximo(@, Propuesta(reloj[d], d))]
          /\ fase' = [fase EXCEPT ![p][a] = IF faltan[p][a] = {d} THEN "orden" ELSE @]
          /\ faltan' = [faltan EXCEPT ![p][a] = IF @ = {d} THEN Nodos ELSE @ \ {d}]
    BY DEF Apertura
  <1>d. d \in Nodos /\ faltan[p][a] \subseteq Nodos
    BY DEF TypeOK
  <1>f. fase[p][a] = "apertura" /\ UNCHANGED <<i, arranque, miProceso>>
    BY DEF Apertura
  <1>2. /\ \A q \in Nodos : fase'[q][a] = IF q = p /\ faltan[p][a] = {d} THEN "orden" ELSE fase[q][a]
        /\ \A q \in Nodos : faltan'[q][a] = IF q # p THEN faltan[q][a]
                                             ELSE IF faltan[p][a] = {d} THEN Nodos
                                             ELSE faltan[p][a] \ {d}
        /\ \A q \in Nodos : q # p => maximo'[q][a] = maximo[q][a]
        /\ maximo'[p][a] = EncontrarMaximo(maximo[p][a], Propuesta(reloj[d], d))
    BY <1>1 DEF TypeOK
  <1>b. \A q \in Nodos, b \in Instancias : b # a => fase'[q][b] = fase[q][b] /\ maximo'[q][b] = maximo[q][b]
    BY <1>1 DEF TypeOK
  <1>3. /\ \A q \in Nodos, c \in Claves : orden'[q][c] = IF q = d /\ c = m THEN 0 ELSE orden[q][c]
        /\ \A q \in Nodos, c \in Claves : flaj'[q][c] = IF q = d /\ c = m THEN "pendiente" ELSE flaj[q][c]
        /\ reloj' = [reloj EXCEPT ![d] = @ + 1]
        /\ UNCHANGED <<preparados, finalizados, semBuzon, fichero, escrituras>>
    BY <1>1, <1>d, <1>m DEF BuzonApertura, TypeOK
  <1>4. InvRondas(a)'
    <2>1. \A q \in Nodos : escrituras'[q] \in {a - 1, a}
      BY <1>3 DEF InvRonda, InvRondas
    <2> QED BY <2>1, <1>b, <1>f, RondasIgual DEF InvRonda
  <1>5. /\ maximo'[p][a] \in Nat /\ maximo'[p][a] > 0
        /\ maximo'[p][a] \in {maximo[p][a], Propuesta(reloj[d], d)}
        /\ maximo[p][a] \in Nat /\ reloj[d] \in Nat
    BY <1>2, <1>d, PropuestaNat DEF TypeOK
  <1>6. InvArranque(a)'
    BY <1>2, <1>3, <1>f DEF InvRonda, InvArranque, SemaforoLibre, Avisado, Difunde, Cerrado
  <1>7. InvHilo(a)'
    BY <1>1, <1>2, <1>5, <1>f, <1>d, <1>a DEF InvRonda, InvHilo
  <1>8. \A c \in Mensajes : /\ Anunciado(c, a)' <=> Anunciado(c, a)
                            /\ Anunciado(c, a) => orden'[1][c] = orden[1][c] /\ orden[1][c] \in Nat
    <2> SUFFICES ASSUME NEW c \in Mensajes
                 PROVE  /\ Anunciado(c, a)' <=> Anunciado(c, a)
                        /\ Anunciado(c, a) => orden'[1][c] = orden[1][c] /\ orden[1][c] \in Nat
      OBVIOUS
    <2>1. c[1] \in Nodos /\ c[2] \in Numeros /\ c \in Claves /\ c = <<c[1], c[2]>>
      BY MensajePar
    <2>2. orden[1][c] \in Nat
      BY <2>1, <1>a DEF TypeOK
    <2>3. CASE c[1] # p
      <3>1. c # m
        BY <2>3
      <3>2. flaj'[1][c] = flaj[1][c] /\ orden'[1][c] = orden[1][c]
        BY <3>1, <2>1, <1>3, <1>a
      <3>3. fase'[c[1]][a] = fase[c[1]][a] /\ faltan'[c[1]][a] = faltan[c[1]][a]
        BY <2>1, <2>3, <1>2
      <3> QED BY <3>2, <3>3, <2>2, <1>f DEF Anunciado
    <2>4. CASE c[1] = p
      <3>1. Anunciado(c, a) <=> c[2] < n
        BY <2>4, <1>f DEF Anunciado
      <3>2. fase'[p][a] \in {"apertura", "orden"} /\ i'[p][a] = n
        BY <1>2, <1>f
      <3>3. fase'[p][a] = "orden" => flaj'[1][m] = "pendiente"
        <4>1. EnRegistro(p, 1, n, a)
          BY <1>a, <1>m DEF InvRonda, InvRegistro
        <4> QED BY <4>1, <1>2, <1>3, <1>f, <1>a, <1>m DEF EnRegistro
      <3>4. Anunciado(c, a)' <=> c[2] < n
        BY <3>2, <3>3, <2>1, <2>4 DEF Anunciado
      <3>5. c[2] < n => c # m
        BY <2>1, <1>m DEF Numeros
      <3> QED BY <3>1, <3>4, <3>5, <2>1, <2>2, <1>3, <1>a
    <2> QED BY <2>3, <2>4
  <1>9. InvRegistro(a)'
    <2>1. \A q \in Nodos : flaj'[q][SinId] = "ausente"
      BY <1>3, <1>m DEF InvRonda, InvRegistro, SinId, Claves, Nodos
    <2>2. ASSUME NEW s \in Nodos, NEW q \in Nodos, NEW k \in Numeros PROVE EnRegistro(s, q, k, a)'
      <3>1. <<s, k>> \in Claves /\ <<s, k>> \in Mensajes
        BY ClaveMensaje
      <3>2. EnRegistro(s, q, k, a)
        BY DEF InvRonda, InvRegistro
      <3>3. Anunciado(<<s, k>>, a)' => orden'[1][<<s, k>>] > 0
        BY <1>8, <3>1, <3>2 DEF EnRegistro
      <3>4. CASE s = p /\ k = n
        <4>1. ~(n < n) /\ ~(n > n)
          BY <1>m DEF Numeros
        <4>2. q = d \/ q \notin faltan[p][a] => flaj'[q][m] = "pendiente"
          BY <3>2, <3>4, <1>3, <1>f, <1>m DEF EnRegistro
        <4>3. a = 1 /\ q # d /\ q \in faltan[p][a] => flaj'[q][m] = "ausente"
          BY <3>2, <3>4, <1>3, <1>f, <1>m DEF EnRegistro, SinEnviar
        <4>4. \/ fase'[p][a] = "orden" /\ faltan[p][a] = {d} /\ faltan'[p][a] = Nodos
              \/ fase'[p][a] = "apertura" /\ faltan'[p][a] = faltan[p][a] \ {d}
          BY <1>2, <1>f
        <4> QED BY <4>1, <4>2, <4>3, <4>4, <3>3, <3>4, <1>f DEF EnRegistro, SinEnviar
      <3>5. CASE ~(s = p /\ k = n)
        <4>1. \A z \in Nodos : flaj'[z][<<s, k>>] = flaj[z][<<s, k>>] /\ orden'[z][<<s, k>>] = orden[z][<<s, k>>]
          BY <1>3, <3>1, <3>5
        <4>2. MismoOrden(s, k) => MismoOrden(s, k)'
          BY <4>1 DEF MismoOrden
        <4>3. CASE s # p
          <5>1. fase'[s][a] = fase[s][a] /\ faltan'[s][a] = faltan[s][a] /\ i'[s][a] = i[s][a] /\ maximo'[s][a] = maximo[s][a]
            BY <4>3, <1>2, <1>f
          <5> QED BY <5>1, <4>1, <4>2, <3>2, <3>3 DEF EnRegistro, SinEnviar
        <4>4. CASE s = p
          <5>1. k # i'[p][a] /\ i'[p][a] = n /\ fase'[p][a] \in {"apertura", "orden"}
            BY <4>4, <3>5, <1>2, <1>f
          <5> QED BY <5>1, <4>1, <4>2, <4>4, <3>2, <3>3, <1>f DEF EnRegistro, SinEnviar
        <4> QED BY <4>3, <4>4
      <3> QED BY <3>4, <3>5
    <2> QED BY <2>1, <2>2 DEF InvRegistro
  <1>10. Difunde(p, a) /\ ~Cerrado(p, a) /\ \A q \in Nodos : Difunde(q, a)' <=> Difunde(q, a)
    BY <1>2, <1>f DEF Difunde, Cerrado
  <1>e. \A q \in Nodos : p \notin finalizados[q] /\ escrituras[q] # a
    BY <1>10, NadieEscribe
  <1>11. InvFin(a)'
    <2>1. ASSUME NEW r \in Nodos, NEW q \in Nodos, q \in finalizados'[r] \/ escrituras'[r] = a
          PROVE  /\ Cerrado(q, a)' /\ Completo(q)'
                 /\ \A k \in Numeros : Anunciado(<<q, k>>, a)'
                 /\ fase'[q][a] = "fin" => r \notin faltan'[q][a]
      <3>1. q \in finalizados[r] /\ q # p
        BY <2>1, <1>3, <1>e
      <3>2. /\ Cerrado(q, a) /\ Completo(q)
            /\ \A k \in Numeros : Anunciado(<<q, k>>, a)
            /\ fase[q][a] = "fin" => r \notin faltan[q][a]
        BY <3>1 DEF InvRonda, InvFin
      <3>3. \A k \in Numeros, z \in Nodos : flaj'[z][<<q, k>>] = flaj[z][<<q, k>>] /\ orden'[z][<<q, k>>] = orden[z][<<q, k>>]
        BY <3>1, <1>3, ClaveMensaje
      <3>4. Completo(q)'
        BY <3>2, <3>3, CompletoIgual
      <3>5. \A k \in Numeros : Anunciado(<<q, k>>, a)'
        BY <3>2, <1>8, ClaveMensaje
      <3>6. fase'[q][a] = fase[q][a] /\ faltan'[q][a] = faltan[q][a]
        BY <3>1, <1>2
      <3> QED BY <3>2, <3>4, <3>5, <3>6 DEF Cerrado
    <2>2. Acuerdo' /\ \A q \in Nodos : (escrituras'[q] = 0 => fichero'[q] = {}) /\ escrituras'[q] # a
      BY <1>3, <1>e DEF InvRonda, InvFin, Acuerdo
    <2> QED BY <2>1, <2>2 DEF InvFin
  <1>12. ASSUME InvOrdenes(a) PROVE InvUnico(a)'
    <2>1. \A c \in Mensajes : Anunciado(c, a) => orden[1][c] # maximo'[p][a]
      <3> SUFFICES ASSUME NEW c \in Mensajes, Anunciado(c, a) PROVE orden[1][c] # maximo'[p][a]
        OBVIOUS
      <3>1. c # m
        BY <1>f, <1>m DEF Anunciado, Numeros
      <3>2. maximo[p][a] # orden[1][c]
        BY <3>1, <1>10, <1>m, <1>12 DEF InvOrdenes, InvUnico
      <3>3. Contestado(orden[1][c], reloj)
        BY <1>10, <1>12 DEF InvOrdenes, InvReloj
      <3>4. orden[1][c] # Propuesta(reloj[d], d)
        <4>1. reloj \in [Nodos -> Nat] /\ orden[1][c] \in Nat
          BY <1>8 DEF TypeOK
        <4> QED BY <4>1, <3>3, <1>d, RespuestaNueva
      <3> QED BY <3>2, <3>4, <1>5
    <2>2. \A q \in Nodos \ {p} : Difunde(q, a) => maximo[q][a] # maximo'[p][a]
      <3> SUFFICES ASSUME NEW q \in Nodos \ {p}, Difunde(q, a) PROVE maximo[q][a] # maximo'[p][a]
        OBVIOUS
      <3>1. maximo[q][a] \in Nat
        BY DEF TypeOK
      <3>2. maximo[p][a] > 0 => maximo[q][a] # maximo[p][a]
        BY <1>10, <1>12 DEF InvOrdenes, InvUnico
      <3>3. maximo[q][a] > 0 => maximo[q][a] # Propuesta(reloj[d], d)
        BY <3>1, <1>10, <1>d, <1>12, RespuestaNueva DEF InvOrdenes, InvReloj, TypeOK
      <3> QED BY <3>1, <3>2, <3>3, <1>5
    <2>3. ASSUME NEW c \in Mensajes, NEW e \in Mensajes, c # e, Anunciado(c, a)', Anunciado(e, a)'
          PROVE  orden'[1][c] # orden'[1][e]
      BY <2>3, <1>8, <1>12 DEF InvOrdenes, InvUnico
    <2>4. ASSUME NEW q \in Nodos, NEW c \in Mensajes, Difunde(q, a)', c # <<q, i'[q][a]>>, Anunciado(c, a)'
          PROVE  maximo'[q][a] # orden'[1][c]
      <3>1. Anunciado(c, a) /\ orden'[1][c] = orden[1][c]
        BY <2>4, <1>8
      <3>2. CASE q = p
        BY <3>1, <3>2, <2>1
      <3>3. CASE q # p
        BY <3>1, <3>3, <2>4, <1>2, <1>10, <1>f, <1>12 DEF InvOrdenes, InvUnico
      <3> QED BY <3>2, <3>3
    <2>5. ASSUME NEW q \in Nodos, NEW r \in Nodos, q # r, Difunde(q, a)', Difunde(r, a)', maximo'[q][a] > 0
          PROVE  maximo'[q][a] # maximo'[r][a]
      <3>1. CASE q = p
        BY <3>1, <2>5, <2>2, <1>2, <1>10
      <3>2. CASE r = p
        BY <3>2, <2>5, <2>2, <1>2, <1>10
      <3>3. CASE q # p /\ r # p
        BY <3>3, <2>5, <1>2, <1>10, <1>12 DEF InvOrdenes, InvUnico
      <3> QED BY <3>1, <3>2, <3>3
    <2> QED BY <2>3, <2>4, <2>5 DEF InvUnico
  <1>13. ASSUME InvOrdenes(a) PROVE InvReloj(a)'
    <2>1. /\ \A v \in Nat : Contestado(v, reloj) => Contestado(v, reloj')
          /\ Contestado(Propuesta(reloj[d], d), reloj')
      <3>1. reloj \in [Nodos -> Nat] /\ reloj' = [reloj EXCEPT ![d] = @ + 1]
        BY <1>3 DEF TypeOK
      <3> QED BY <3>1, <1>d, RelojAvanza
    <2>2. ASSUME NEW c \in Mensajes, Anunciado(c, a)' PROVE Contestado(orden'[1][c], reloj')
      <3>1. Anunciado(c, a) /\ orden'[1][c] = orden[1][c] /\ orden[1][c] \in Nat
        BY <2>2, <1>8
      <3>2. Contestado(orden[1][c], reloj)
        BY <3>1, <1>10, <1>13 DEF InvOrdenes, InvReloj
      <3> QED BY <3>1, <3>2, <2>1
    <2>3. ASSUME NEW q \in Nodos, Difunde(q, a)', maximo'[q][a] > 0 PROVE Contestado(maximo'[q][a], reloj')
      <3>1. Difunde(q, a) /\ maximo[q][a] \in Nat
        BY <2>3, <1>10 DEF TypeOK
      <3>2. \/ maximo'[q][a] = maximo[q][a] /\ maximo[q][a] > 0
            \/ maximo'[q][a] = Propuesta(reloj[d], d)
        BY <2>3, <1>2, <1>5
      <3>3. maximo[q][a] > 0 => Contestado(maximo[q][a], reloj)
        BY <3>1, <1>10, <1>13 DEF InvOrdenes, InvReloj
      <3> QED BY <3>1, <3>2, <3>3, <2>1
    <2> QED BY <2>2, <2>3 DEF InvReloj
  <1>14. FicheroCompleto => FicheroCompleto'
    BY <1>3 DEF FicheroCompleto
  <1>15. Conserva(a, {})
    BY <1>8 DEF Conserva
  <1> QED BY <1>4, <1>6, <1>7, <1>9, <1>11, <1>12, <1>13, <1>14, <1>15 DEF InvRonda, InvOrdenes

LEMMA OrdenInv ==
  ASSUME TypeOK, NEW a \in Instancias, InvRonda(a), NEW p \in Nodos, Orden(p, a)
  PROVE  /\ InvRonda(a)' /\ (InvOrdenes(a) => InvOrdenes(a)')
         /\ \/ Conserva(a, {})
            \/ \E m \in Mensajes : ~Anunciado(m, a) /\ Anunciado(m, a)' /\ Conserva(a, {m})
  <1>n. PICK n \in Numeros : n = i[p][a]
    BY DEF TypeOK, Numeros
  <1> DEFINE m == <<p, n>>
             x == maximo[p][a]
             quedan == n < NUM_MENSAJES
  <1>a. 1 \in Nodos
    BY DEF Nodos
  <1>m. n \in Numeros /\ m \in Claves /\ m \in Mensajes /\ x \in Nat
    BY ClaveMensaje DEF TypeOK
  <1>1. PICK d \in faltan[p][a] :
          /\ Primero(d, faltan[p][a])
          /\ BuzonOrden(d, m, x)
          /\ LET ultimo == faltan[p][a] = {d}
             IN  /\ faltan' = [faltan EXCEPT ![p][a] = IF ultimo THEN Nodos ELSE @ \ {d}]
                 /\ maximo' = [maximo EXCEPT ![p][a] = IF ultimo THEN 0 ELSE @]
                 /\ i' = [i EXCEPT ![p][a] = IF ultimo /\ quedan THEN @ + 1 ELSE @]
                 /\ fase' = [fase EXCEPT ![p][a] = IF ~ultimo THEN @
                                                   ELSE IF quedan THEN "apertura" ELSE "fin"]
    BY <1>n DEF Orden
  <1> DEFINE u == faltan[p][a] = {d}
  <1>d. d \in Nodos /\ faltan[p][a] \subseteq Nodos
    BY DEF TypeOK
  <1>f. fase[p][a] = "orden" /\ x > 0 /\ n = i[p][a] /\ UNCHANGED <<arranque, miProceso>>
    BY <1>n DEF Orden, InvRonda, InvHilo
  <1>2. /\ \A q \in Nodos : q # p => /\ fase'[q][a] = fase[q][a] /\ faltan'[q][a] = faltan[q][a]
                                     /\ i'[q][a] = i[q][a] /\ maximo'[q][a] = maximo[q][a]
        /\ fase'[p][a] = IF ~u THEN "orden" ELSE IF quedan THEN "apertura" ELSE "fin"
        /\ faltan'[p][a] = IF u THEN Nodos ELSE faltan[p][a] \ {d}
        /\ i'[p][a] = IF u /\ quedan THEN n + 1 ELSE n
        /\ maximo'[p][a] = IF u THEN 0 ELSE x
    BY <1>1, <1>f DEF TypeOK
  <1>b. \A q \in Nodos, b \in Instancias : b # a =>
           fase'[q][b] = fase[q][b] /\ maximo'[q][b] = maximo[q][b] /\ i'[q][b] = i[q][b]
    BY <1>1 DEF TypeOK
  <1>e. flaj[d][m] = "pendiente"
    <2>1. EnRegistro(p, d, n, a)
      BY <1>d, <1>m DEF InvRonda, InvRegistro
    <2> QED BY <2>1, <1>f DEF EnRegistro
  <1>3. /\ \A q \in Nodos, c \in Claves : orden'[q][c] = IF q = d /\ c = m THEN x ELSE orden[q][c]
        /\ \A q \in Nodos, c \in Claves : flaj'[q][c] = IF q = d /\ c = m THEN "entregable" ELSE flaj[q][c]
        /\ reloj' = [reloj EXCEPT ![d] = @ + 1]
        /\ UNCHANGED <<preparados, finalizados, semBuzon, fichero, escrituras>>
    BY <1>1, <1>d, <1>m, <1>e DEF BuzonOrden, TypeOK
  <1>4. InvRondas(a)'
    <2>1. \A q \in Nodos : escrituras'[q] \in {a - 1, a}
      BY <1>3 DEF InvRonda, InvRondas
    <2> QED BY <2>1, <1>b, <1>f, RondasIgual DEF InvRonda
  <1>5. d # 1 => 1 \notin faltan[p][a]
    BY <1>1, <1>d DEF Primero, Nodos
  <1>6. InvArranque(a)'
    BY <1>2, <1>3, <1>f DEF InvRonda, InvArranque, SemaforoLibre, Avisado, Difunde, Cerrado
  <1>7. InvHilo(a)'
    <2>1. ASSUME NEW q \in Nodos, q # p
          PROVE  /\ fase'[q][a] = fase[q][a] /\ faltan'[q][a] = faltan[q][a]
                 /\ i'[q][a] = i[q][a] /\ maximo'[q][a] = maximo[q][a]
      BY <2>1, <1>2
    <2>2. /\ fase'[p][a] \in {"apertura", "orden", "fin"} /\ faltan'[p][a] # {}
          /\ fase'[p][a] = "apertura" => faltan'[p][a] = Nodos /\ maximo'[p][a] = 0
          /\ fase'[p][a] = "orden" => maximo'[p][a] > 0 /\ 1 \notin faltan'[p][a]
          /\ fase'[p][a] = "fin" => i'[p][a] = NUM_MENSAJES /\ faltan'[p][a] = Nodos
      <3>1. CASE u
        <4>1. fase'[p][a] = "fin" => n = NUM_MENSAJES /\ i'[p][a] = n
          BY <3>1, <1>2, <1>m DEF Numeros
        <4>2. fase'[p][a] \in {"apertura", "fin"} /\ faltan'[p][a] = Nodos /\ maximo'[p][a] = 0
          BY <3>1, <1>2
        <4> QED BY <4>1, <4>2, <1>a
      <3>2. CASE ~u
        BY <3>2, <1>1, <1>2, <1>5, <1>f
      <3> QED BY <3>1, <3>2
    <2> QED BY <2>1, <2>2 DEF InvRonda, InvHilo
  \* node 1 is told first, so from here on it holds the order
  <1>8. flaj'[1][m] = "entregable" /\ orden'[1][m] = x
    <2>1. EnRegistro(p, 1, n, a)
      BY <1>a, <1>m DEF InvRonda, InvRegistro
    <2> QED BY <2>1, <1>3, <1>5, <1>f, <1>m, <1>a DEF EnRegistro
  <1>9. \A c \in Claves \ {m} : flaj'[1][c] = flaj[1][c] /\ orden'[1][c] = orden[1][c]
    BY <1>3, <1>a
  <1>10. Anunciado(m, a)' /\ \A c \in Mensajes \ {m} : Anunciado(c, a)' <=> Anunciado(c, a)
    <2>1. Anunciado(m, a)'
      <3>1. CASE u
        <4>1. n < i'[p][a] \/ fase'[p][a] = "fin"
          BY <3>1, <1>2, <1>m DEF Numeros
        <4> QED BY <4>1 DEF Anunciado
      <3>2. CASE ~u
        <4>1. fase'[p][a] = "orden" /\ i'[p][a] = n /\ 1 \notin faltan'[p][a]
          BY <3>2, <1>2, <1>5
        <4> QED BY <4>1, <1>8 DEF Anunciado
      <3> QED BY <3>1, <3>2
    <2>2. ASSUME NEW c \in Mensajes \ {m} PROVE Anunciado(c, a)' <=> Anunciado(c, a)
      <3>1. c[1] \in Nodos /\ c[2] \in Numeros /\ c \in Claves /\ c = <<c[1], c[2]>>
        BY MensajePar
      <3>2. CASE c[1] # p
        <4>1. /\ fase'[c[1]][a] = fase[c[1]][a] /\ faltan'[c[1]][a] = faltan[c[1]][a]
              /\ i'[c[1]][a] = i[c[1]][a] /\ flaj'[1][c] = flaj[1][c]
          BY <3>1, <3>2, <1>2, <1>9
        <4> QED BY <4>1 DEF Anunciado
      <3>3. CASE c[1] = p
        <4>1. c[2] # n /\ c[2] \in 1..NUM_MENSAJES /\ n \in 1..NUM_MENSAJES
          BY <3>1, <3>3, <1>m DEF Numeros
        <4>2. Anunciado(c, a) <=> c[2] < n
          BY <4>1, <3>3, <1>f DEF Anunciado
        <4>3. Anunciado(c, a)' <=> c[2] < i'[p][a] \/ fase'[p][a] = "fin"
                                   \/ (c[2] = i'[p][a] /\ fase'[p][a] = "orden" /\ flaj'[1][c] = "entregable"
                                       /\ (1 \notin faltan'[p][a] \/ a = 1))
          BY <3>3, <1>2 DEF Anunciado
        <4>4. CASE u /\ quedan
          BY <4>1, <4>2, <4>3, <4>4, <1>2
        <4>5. CASE u /\ ~quedan
          BY <4>1, <4>2, <4>3, <4>5, <1>2
        <4>6. CASE ~u
          BY <4>1, <4>2, <4>3, <4>6, <1>2
        <4> QED BY <4>4, <4>5, <4>6
      <3> QED BY <3>2, <3>3
    <2> QED BY <2>1, <2>2
  <1>11. \A c \in Mensajes : Anunciado(c, a) => orden[1][c] > 0 /\ orden[1][c] \in Nat
    <2> SUFFICES ASSUME NEW c \in Mensajes, Anunciado(c, a) PROVE orden[1][c] > 0 /\ orden[1][c] \in Nat
      OBVIOUS
    <2>1. c[1] \in Nodos /\ c[2] \in Numeros /\ c \in Claves /\ c = <<c[1], c[2]>>
      BY MensajePar
    <2>2. EnRegistro(c[1], 1, c[2], a)
      BY <2>1, <1>a DEF InvRonda, InvRegistro
    <2>3. orden[1][c] \in Nat
      BY <2>1, <1>a DEF TypeOK
    <2> QED BY <2>1, <2>2, <2>3 DEF EnRegistro
  <1>12. InvRegistro(a)'
    <2>1. \A q \in Nodos : flaj'[q][SinId] = "ausente"
      BY <1>3, <1>m DEF InvRonda, InvRegistro, SinId, Claves, Nodos
    <2>2. ASSUME NEW s \in Nodos, NEW q \in Nodos, NEW k \in Numeros PROVE EnRegistro(s, q, k, a)'
      <3>1. <<s, k>> \in Claves /\ <<s, k>> \in Mensajes
        BY ClaveMensaje
      <3>2. EnRegistro(s, q, k, a)
        BY DEF InvRonda, InvRegistro
      <3>3. Anunciado(<<s, k>>, a)' => orden'[1][<<s, k>>] > 0
        <4>1. CASE <<s, k>> = m
          BY <4>1, <1>8, <1>f
        <4>2. CASE <<s, k>> # m
          BY <4>2, <3>1, <1>9, <1>10, <1>11
        <4> QED BY <4>1, <4>2
      <3>4. CASE s = p /\ k = n
        <4>1. \A z \in Nodos : EnRegistro(p, z, n, a)
          BY <1>m DEF InvRonda, InvRegistro
        <4>2. \A z \in Nodos : IF z \in faltan[p][a] /\ z # d
                                 THEN flaj'[z][m] = "pendiente"
                                 ELSE flaj'[z][m] = "entregable" /\ orden'[z][m] = x
          BY <4>1, <1>3, <1>m, <1>f DEF EnRegistro
        <4>3. CASE u
          <5>1. MismoOrden(s, k)'
            BY <3>4, <4>2, <4>3, <1>f DEF MismoOrden
          <5>2. ~(n > i'[p][a]) /\ fase'[p][a] \notin {"sin", "nuevo", "orden"} /\ ~(n = i'[p][a] /\ fase'[p][a] = "apertura")
            BY <4>3, <1>2, <1>m DEF Numeros
          <5> QED BY <5>1, <5>2, <3>3, <3>4 DEF EnRegistro, SinEnviar
        <4>4. CASE ~u
          <5>1. n = i'[p][a] /\ fase'[p][a] = "orden" /\ faltan'[p][a] = faltan[p][a] \ {d} /\ maximo'[p][a] = x
            BY <4>4, <1>2
          <5>2. ~(n < n) /\ ~(n > n)
            BY <1>m DEF Numeros
          <5> QED BY <5>1, <5>2, <3>3, <3>4, <4>2 DEF EnRegistro, SinEnviar
        <4> QED BY <4>3, <4>4
      <3>5. CASE ~(s = p /\ k = n)
        <4>1. \A z \in Nodos : flaj'[z][<<s, k>>] = flaj[z][<<s, k>>] /\ orden'[z][<<s, k>>] = orden[z][<<s, k>>]
          BY <1>3, <3>1, <3>5
        <4>2. MismoOrden(s, k) => MismoOrden(s, k)'
          BY <4>1 DEF MismoOrden
        <4>3. CASE s # p
          <5>1. fase'[s][a] = fase[s][a] /\ faltan'[s][a] = faltan[s][a] /\ i'[s][a] = i[s][a] /\ maximo'[s][a] = maximo[s][a]
            BY <4>3, <1>2
          <5> QED BY <5>1, <4>1, <4>2, <3>2, <3>3 DEF EnRegistro, SinEnviar
        <4>4. CASE s = p
          <5>1. k # n /\ (k < i'[p][a] \/ fase'[p][a] \in {"fin", "terminado"} => k < n)
            <6>1. k \in 1..NUM_MENSAJES /\ n \in 1..NUM_MENSAJES /\ k # n
              BY <3>5, <4>4, <1>m DEF Numeros
            <6>2. i'[p][a] \in {n, n + 1}
              BY <1>2
            <6>3. fase'[p][a] \in {"fin", "terminado"} => ~(n < NUM_MENSAJES)
              BY <1>2
            <6> QED BY <6>1, <6>2, <6>3
          <5>2. (k > i'[p][a] \/ k = i'[p][a] => k > n)
            BY <5>1, <1>2, <1>m DEF Numeros
          <5>3. fase'[p][a] \notin {"sin", "nuevo"} /\ (fase'[p][a] = "apertura" => faltan'[p][a] = Nodos)
                /\ (fase'[p][a] = "orden" => i'[p][a] = n)
            BY <1>2
          <5> QED BY <4>1, <4>2, <4>4, <5>1, <5>2, <5>3, <3>2, <3>3, <1>f DEF EnRegistro, SinEnviar
        <4> QED BY <4>3, <4>4
      <3> QED BY <3>4, <3>5
    <2> QED BY <2>1, <2>2 DEF InvRegistro
  <1>13. Difunde(p, a) /\ ~Cerrado(p, a) /\ \A q \in Nodos : q # p => (Difunde(q, a)' <=> Difunde(q, a))
    BY <1>2, <1>f DEF Difunde, Cerrado
  <1>14. \A q \in Nodos : p \notin finalizados[q] /\ escrituras[q] # a
    BY <1>13, NadieEscribe
  <1>15. InvFin(a)'
    <2>1. ASSUME NEW r \in Nodos, NEW q \in Nodos, q \in finalizados'[r] \/ escrituras'[r] = a
          PROVE  /\ Cerrado(q, a)' /\ Completo(q)'
                 /\ \A k \in Numeros : Anunciado(<<q, k>>, a)'
                 /\ fase'[q][a] = "fin" => r \notin faltan'[q][a]
      <3>1. q \in finalizados[r] /\ q # p
        BY <2>1, <1>3, <1>14
      <3>2. /\ Cerrado(q, a) /\ Completo(q)
            /\ \A k \in Numeros : Anunciado(<<q, k>>, a)
            /\ fase[q][a] = "fin" => r \notin faltan[q][a]
        BY <3>1 DEF InvRonda, InvFin
      <3>3. \A k \in Numeros, z \in Nodos : flaj'[z][<<q, k>>] = flaj[z][<<q, k>>] /\ orden'[z][<<q, k>>] = orden[z][<<q, k>>]
        BY <3>1, <1>3, ClaveMensaje
      <3>4. Completo(q)'
        BY <3>2, <3>3, CompletoIgual
      <3>5. \A k \in Numeros : Anunciado(<<q, k>>, a)'
        BY <3>1, <3>2, <1>10, ClaveMensaje
      <3>6. fase'[q][a] = fase[q][a] /\ faltan'[q][a] = faltan[q][a]
        BY <3>1, <1>2
      <3> QED BY <3>2, <3>4, <3>5, <3>6 DEF Cerrado
    <2>2. Acuerdo' /\ \A q \in Nodos : (escrituras'[q] = 0 => fichero'[q] = {}) /\ escrituras'[q] # a
      BY <1>3, <1>14 DEF InvRonda, InvFin, Acuerdo
    <2> QED BY <2>1, <2>2 DEF InvFin
  <1>16. ASSUME InvOrdenes(a) PROVE InvUnico(a)'
    <2>0. \A c \in Mensajes \ {m} : Anunciado(c, a) => orden[1][c] # x
      BY <1>13, <1>16, <1>f DEF InvOrdenes, InvUnico
    <2>1. ASSUME NEW c \in Mensajes, NEW e \in Mensajes, c # e, Anunciado(c, a)', Anunciado(e, a)'
          PROVE  orden'[1][c] # orden'[1][e]
      <3>1. CASE c = m
        BY <2>0, <2>1, <3>1, <1>8, <1>9, <1>10 DEF Claves
      <3>2. CASE e = m
        BY <2>0, <2>1, <3>2, <1>8, <1>9, <1>10 DEF Claves
      <3>3. CASE c # m /\ e # m
        BY <2>1, <3>3, <1>9, <1>10, <1>16 DEF InvOrdenes, InvUnico, Claves
      <3> QED BY <3>1, <3>2, <3>3
    <2>2. ASSUME NEW q \in Nodos, NEW c \in Mensajes, Difunde(q, a)', c # <<q, i'[q][a]>>, Anunciado(c, a)'
          PROVE  maximo'[q][a] # orden'[1][c]
      <3>0. c # m => Anunciado(c, a) /\ orden'[1][c] = orden[1][c]
        BY <2>2, <1>9, <1>10 DEF Claves
      <3>1. CASE q = p /\ u
        <4>1. maximo'[q][a] = 0
          BY <3>1, <1>2
        <4>2. orden'[1][c] > 0
          BY <3>0, <1>8, <1>11, <1>f
        <4> QED BY <4>1, <4>2
      <3>2. CASE q = p /\ ~u
        BY <3>0, <3>2, <2>0, <2>2, <1>2
      <3>3. CASE q # p /\ c = m
        BY <3>3, <2>2, <1>2, <1>8, <1>13, <1>f, <1>16 DEF InvOrdenes, InvUnico
      <3>4. CASE q # p /\ c # m
        BY <3>0, <3>4, <2>2, <1>2, <1>13, <1>16 DEF InvOrdenes, InvUnico
      <3> QED BY <3>1, <3>2, <3>3, <3>4
    <2>3. ASSUME NEW q \in Nodos, NEW r \in Nodos, q # r, Difunde(q, a)', Difunde(r, a)', maximo'[q][a] > 0
          PROVE  maximo'[q][a] # maximo'[r][a]
      <3>1. CASE q = p
        BY <3>1, <2>3, <1>2, <1>13, <1>16 DEF InvOrdenes, InvUnico
      <3>2. CASE r = p
        BY <3>2, <2>3, <1>2, <1>13, <1>16 DEF InvOrdenes, InvUnico
      <3>3. CASE q # p /\ r # p
        BY <3>3, <2>3, <1>2, <1>13, <1>16 DEF InvOrdenes, InvUnico
      <3> QED BY <3>1, <3>2, <3>3
    <2> QED BY <2>1, <2>2, <2>3 DEF InvUnico
  <1>17. ASSUME InvOrdenes(a) PROVE InvReloj(a)'
    <2>1. \A v \in Nat : Contestado(v, reloj) => Contestado(v, reloj')
      <3>1. reloj \in [Nodos -> Nat] /\ reloj' = [reloj EXCEPT ![d] = @ + 1]
        BY <1>3 DEF TypeOK
      <3> QED BY <3>1, <1>d, RelojAvanza
    <2>2. ASSUME NEW c \in Mensajes, Anunciado(c, a)' PROVE Contestado(orden'[1][c], reloj')
      <3>1. CASE c = m
        <4>1. Contestado(x, reloj)
          BY <1>13, <1>f, <1>17 DEF InvOrdenes, InvReloj
        <4> QED BY <4>1, <3>1, <1>8, <1>m, <2>1
      <3>2. CASE c # m
        <4>1. Anunciado(c, a) /\ orden'[1][c] = orden[1][c] /\ orden[1][c] \in Nat
          BY <2>2, <3>2, <1>9, <1>10, <1>11 DEF Claves
        <4>2. Contestado(orden[1][c], reloj)
          BY <4>1, <1>13, <1>17 DEF InvOrdenes, InvReloj
        <4> QED BY <4>1, <4>2, <2>1
      <3> QED BY <3>1, <3>2
    <2>3. ASSUME NEW q \in Nodos, Difunde(q, a)', maximo'[q][a] > 0 PROVE Contestado(maximo'[q][a], reloj')
      <3>1. Difunde(q, a) /\ maximo[q][a] \in Nat /\ maximo'[q][a] = maximo[q][a]
        BY <2>3, <1>2, <1>13 DEF TypeOK
      <3>2. Contestado(maximo[q][a], reloj)
        BY <2>3, <3>1, <1>13, <1>17 DEF InvOrdenes, InvReloj
      <3> QED BY <3>1, <3>2, <2>1
    <2> QED BY <2>2, <2>3 DEF InvReloj
  <1>18. FicheroCompleto => FicheroCompleto'
    BY <1>3 DEF FicheroCompleto
  <1>19. Conserva(a, {m})
    <2>1. \A c \in Mensajes \ {m} : orden'[1][c] = orden[1][c]
      BY <1>9 DEF Claves
    <2> QED BY <2>1, <1>10 DEF Conserva
  <1>20. CASE Anunciado(m, a)
    <2>1. flaj[1][m] = "entregable"
      BY <1>20, <1>f, <1>m DEF Anunciado, Numeros
    <2>2. EnRegistro(p, 1, n, a)
      BY <1>a, <1>m DEF InvRonda, InvRegistro
    <2>3. orden[1][m] = x
      BY <2>1, <2>2, <1>f DEF EnRegistro
    <2>4. Conserva(a, {})
      BY <2>3, <1>8, <1>10, <1>19, <1>20 DEF Conserva
    <2> QED BY <2>4, <1>4, <1>6, <1>7, <1>12, <1>15, <1>16, <1>17, <1>18 DEF InvRonda, InvOrdenes
  <1>21. CASE ~Anunciado(m, a)
    BY <1>4, <1>6, <1>7, <1>10, <1>12, <1>15, <1>16, <1>17, <1>18, <1>19, <1>21, <1>m DEF InvRonda, InvOrdenes
  <1> QED BY <1>20, <1>21

LEMMA FinInv ==
  ASSUME TypeOK, NEW a \in Instancias, InvRonda(a), NEW p \in Nodos, Fin(p, a)
  PROVE  InvRonda(a)' /\ (InvOrdenes(a) => InvOrdenes(a)') /\ Conserva(a, {})
  <1>a. 1 \in Nodos
    BY DEF Nodos
  <1>1. PICK d \in faltan[p][a] :
          /\ Primero(d, faltan[p][a])
          /\ BuzonFin(d, p)
          /\ faltan' = [faltan EXCEPT ![p][a] = @ \ {d}]
          /\ fase' = [fase EXCEPT ![p][a] = IF faltan[p][a] = {d} THEN "terminado" ELSE @]
    BY DEF Fin
  <1> DEFINE todos == finalizados[d] \cup {p} = Nodos
  <1>d. d \in Nodos /\ faltan[p][a] \subseteq Nodos
    BY DEF TypeOK
  <1>f. fase[p][a] = "fin" /\ UNCHANGED <<i, maximo, arranque, miProceso>>
    BY DEF Fin
  <1>2. /\ \A q \in Nodos : q # p => fase'[q][a] = fase[q][a] /\ faltan'[q][a] = faltan[q][a]
        /\ fase'[p][a] = IF faltan[p][a] = {d} THEN "terminado" ELSE "fin"
        /\ faltan'[p][a] = faltan[p][a] \ {d}
    BY <1>1, <1>f DEF TypeOK
  <1>b. \A q \in Nodos, b \in Instancias : b # a => fase'[q][b] = fase[q][b]
    BY <1>1 DEF TypeOK
  <1>3. /\ UNCHANGED <<orden, flaj, semBuzon>>
        /\ \A q \in Nodos : q # d => /\ fichero'[q] = fichero[q] /\ escrituras'[q] = escrituras[q]
                                     /\ preparados'[q] = preparados[q] /\ finalizados'[q] = finalizados[q]
        /\ fichero'[d] = IF todos THEN Lineas(d) ELSE fichero[d]
        /\ escrituras'[d] = IF todos THEN escrituras[d] + 1 ELSE escrituras[d]
        /\ preparados'[d] = IF todos THEN {} ELSE preparados[d]
        /\ finalizados'[d] = IF todos THEN {} ELSE finalizados[d] \cup {p}
        /\ ~todos => reloj' = reloj
    BY <1>1, <1>d DEF BuzonFin, TypeOK, ComprobarMatriz
  \* d has not heard p yet, so it has not written in this round
  <1>4. escrituras[d] = a - 1 /\ p \notin finalizados[d] /\ a \in Nat /\ a > 0
    <2>1. ~(p \in finalizados[d] \/ escrituras[d] = a)
      BY <1>1, <1>d, <1>f DEF InvRonda, InvFin
    <2>2. escrituras[d] \in {a - 1, a}
      BY <1>d DEF InvRonda, InvRondas
    <2> QED BY <2>1, <2>2 DEF Instancias
  <1>5. Completo(p)
    <2>1. \A k \in Numeros : EnRegistro(p, p, k, a)
      BY DEF InvRonda, InvRegistro
    <2> QED BY <2>1, <1>f DEF EnRegistro, Completo
  <1>6. \A q \in Nodos : /\ Difunde(q, a)' <=> Difunde(q, a)
                         /\ Cerrado(q, a)' <=> Cerrado(q, a)
                         /\ Completo(q)' <=> Completo(q)
    BY <1>2, <1>3, <1>f DEF Difunde, Cerrado, Completo, MismoOrden
  <1>7. \A m \in Mensajes : Anunciado(m, a)' <=> Anunciado(m, a)
    <2> SUFFICES ASSUME NEW m \in Mensajes PROVE Anunciado(m, a)' <=> Anunciado(m, a)
      OBVIOUS
    <2>1. m[1] \in Nodos
      BY MensajePar
    <2>2. CASE m[1] = p
      BY <2>2, <1>2, <1>f DEF Anunciado
    <2>3. CASE m[1] # p
      BY <2>1, <2>3, <1>2, <1>3, <1>f DEF Anunciado
    <2> QED BY <2>2, <2>3
  <1>8. InvRondas(a)'
    <2>1. \A q \in Nodos : escrituras'[q] \in {a - 1, a}
      BY <1>3, <1>4 DEF InvRonda, InvRondas
    <2> QED BY <2>1, <1>b, <1>f, RondasIgual DEF InvRonda
  <1>9. InvArranque(a)'
    <2>1. \A q \in Nodos : preparados'[q] \subseteq preparados[q]
      BY <1>3
    <2>2. \A q \in Nodos : fase'[q][a] = "sin" <=> fase[q][a] = "sin"
      BY <1>2, <1>f
    <2> QED BY <2>1, <2>2, <1>3, <1>6, <1>f DEF InvRonda, InvArranque, SemaforoLibre, Avisado
  <1>10. InvHilo(a)'
    <2>1. 1 \notin faltan'[p][a]
      <3>1. d # 1 => 1 \notin faltan[p][a]
        BY <1>1, <1>d DEF Primero, Nodos
      <3> QED BY <3>1, <1>2
    <2> QED BY <2>1, <1>1, <1>2, <1>f DEF InvRonda, InvHilo
  <1>11. InvRegistro(a)'
    <2>1. ASSUME NEW s \in Nodos, NEW q \in Nodos, NEW k \in Numeros PROVE EnRegistro(s, q, k, a)'
      <3>1. EnRegistro(s, q, k, a) /\ <<s, k>> \in Mensajes
        BY ClaveMensaje DEF InvRonda, InvRegistro
      <3>2. Anunciado(<<s, k>>, a)' <=> Anunciado(<<s, k>>, a)
        BY <3>1, <1>7
      <3>3. MismoOrden(s, k)' <=> MismoOrden(s, k)
        BY <1>3 DEF MismoOrden
      <3>4. CASE s = p
        <4>1. fase'[p][a] \in {"fin", "terminado"}
          BY <1>2
        <4> QED BY <4>1, <3>1, <3>2, <3>3, <3>4, <1>3, <1>f DEF EnRegistro, SinEnviar
      <3>5. CASE s # p
        <4>1. fase'[s][a] = fase[s][a] /\ faltan'[s][a] = faltan[s][a]
          BY <3>5, <1>2
        <4> QED BY <4>1, <3>1, <3>2, <3>3, <1>3, <1>f DEF EnRegistro, SinEnviar
      <3> QED BY <3>4, <3>5
    <2> QED BY <2>1, <1>3 DEF InvRonda, InvRegistro
  \* the matrix of d is full: everybody has closed, and node 1 has every order
  <1>12. ASSUME todos
         PROVE  /\ \A q \in Nodos : Cerrado(q, a) /\ Completo(q)
                /\ \A m \in Mensajes : Anunciado(m, a)
                /\ Lineas(d) = {<<m, orden[1][m]>> : m \in Mensajes}
                /\ \A m \in Mensajes : orden[1][m] > 0
    <2>1. \A q \in Nodos : q # p => q \in finalizados[d]
      BY <1>12
    <2>2. \A q \in Nodos : Cerrado(q, a) /\ Completo(q)
      BY <2>1, <1>5, <1>d, <1>f DEF InvRonda, InvFin, Cerrado
    <2>3. ASSUME NEW m \in Mensajes PROVE Anunciado(m, a)
      <3>1. m[1] \in Nodos /\ m[2] \in Numeros /\ m = <<m[1], m[2]>>
        BY MensajePar
      <3>2. CASE m[1] = p
        BY <3>2, <1>f DEF Anunciado
      <3>3. CASE m[1] # p
        <4>1. m[1] \in finalizados[d]
          BY <3>1, <3>3, <2>1
        <4>2. Anunciado(<<m[1], m[2]>>, a)
          BY <4>1, <3>1, <1>d DEF InvRonda, InvFin
        <4> QED BY <4>2, <3>1
      <3> QED BY <3>2, <3>3
    <2>4. \A m \in Mensajes : flaj[d][m] = "entregable" /\ orden[d][m] = orden[1][m] /\ orden[1][m] > 0
      BY <2>2, <1>d, <1>a DEF Completo, MismoOrden, Mensajes, Numeros
    <2>5. flaj[d][SinId] = "ausente"
      BY <1>d DEF InvRonda, InvRegistro
    <2>6. {c \in Claves : flaj[d][c] # "ausente"} = Mensajes
      BY <2>4, <2>5 DEF Claves
    <2>7. Lineas(d) = {<<m, orden[1][m]>> : m \in Mensajes}
      BY <2>4, <2>6 DEF Lineas
    <2> QED BY <2>2, <2>3, <2>4, <2>7
  <1>13. InvFin(a)'
    <2>1. ASSUME NEW r \in Nodos, NEW q \in Nodos, q \in finalizados'[r] \/ escrituras'[r] = a
          PROVE  /\ Cerrado(q, a)' /\ Completo(q)'
                 /\ \A k \in Numeros : Anunciado(<<q, k>>, a)'
                 /\ fase'[q][a] = "fin" => r \notin faltan'[q][a]
      <3>0. \A k \in Numeros : Anunciado(<<q, k>>, a)' <=> Anunciado(<<q, k>>, a)
        BY <1>7, ClaveMensaje
      <3>1. CASE q = p /\ r = d
        <4>1. \A k \in Numeros : Anunciado(<<p, k>>, a)
          BY <1>f DEF Anunciado
        <4> QED BY <4>1, <3>0, <3>1, <1>2, <1>5, <1>6, <1>f DEF Cerrado
      <3>2. CASE ~(q = p /\ r = d)
        <4>1. q \in finalizados[r] \/ escrituras[r] = a
          <5>1. CASE r # d
            BY <5>1, <2>1, <1>3
          <5>2. CASE r = d /\ todos
            <6>1. q # p
              BY <5>2, <3>2
            <6> QED BY <6>1, <5>2
          <5>3. CASE r = d /\ ~todos
            BY <5>3, <3>2, <2>1, <1>3
          <5> QED BY <5>1, <5>2, <5>3
        <4>2. /\ Cerrado(q, a) /\ Completo(q)
              /\ \A k \in Numeros : Anunciado(<<q, k>>, a)
              /\ fase[q][a] = "fin" => r \notin faltan[q][a]
          BY <4>1 DEF InvRonda, InvFin
        <4>3. fase'[q][a] = "fin" => fase[q][a] = "fin" /\ faltan'[q][a] \subseteq faltan[q][a]
          BY <1>2, <1>f
        <4> QED BY <4>2, <4>3, <3>0, <1>6
      <3> QED BY <3>1, <3>2
    <2>2. \A r \in Nodos : escrituras'[r] = 0 => fichero'[r] = {}
      <3>1. escrituras'[d] = 0 => ~todos
        BY <1>3, <1>4
      <3> QED BY <3>1, <1>3 DEF InvRonda, InvFin
    <2>3. ASSUME NEW r \in Nodos, escrituras'[r] = a
          PROVE  /\ fichero'[r] = {<<m, orden'[1][m]>> : m \in Mensajes}
                 /\ preparados'[r] = {} /\ finalizados'[r] = {}
      <3>1. CASE r = d
        <4>1. todos
          BY <2>3, <3>1, <1>3, <1>4
        <4> QED BY <4>1, <3>1, <1>3, <1>12
      <3>2. CASE r # d
        BY <2>3, <3>2, <1>3 DEF InvRonda, InvFin
      <3> QED BY <3>1, <3>2
    <2>4. Acuerdo'
      <3> SUFFICES ASSUME NEW r \in Nodos, NEW q \in Nodos, escrituras'[r] > 0, escrituras'[r] = escrituras'[q]
                   PROVE  fichero'[r] = fichero'[q]
        BY DEF Acuerdo
      <3>1. CASE escrituras'[r] = a
        BY <3>1, <2>3
      <3>2. CASE escrituras'[r] # a
        <4>1. \A z \in Nodos : escrituras'[z] # a => escrituras'[z] = escrituras[z] /\ fichero'[z] = fichero[z]
          BY <1>3, <1>4
        <4> QED BY <4>1, <3>2 DEF InvRonda, InvFin, Acuerdo
      <3> QED BY <3>1, <3>2
    <2> QED BY <2>1, <2>2, <2>3, <2>4 DEF InvFin
  <1>14. ASSUME InvOrdenes(a) PROVE InvUnico(a)'
    BY <1>3, <1>6, <1>7, <1>f, <1>14 DEF InvOrdenes, InvUnico
  <1>15. ASSUME InvOrdenes(a) PROVE InvReloj(a)'
    <2>1. CASE todos
      BY <2>1, <1>6, <1>12 DEF InvReloj
    <2>2. CASE ~todos
      BY <2>2, <1>3, <1>6, <1>7, <1>f, <1>15 DEF InvOrdenes, InvReloj
    <2> QED BY <2>1, <2>2
  <1>16. ASSUME InvOrdenes(a) PROVE FicheroCompleto'
    <2> SUFFICES ASSUME NEW q \in Nodos, escrituras'[q] > 0
                 PROVE  /\ {l[1] : l \in fichero'[q]} = Mensajes
                        /\ \A l1, l2 \in fichero'[q] : l1[2] = l2[2] => l1 = l2
                        /\ \A l \in fichero'[q] : l[2] > 0
      BY DEF FicheroCompleto
    <2>1. CASE q = d /\ todos
      <3>1. fichero'[q] = {<<m, orden[1][m]>> : m \in Mensajes}
        BY <2>1, <1>3, <1>12
      <3>2. \A m, c \in Mensajes : orden[1][m] = orden[1][c] => m = c
        BY <2>1, <1>12, <1>16 DEF InvOrdenes, InvUnico
      <3>3. \A m \in Mensajes : orden[1][m] > 0
        BY <2>1, <1>12
      <3>4. {l[1] : l \in fichero'[q]} = Mensajes
        <4>1. \A m \in Mensajes : <<m, orden[1][m]>> \in fichero'[q] /\ <<m, orden[1][m]>>[1] = m
          BY <3>1
        <4>2. \A l \in fichero'[q] : l[1] \in Mensajes
          BY <3>1
        <4> QED BY <4>1, <4>2
      <3>5. \A l1, l2 \in fichero'[q] : l1[2] = l2[2] => l1 = l2
        BY <3>1, <3>2
      <3>6. \A l \in fichero'[q] : l[2] > 0
        BY <3>1, <3>3
      <3> QED BY <3>4, <3>5, <3>6
    <2>2. CASE ~(q = d /\ todos)
      <3>1. fichero'[q] = fichero[q] /\ escrituras'[q] = escrituras[q]
        BY <2>2, <1>3
      <3> QED BY <3>1, <1>16 DEF InvOrdenes, FicheroCompleto
    <2> QED BY <2>1, <2>2
  <1>17. Conserva(a, {})
    BY <1>3, <1>7 DEF Conserva
  <1> QED BY <1>8, <1>9, <1>10, <1>11, <1>13, <1>14, <1>15, <1>16, <1>17 DEF InvRonda, InvOrdenes

LEMMA FallaInv ==
  ASSUME TypeOK, NEW a \in Instancias, InvRonda(a), NEW p \in Nodos, FallaHTTP(p, a)
  PROVE  InvRonda(a)' /\ (InvOrdenes(a) => InvOrdenes(a)')
  <1>a. 1 \in Nodos
    BY DEF Nodos
  <1>1. /\ \A q \in Nodos : q # p => fase'[q][a] = fase[q][a]
        /\ fase'[p][a] = "muerto" /\ fase[p][a] \in {"apertura", "orden", "fin"}
        /\ UNCHANGED <<servidor, arranque, i, faltan, maximo, miProceso>>
    BY DEF FallaHTTP, TypeOK
  <1>b. \A q \in Nodos, b \in Instancias : b # a => fase'[q][b] = fase[q][b]
    BY DEF FallaHTTP, TypeOK
  <1>2. \A q \in Nodos : /\ Difunde(q, a)' => Difunde(q, a)
                         /\ Cerrado(q, a) => Cerrado(q, a)'
                         /\ Completo(q)' <=> Completo(q)
                         /\ Difunde(q, a)' \/ Cerrado(q, a)' <=> Difunde(q, a) \/ Cerrado(q, a)
    BY <1>1 DEF Difunde, Cerrado, Completo, MismoOrden, servidor
  \* the message a thread dies with may have been agreed, but no new one is
  <1>3. \A m \in Mensajes : Anunciado(m, a)' => Anunciado(m, a)
    <2> SUFFICES ASSUME NEW m \in Mensajes, Anunciado(m, a)' PROVE Anunciado(m, a)
      OBVIOUS
    <2>1. m[1] \in Nodos /\ m[2] \in Numeros /\ m = <<m[1], m[2]>>
      BY MensajePar
    <2>2. CASE m[1] # p
      BY <2>1, <2>2, <1>1 DEF Anunciado, servidor
    <2>3. CASE m[1] = p
      <3>1. m[2] < i[p][a] \/ (m[2] = i[p][a] /\ flaj[1][m] = "entregable" /\ (1 \notin faltan[p][a] \/ a = 1))
        BY <2>3, <1>1 DEF Anunciado, servidor
      <3>2. CASE fase[p][a] = "apertura"
        <4>1. EnRegistro(p, 1, m[2], a)
          BY <2>1, <1>a DEF InvRonda, InvRegistro
        <4>2. ~(m[2] = i[p][a] /\ flaj[1][m] = "entregable" /\ (1 \notin faltan[p][a] \/ a = 1))
          BY <4>1, <2>1, <2>3, <3>2 DEF EnRegistro, SinEnviar
        <4> QED BY <4>2, <3>1, <2>3 DEF Anunciado
      <3>3. CASE fase[p][a] = "orden"
        BY <3>1, <3>3, <2>3 DEF Anunciado
      <3>4. CASE fase[p][a] = "fin"
        BY <3>4, <2>3 DEF Anunciado
      <3> QED BY <3>2, <3>3, <3>4, <1>1
    <2> QED BY <2>2, <2>3
  <1>4. InvRondas(a)'
    <2>1. \A q \in Nodos : escrituras'[q] \in {a - 1, a}
      BY <1>1 DEF InvRonda, InvRondas, servidor
    <2> QED BY <2>1, <1>1, <1>b, RondasIgual DEF InvRonda
  <1>5. InvArranque(a)'
    <2>1. \A q \in Nodos : fase'[q][a] = "sin" <=> fase[q][a] = "sin"
      BY <1>1
    <2> QED BY <2>1, <1>1, <1>2 DEF InvRonda, InvArranque, SemaforoLibre, Avisado, servidor
  <1>6. InvHilo(a)'
    BY <1>1 DEF InvRonda, InvHilo
  <1>7. InvRegistro(a)'
    <2>1. ASSUME NEW s \in Nodos, NEW q \in Nodos, NEW k \in Numeros PROVE EnRegistro(s, q, k, a)'
      <3>1. EnRegistro(s, q, k, a) /\ <<s, k>> \in Mensajes
        BY ClaveMensaje DEF InvRonda, InvRegistro
      <3>2. Anunciado(<<s, k>>, a)' => Anunciado(<<s, k>>, a)
        BY <3>1, <1>3
      <3>3. MismoOrden(s, k)' <=> MismoOrden(s, k)
        BY <1>1 DEF MismoOrden, servidor
      <3>4. CASE s = p
        BY <3>1, <3>2, <3>3, <3>4, <1>1 DEF EnRegistro, SinEnviar, servidor
      <3>5. CASE s # p
        BY <3>1, <3>2, <3>3, <3>5, <1>1 DEF EnRegistro, SinEnviar, servidor
      <3> QED BY <3>4, <3>5
    <2> QED BY <2>1, <1>1 DEF InvRonda, InvRegistro, servidor
  \* who had told its end had told node 1 first
  <1>8. ASSUME NEW r \in Nodos, p \in finalizados[r] \/ escrituras[r] = a, NEW k \in Numeros
        PROVE  Anunciado(<<p, k>>, a)'
    <2>1. Cerrado(p, a) /\ Completo(p) /\ (fase[p][a] = "fin" => r \notin faltan[p][a])
      BY <1>8 DEF InvRonda, InvFin
    <2>2. fase[p][a] = "fin" /\ r \notin faltan[p][a]
      BY <2>1, <1>1 DEF Cerrado
    <2>3. 1 \notin faltan[p][a] /\ i[p][a] = NUM_MENSAJES
      BY <2>2, <1>8 DEF InvRonda, InvHilo
    <2>4. flaj[1][<<p, k>>] = "entregable"
      BY <2>1, <1>a DEF Completo, MismoOrden
    <2>5. k < i[p][a] \/ k = i[p][a]
      BY <2>3 DEF Numeros
    <2> QED BY <2>3, <2>4, <2>5, <1>1 DEF Anunciado, servidor
  <1>9. InvFin(a)'
    <2>1. ASSUME NEW r \in Nodos, NEW q \in Nodos, q \in finalizados'[r] \/ escrituras'[r] = a
          PROVE  /\ Cerrado(q, a)' /\ Completo(q)'
                 /\ \A k \in Numeros : Anunciado(<<q, k>>, a)'
                 /\ fase'[q][a] = "fin" => r \notin faltan'[q][a]
      <3>1. q \in finalizados[r] \/ escrituras[r] = a
        BY <2>1, <1>1 DEF servidor
      <3>2. /\ Cerrado(q, a) /\ Completo(q)
            /\ \A k \in Numeros : Anunciado(<<q, k>>, a)
            /\ fase[q][a] = "fin" => r \notin faltan[q][a]
        BY <3>1 DEF InvRonda, InvFin
      <3>3. \A k \in Numeros : Anunciado(<<q, k>>, a)'
        <4>1. CASE q = p
          BY <4>1, <3>1, <1>8
        <4>2. CASE q # p
          BY <4>2, <3>2, <1>1 DEF Anunciado, servidor
        <4> QED BY <4>1, <4>2
      <3>4. fase'[q][a] = "fin" => fase[q][a] = "fin"
        BY <1>1
      <3> QED BY <3>2, <3>3, <3>4, <1>1, <1>2
    <2> QED BY <2>1, <1>1 DEF InvRonda, InvFin, Acuerdo, servidor
  <1>10. ASSUME InvOrdenes(a) PROVE InvUnico(a)'
    BY <1>1, <1>2, <1>3, <1>10 DEF InvOrdenes, InvUnico, servidor
  <1>11. ASSUME InvOrdenes(a) PROVE InvReloj(a)'
    BY <1>1, <1>2, <1>3, <1>11 DEF InvOrdenes, InvReloj, servidor
  <1>12. FicheroCompleto => FicheroCompleto'
    BY <1>1 DEF FicheroCompleto, servidor
  <1> QED BY <1>4, <1>5, <1>6, <1>7, <1>9, <1>10, <1>11, <1>12 DEF InvRonda, InvOrdenes

\* /reinicio forgets who is ready and who has finished, so it can only stop a round.
LEMMA ReinicioInv ==
  ASSUME TypeOK, NEW a \in Instancias, InvRonda(a), NEW p \in Nodos, Reinicio(p)
  PROVE  InvRonda(a)' /\ intervenciones' # 0
  <1>1. /\ UNCHANGED <<orden, flaj, semBuzon, fichero, escrituras, proceso, miProceso>>
        /\ \A q \in Nodos : preparados'[q] \subseteq preparados[q] /\ finalizados'[q] \subseteq finalizados[q]
    BY DEF Reinicio, TypeOK
  <1>2. intervenciones' # 0
    BY DEF Reinicio, Intervenir, TypeOK
  <1>3. InvRondas(a)'
    <2>1. \A q \in Nodos : escrituras'[q] \in {a - 1, a}
      BY <1>1 DEF InvRonda, InvRondas
    <2> QED BY <2>1, <1>1, RondasIgual DEF InvRonda, proceso
  <1>4. InvArranque(a)'
    BY <1>1 DEF InvRonda, InvArranque, SemaforoLibre, Avisado, Difunde, Cerrado, proceso
  <1>5. InvHilo(a)'
    BY <1>1 DEF InvRonda, InvHilo, proceso
  <1>6. InvRegistro(a)'
    BY <1>1 DEF InvRonda, InvRegistro, EnRegistro, SinEnviar, Anunciado, MismoOrden, proceso
  <1>7. InvFin(a)'
    <2>1. ASSUME NEW r \in Nodos, NEW q \in Nodos, q \in finalizados'[r] \/ escrituras'[r] = a
          PROVE  /\ Cerrado(q, a)' /\ Completo(q)'
                 /\ \A k \in Numeros : Anunciado(<<q, k>>, a)'
                 /\ fase'[q][a] = "fin" => r \notin faltan'[q][a]
      <3>1. q \in finalizados[r] \/ escrituras[r] = a
        BY <2>1, <1>1
      <3> QED BY <3>1, <1>1 DEF InvRonda, InvFin, Cerrado, Completo, MismoOrden, Anunciado, proceso
    <2>2. \A q \in Nodos : escrituras'[q] = a => preparados'[q] = {} /\ finalizados'[q] = {}
      BY <1>1 DEF InvRonda, InvFin
    <2> QED BY <2>1, <2>2, <1>1 DEF InvRonda, InvFin, Acuerdo
  <1> QED BY <1>2, <1>3, <1>4, <1>5, <1>6, <1>7 DEF InvRonda

\* /start in the current round.
LEMMA StartInv ==
  ASSUME TypeOK, NEW a \in Instancias, InvRonda(a), NEW p \in Nodos, StartEnTurno(p), miProceso[p] = a - 1
  PROVE  InvRonda(a)' /\ (InvOrdenes(a) => InvOrdenes(a)') /\ Conserva(a, {})
  <1>0. a - 1 # a /\ (a - 1) + 1 = a
    BY DEF Instancias
  <1>2. /\ miProceso' = [miProceso EXCEPT ![p] = a]
        /\ fase' = [fase EXCEPT ![p][a] = "nuevo"]
        /\ arranque' = [arranque EXCEPT ![p][a] = 1]
        /\ UNCHANGED <<servidor, i, faltan, maximo>>
    BY <1>0 DEF StartEnTurno, Start
  <1>3. /\ \A q \in Nodos : q # p => /\ miProceso'[q] = miProceso[q] /\ fase'[q][a] = fase[q][a]
                                     /\ arranque'[q][a] = arranque[q][a]
        /\ miProceso'[p] = a /\ fase'[p][a] = "nuevo" /\ arranque'[p][a] = 1
    BY <1>2 DEF TypeOK
  <1>b. \A q \in Nodos, b \in Instancias : b # a => fase'[q][b] = fase[q][b] /\ arranque'[q][b] = arranque[q][b]
    BY <1>2 DEF TypeOK
  <1>4. fase[p][a] = "sin" /\ arranque[p][a] = 0 /\ i[p][a] = 1 /\ maximo[p][a] = 0
    BY <1>0 DEF InvRonda, InvArranque, InvHilo
  <1>5. \A q \in Nodos : /\ Difunde(q, a)' <=> Difunde(q, a)
                         /\ Cerrado(q, a)' <=> Cerrado(q, a)
                         /\ Completo(q)' <=> Completo(q)
                         /\ \A r \in Nodos : Avisado(q, r, a)' <=> Avisado(q, r, a)
    BY <1>2, <1>3, <1>4 DEF Difunde, Cerrado, Completo, MismoOrden, Avisado, servidor, Nodos
  <1>6. \A m \in Mensajes : Anunciado(m, a)' <=> Anunciado(m, a)
    <2> SUFFICES ASSUME NEW m \in Mensajes PROVE Anunciado(m, a)' <=> Anunciado(m, a)
      OBVIOUS
    <2>1. m[1] \in Nodos
      BY MensajePar
    <2>2. CASE m[1] = p
      BY <2>2, <1>2, <1>3, <1>4 DEF Anunciado
    <2>3. CASE m[1] # p
      BY <2>1, <2>3, <1>2, <1>3 DEF Anunciado, servidor
    <2> QED BY <2>2, <2>3
  <1>7. InvRondas(a)'
    <2>1. ASSUME NEW q \in Nodos, NEW b \in Instancias
          PROVE  /\ b < a => fase'[q][b] = "terminado" /\ arranque'[q][b] = N + 1
                 /\ b > a => /\ fase'[q][b] = "sin" /\ arranque'[q][b] = 0
                             /\ i'[q][b] = 1 /\ maximo'[q][b] = 0
      <3>1. /\ b < a => fase[q][b] = "terminado" /\ arranque[q][b] = N + 1
            /\ b > a => fase[q][b] = "sin" /\ arranque[q][b] = 0 /\ i[q][b] = 1 /\ maximo[q][b] = 0
        BY DEF InvRonda, InvRondas
      <3>2. b < a \/ b > a => b # a
        BY DEF Instancias
      <3> QED BY <3>1, <3>2, <1>2, <1>b
    <2>2. \A q \in Nodos : miProceso'[q] \in {a - 1, a} /\ escrituras'[q] \in {a - 1, a}
      BY <1>2, <1>3 DEF InvRonda, InvRondas, servidor
    <2> QED BY <2>1, <2>2, <1>3 DEF InvRondas
  <1>8. InvArranque(a)'
    BY <1>2, <1>3, <1>5 DEF InvRonda, InvArranque, SemaforoLibre, servidor
  <1>9. InvHilo(a)'
    BY <1>2, <1>3, <1>4 DEF InvRonda, InvHilo
  <1>10. InvRegistro(a)'
    <2>1. ASSUME NEW s \in Nodos, NEW q \in Nodos, NEW k \in Numeros PROVE EnRegistro(s, q, k, a)'
      <3>1. EnRegistro(s, q, k, a) /\ <<s, k>> \in Mensajes
        BY ClaveMensaje DEF InvRonda, InvRegistro
      <3>2. Anunciado(<<s, k>>, a)' <=> Anunciado(<<s, k>>, a)
        BY <3>1, <1>6
      <3>3. MismoOrden(s, k)' <=> MismoOrden(s, k)
        BY <1>2 DEF MismoOrden, servidor
      <3>4. CASE s = p
        BY <3>1, <3>2, <3>3, <3>4, <1>2, <1>3, <1>4 DEF EnRegistro, SinEnviar, servidor
      <3>5. CASE s # p
        BY <3>1, <3>2, <3>3, <3>5, <1>2, <1>3 DEF EnRegistro, SinEnviar, servidor
      <3> QED BY <3>4, <3>5
    <2> QED BY <2>1, <1>2 DEF InvRonda, InvRegistro, servidor
  <1>11. InvFin(a)'
    <2>1. ASSUME NEW r \in Nodos, NEW q \in Nodos, q \in finalizados'[r] \/ escrituras'[r] = a
          PROVE  /\ Cerrado(q, a)' /\ Completo(q)'
                 /\ \A k \in Numeros : Anunciado(<<q, k>>, a)'
                 /\ fase'[q][a] = "fin" => r \notin faltan'[q][a]
      <3>1. q \in finalizados[r] \/ escrituras[r] = a
        BY <2>1, <1>2 DEF servidor
      <3>2. /\ Cerrado(q, a) /\ Completo(q)
            /\ \A k \in Numeros : Anunciado(<<q, k>>, a)
            /\ fase[q][a] = "fin" => r \notin faltan[q][a]
        BY <3>1 DEF InvRonda, InvFin
      <3>3. \A k \in Numeros : Anunciado(<<q, k>>, a)'
        BY <3>2, <1>6, ClaveMensaje
      <3>4. fase'[q][a] = "fin" => fase[q][a] = "fin"
        BY <1>3
      <3> QED BY <3>2, <3>3, <3>4, <1>2, <1>5
    <2> QED BY <2>1, <1>2 DEF InvRonda, InvFin, Acuerdo, servidor
  <1>12. ASSUME InvOrdenes(a) PROVE InvUnico(a)'
    BY <1>2, <1>5, <1>6, <1>12 DEF InvOrdenes, InvUnico, servidor
  <1>13. ASSUME InvOrdenes(a) PROVE InvReloj(a)'
    BY <1>2, <1>5, <1>6, <1>13 DEF InvOrdenes, InvReloj, servidor
  <1>14. FicheroCompleto => FicheroCompleto'
    BY <1>2 DEF FicheroCompleto, servidor
  <1>15. Conserva(a, {})
    BY <1>2, <1>6 DEF Conserva, servidor
  <1> QED BY <1>7, <1>8, <1>9, <1>10, <1>11, <1>12, <1>13, <1>14, <1>15 DEF InvRonda, InvOrdenes

\* The first /start of the next round: every thread of this one has ended and every node has
\* written, so matrices are empty, and nothing of the new round is agreed.
LEMMA StartNueva ==
  ASSUME TypeOK, NEW a \in Instancias, InvRonda(a), NEW p \in Nodos, StartEnTurno(p), miProceso[p] = a
  PROVE  /\ a + 1 \in Instancias /\ InvRonda(a + 1)' /\ (InvOrdenes(a) => InvOrdenes(a + 1)')
         /\ \A q \in Nodos : escrituras[q] = a /\ escrituras'[q] # a + 1
         /\ \A m \in Mensajes : ~Anunciado(m, a + 1)'
  <1>0. PICK s \in Instancias : s = a + 1 /\ s - 1 = a /\ s # a /\ s # 1
    BY DEF StartEnTurno, Start, Instancias
  <1>a. 1 \in Nodos /\ N \in Nodos /\ a \in 1..a
    BY DEF Nodos, Instancias
  <1>1. /\ miProceso' = [miProceso EXCEPT ![p] = s]
        /\ fase' = [fase EXCEPT ![p][s] = "nuevo"]
        /\ arranque' = [arranque EXCEPT ![p][s] = 1]
        /\ UNCHANGED <<servidor, i, faltan, maximo>>
    BY <1>0 DEF StartEnTurno, Start
  <1>2. \A q \in Nodos : fase[q][a] = "terminado" /\ escrituras[q] = a /\ miProceso[q] = a
    <2>1. \A q \in Nodos : escrituras[q] >= a /\ fase[q][a] = "terminado"
      BY <1>a DEF StartEnTurno, RondaCerrada
    <2>2. \A q \in Nodos : escrituras[q] \in {a - 1, a}
      BY DEF InvRonda, InvRondas
    <2>3. \A q \in Nodos : escrituras[q] = a
      BY <2>1, <2>2 DEF Instancias
    <2> QED BY <2>1, <2>3 DEF InvRonda, InvArranque
  <1>3. \A q \in Nodos : arranque[q][a] = N + 1
    <2>1. \A q \in Nodos : Avisado(q, N, a)
      BY <1>2, <1>a DEF InvRonda, InvArranque, Cerrado
    <2>2. \A q \in Nodos : arranque[q][a] \in 0..(N + 1)
      BY DEF TypeOK
    <2> QED BY <2>1, <2>2 DEF Avisado
  <1>4. \A q \in Nodos : /\ fase[q][s] = "sin" /\ arranque[q][s] = 0
                         /\ i[q][s] = 1 /\ maximo[q][s] = 0
    <2>1. s > a
      BY <1>0 DEF Instancias
    <2> QED BY <2>1 DEF InvRonda, InvRondas
  <1>5. \A q \in Nodos : /\ preparados[q] = {} /\ finalizados[q] = {}
    BY <1>2 DEF InvRonda, InvFin
  <1>6. /\ \A q \in Nodos : q # p => fase'[q][s] = "sin" /\ arranque'[q][s] = 0 /\ miProceso'[q] = a
        /\ fase'[p][s] = "nuevo" /\ arranque'[p][s] = 1 /\ miProceso'[p] = s
        /\ \A q \in Nodos : i'[q][s] = 1 /\ maximo'[q][s] = 0
    BY <1>1, <1>2, <1>4 DEF TypeOK
  <1>7. \A q \in Nodos : ~Difunde(q, s)' /\ ~Cerrado(q, s)'
    BY <1>6 DEF Difunde, Cerrado
  <1>8. \A m \in Mensajes : ~Anunciado(m, s)'
    <2> SUFFICES ASSUME NEW m \in Mensajes PROVE ~Anunciado(m, s)'
      OBVIOUS
    <2>1. m[1] \in Nodos /\ m[2] \in Numeros
      BY MensajePar
    <2>2. i'[m[1]][s] = 1 /\ fase'[m[1]][s] \in {"sin", "nuevo"} /\ ~(m[2] < 1)
      BY <2>1, <1>6 DEF Numeros
    <2> QED BY <2>2 DEF Anunciado
  <1>9. InvRondas(s)'
    <2>1. ASSUME NEW q \in Nodos, NEW b \in Instancias
          PROVE  /\ b < s => fase'[q][b] = "terminado" /\ arranque'[q][b] = N + 1
                 /\ b > s => /\ fase'[q][b] = "sin" /\ arranque'[q][b] = 0
                             /\ i'[q][b] = 1 /\ maximo'[q][b] = 0
      <3>1. b # s => fase'[q][b] = fase[q][b] /\ arranque'[q][b] = arranque[q][b]
        BY <1>1 DEF TypeOK
      <3>2. (b < s => b # s /\ (b < a \/ b = a)) /\ (b > s => b # s /\ b > a)
        BY <1>0 DEF Instancias
      <3>3. /\ b < a => fase[q][b] = "terminado" /\ arranque[q][b] = N + 1
            /\ b > a => fase[q][b] = "sin" /\ arranque[q][b] = 0 /\ i[q][b] = 1 /\ maximo[q][b] = 0
        BY DEF InvRonda, InvRondas
      <3> QED BY <3>1, <3>2, <3>3, <1>1, <1>2, <1>3
    <2>2. \A q \in Nodos : miProceso'[q] \in {s - 1, s} /\ escrituras'[q] \in {s - 1, s}
      BY <1>0, <1>1, <1>2, <1>6 DEF servidor
    <2> QED BY <2>1, <2>2, <1>6 DEF InvRondas
  <1>10. InvArranque(s)'
    <2>1. \A q \in Nodos : semBuzon'[q] = 1 /\ preparados'[q] = {}
      BY <1>1, <1>5 DEF InvRonda, InvArranque, SemaforoLibre, servidor
    <2> QED BY <2>1, <1>0, <1>6, <1>7 DEF InvArranque, SemaforoLibre
  <1>11. InvHilo(s)'
    BY <1>6 DEF InvHilo
  <1>12. InvRegistro(s)'
    <2>1. ASSUME NEW r \in Nodos, NEW q \in Nodos, NEW k \in Numeros PROVE EnRegistro(r, q, k, s)'
      <3>1. <<r, k>> \in Mensajes /\ ~(k < 1)
        BY ClaveMensaje DEF Numeros
      <3>2. ~Anunciado(<<r, k>>, s)'
        BY <3>1, <1>8
      <3>3. i'[r][s] = 1 /\ fase'[r][s] \in {"sin", "nuevo"}
        BY <1>6
      <3> QED BY <3>1, <3>2, <3>3, <1>0 DEF EnRegistro
    <2>2. \A q \in Nodos : flaj'[q][SinId] = "ausente"
      BY <1>1 DEF InvRonda, InvRegistro, servidor
    <2> QED BY <2>1, <2>2 DEF InvRegistro
  <1>13. InvFin(s)'
    <2>1. \A q \in Nodos : finalizados'[q] = {} /\ escrituras'[q] # s
      BY <1>0, <1>1, <1>2, <1>5 DEF servidor
    <2>2. Acuerdo' /\ \A q \in Nodos : escrituras'[q] = 0 => fichero'[q] = {}
      BY <1>1 DEF InvRonda, InvFin, Acuerdo, servidor
    <2> QED BY <2>1, <2>2 DEF InvFin
  <1>14. InvUnico(s)' /\ InvReloj(s)'
    BY <1>7, <1>8 DEF InvUnico, InvReloj
  <1>15. FicheroCompleto => FicheroCompleto'
    BY <1>1 DEF FicheroCompleto, servidor
  <1>16. InvRonda(s)' /\ (InvOrdenes(a) => InvOrdenes(s)')
    BY <1>9, <1>10, <1>11, <1>12, <1>13, <1>14, <1>15 DEF InvRonda, InvOrdenes
  <1>17. \A q \in Nodos : escrituras[q] = a /\ escrituras'[q] # s
    BY <1>0, <1>1, <1>2 DEF servidor
  <1> QED BY <1>0, <1>8, <1>16, <1>17

\* A call of type 3: a thread enters run() only when the last origin has told its node.
LEMMA PreparadoInv ==
  ASSUME TypeOK, NEW a \in Instancias, InvRonda(a), NEW p \in Nodos, Preparado(p, a)
  PROVE  InvRonda(a)' /\ (InvOrdenes(a) => InvOrdenes(a)') /\ Conserva(a, {})
  <1>a. 1 \in Nodos
    BY DEF Nodos
  <1>p. PICK d \in Nodos : d = arranque[p][a]
    BY DEF Preparado
  <1>d. BuzonPreparado(d, p) /\ UNCHANGED <<i, maximo, miProceso, intervenciones>>
    BY <1>p DEF Preparado
  <1>1. ~Avisado(p, d, a) /\ ~Difunde(d, a) /\ ~Cerrado(d, a)
    BY <1>p DEF Avisado, InvRonda, InvArranque, Nodos
  \* nobody has written the file: d itself has not closed
  <1>2. \A q \in Nodos : d \notin finalizados[q] /\ escrituras[q] # a
    BY <1>1, NadieEscribe
  <1>4. Completa(d, p) => \A q \in Nodos \ {p} : Avisado(q, d, a)
    BY DEF Completa, ComprobarMatriz, InvRonda, InvArranque
  <1>5. Completa(d, p) => Arrancable(d) /\ miProceso[d] = a /\ fase[d][a] = "nuevo"
    <2> SUFFICES ASSUME Completa(d, p) PROVE Arrancable(d) /\ miProceso[d] = a /\ fase[d][a] = "nuevo"
      OBVIOUS
    <2>1. arranque[d][a] # 0
      <3>1. CASE d = p
        BY <3>1, <1>p DEF Nodos
      <3>2. CASE d # p
        <4>1. Avisado(d, d, a)
          BY <3>2, <1>4
        <4> QED BY <4>1 DEF Avisado, Nodos
      <3> QED BY <3>1, <3>2
    <2>2. miProceso[d] = a /\ fase[d][a] # "sin"
      BY <2>1 DEF InvRonda, InvArranque
    <2>3. fase[d][a] \in Fases /\ a # 0
      <3>1. a # 0
        BY DEF Instancias
      <3> QED BY <3>1 DEF TypeOK
    <2>4. fase[d][a] = "nuevo"
      BY <2>2, <2>3, <1>1 DEF Fases, Difunde, Cerrado
    <2> QED BY <2>2, <2>3, <2>4 DEF Arrancable
  <1>c. PICK c \in BOOLEAN : c <=> Completa(d, p)
    OBVIOUS
  <1>6. /\ arranque' = [arranque EXCEPT ![p][a] = d + 1]
        /\ fase' = IF c THEN [fase EXCEPT ![d][a] = "apertura"] ELSE fase
        /\ faltan' = IF c THEN [faltan EXCEPT ![d][a] = Nodos] ELSE faltan
    <2>1. Preparado(p, a) /\ (c <=> Completa(d, p)) /\ (c => Arrancable(d) /\ miProceso[d] = a)
      BY <1>c, <1>5
    <2> QED BY <2>1, <1>p DEF Preparado
  <1>7. /\ arranque'[p][a] = d + 1 /\ \A q \in Nodos : q # p => arranque'[q][a] = arranque[q][a]
        /\ \A q \in Nodos : q # d \/ ~c => fase'[q][a] = fase[q][a] /\ faltan'[q][a] = faltan[q][a]
        /\ c => fase'[d][a] = "apertura" /\ faltan'[d][a] = Nodos
    BY <1>6 DEF TypeOK
  <1>b. \A q \in Nodos, b \in Instancias : b # a => fase'[q][b] = fase[q][b] /\ arranque'[q][b] = arranque[q][b]
    BY <1>6 DEF TypeOK
  <1>8. /\ UNCHANGED <<reloj, orden, flaj, finalizados, fichero, escrituras, i, maximo, miProceso>>
        /\ semBuzon' = semBuzon
        /\ preparados' = [preparados EXCEPT ![d] = @ \cup {p}]
    <2>1. semBuzon[d] = 1 /\ semBuzon' = [semBuzon EXCEPT ![d] = 1]
      BY <1>d, <1>5 DEF BuzonPreparado
    <2>2. semBuzon' = semBuzon
      BY <2>1 DEF TypeOK
    <2> QED BY <2>2, <1>d DEF BuzonPreparado
  <1>9. c => fase[d][a] = "nuevo" /\ i[d][a] = 1 /\ maximo[d][a] = 0
    BY <1>c, <1>5 DEF InvRonda, InvHilo
  <1>10. \A q \in Nodos : /\ Cerrado(q, a)' <=> Cerrado(q, a)
                          /\ Difunde(q, a)' <=> Difunde(q, a) \/ (q = d /\ c)
                          /\ Completo(q)' <=> Completo(q)
                          /\ \A r \in Nodos : Avisado(q, r, a) => Avisado(q, r, a)'
    <2>1. \A q \in Nodos : /\ Cerrado(q, a)' <=> Cerrado(q, a)
                           /\ Difunde(q, a)' <=> Difunde(q, a) \/ (q = d /\ c)
      BY <1>1, <1>7 DEF Cerrado, Difunde
    <2>2. \A q \in Nodos : Completo(q)' <=> Completo(q)
      BY <1>8 DEF Completo, MismoOrden
    <2>3. \A q, r \in Nodos : Avisado(q, r, a) => Avisado(q, r, a)'
      BY <1>p, <1>7 DEF Avisado, Nodos
    <2> QED BY <2>1, <2>2, <2>3
  <1>11. \A m \in Mensajes : Anunciado(m, a)' <=> Anunciado(m, a)
    <2> SUFFICES ASSUME NEW m \in Mensajes PROVE Anunciado(m, a)' <=> Anunciado(m, a)
      OBVIOUS
    <2>1. m[1] \in Nodos
      BY MensajePar
    <2>2. CASE m[1] = d /\ c
      BY <2>2, <1>7, <1>8, <1>9 DEF Anunciado
    <2>3. CASE ~(m[1] = d /\ c)
      BY <2>1, <2>3, <1>7, <1>8 DEF Anunciado
    <2> QED BY <2>2, <2>3
  <1>12. InvRondas(a)'
    <2>1. \A q \in Nodos : escrituras'[q] \in {a - 1, a}
      BY <1>8 DEF InvRonda, InvRondas
    <2>2. \A q \in Nodos, b \in Instancias : b # a =>
            /\ fase'[q][b] = fase[q][b] /\ arranque'[q][b] = arranque[q][b]
            /\ i'[q][b] = i[q][b] /\ maximo'[q][b] = maximo[q][b]
      BY <1>b, <1>8
    <2>3. InvRondas(a) /\ UNCHANGED miProceso
      BY <1>8 DEF InvRonda
    <2> QED BY <2>1, <2>2, <2>3, RondasIgual
  <1>13. InvArranque(a)'
    <2>1. SemaforoLibre'
      BY <1>8 DEF InvRonda, InvArranque, SemaforoLibre
    <2>2. \A q \in Nodos : IF miProceso'[q] = a
                             THEN fase'[q][a] # "sin" /\ arranque'[q][a] > 0
                             ELSE fase'[q][a] = "sin" /\ arranque'[q][a] = 0
      <3>1. miProceso[p] = a /\ (c => miProceso[d] = a) /\ d + 1 > 0
        BY <1>p, <1>c, <1>5 DEF InvRonda, InvArranque, Nodos
      <3>2. \A q \in Nodos : IF miProceso[q] = a
                             THEN fase[q][a] # "sin" /\ arranque[q][a] > 0
                             ELSE fase[q][a] = "sin" /\ arranque[q][a] = 0
        BY DEF InvRonda, InvArranque
      <3>3. ASSUME NEW q \in Nodos
            PROVE  /\ fase'[q][a] = "sin" <=> fase[q][a] = "sin"
                   /\ q # p => arranque'[q][a] = arranque[q][a]
                   /\ q = p => arranque'[q][a] > 0 /\ miProceso[q] = a
        BY <3>1, <1>7, <1>9
      <3> QED BY <3>2, <3>3, <1>8
    <2>3. \A q, r \in Nodos : r \in preparados'[q] => Avisado(r, q, a)'
      <3> SUFFICES ASSUME NEW q \in Nodos, NEW r \in Nodos, r \in preparados'[q] PROVE Avisado(r, q, a)'
        OBVIOUS
      <3>1. CASE r \in preparados[q]
        BY <3>1, <1>10 DEF InvRonda, InvArranque
      <3>2. CASE r \notin preparados[q]
        <4>1. q = d /\ r = p
          BY <3>2, <1>8 DEF TypeOK
        <4> QED BY <4>1, <1>7 DEF Avisado, Nodos
      <3> QED BY <3>1, <3>2
    <2>4. \A q \in Nodos : Difunde(q, a)' \/ Cerrado(q, a)' => \A r \in Nodos : Avisado(r, q, a)'
      <3> SUFFICES ASSUME NEW q \in Nodos, Difunde(q, a)' \/ Cerrado(q, a)', NEW r \in Nodos
                   PROVE  Avisado(r, q, a)'
        OBVIOUS
      <3>1. CASE Difunde(q, a) \/ Cerrado(q, a)
        BY <3>1, <1>10 DEF InvRonda, InvArranque
      <3>2. CASE q = d /\ c /\ r # p
        BY <3>2, <1>4, <1>c, <1>10
      <3>3. CASE q = d /\ r = p
        BY <3>3, <1>7 DEF Avisado, Nodos
      <3> QED BY <3>1, <3>2, <3>3, <1>10
    <2> QED BY <2>1, <2>2, <2>3, <2>4 DEF InvArranque
  <1>14. InvHilo(a)'
    <2>1. \A q \in Nodos : q # d \/ ~c => /\ fase'[q][a] = fase[q][a] /\ faltan'[q][a] = faltan[q][a]
                                          /\ i'[q][a] = i[q][a] /\ maximo'[q][a] = maximo[q][a]
      BY <1>7, <1>8
    <2>2. c => fase'[d][a] = "apertura" /\ faltan'[d][a] = Nodos /\ maximo'[d][a] = 0
      BY <1>7, <1>8, <1>9
    <2> QED BY <2>1, <2>2, <1>a DEF InvRonda, InvHilo
  <1>15. InvRegistro(a)'
    <2>1. ASSUME NEW s \in Nodos, NEW q \in Nodos, NEW k \in Numeros PROVE EnRegistro(s, q, k, a)'
      <3>1. EnRegistro(s, q, k, a) /\ <<s, k>> \in Mensajes
        BY ClaveMensaje DEF InvRonda, InvRegistro
      <3>2. Anunciado(<<s, k>>, a)' <=> Anunciado(<<s, k>>, a)
        BY <3>1, <1>11
      <3>3. MismoOrden(s, k)' <=> MismoOrden(s, k)
        BY <1>8 DEF MismoOrden
      <3>4. CASE s = d /\ c
        <4>1. ~(k < i'[s][a]) /\ fase'[s][a] = "apertura" /\ faltan'[s][a] = Nodos /\ SinEnviar(s, q, k, a)
          BY <3>4, <1>7, <1>8, <1>9 DEF Numeros, SinEnviar
        <4> QED BY <4>1, <3>1, <3>2, <1>8 DEF EnRegistro
      <3>5. CASE ~(s = d /\ c)
        BY <3>1, <3>2, <3>3, <3>5, <1>7, <1>8 DEF EnRegistro, SinEnviar
      <3> QED BY <3>4, <3>5
    <2> QED BY <2>1, <1>8 DEF InvRonda, InvRegistro
  <1>16. InvFin(a)'
    <2>1. ASSUME NEW r \in Nodos, NEW q \in Nodos, q \in finalizados'[r] \/ escrituras'[r] = a
          PROVE  /\ Cerrado(q, a)' /\ Completo(q)'
                 /\ \A k \in Numeros : Anunciado(<<q, k>>, a)'
                 /\ fase'[q][a] = "fin" => r \notin faltan'[q][a]
      <3>1. (q \in finalizados[r] \/ escrituras[r] = a) /\ q # d
        BY <2>1, <1>2, <1>8
      <3>2. /\ Cerrado(q, a) /\ Completo(q)
            /\ \A k \in Numeros : Anunciado(<<q, k>>, a)
            /\ fase[q][a] = "fin" => r \notin faltan[q][a]
        BY <3>1 DEF InvRonda, InvFin
      <3>3. \A k \in Numeros : Anunciado(<<q, k>>, a)'
        BY <3>2, <1>11, ClaveMensaje
      <3> QED BY <3>1, <3>2, <3>3, <1>7, <1>10
    <2> QED BY <2>1, <1>2, <1>8 DEF InvRonda, InvFin, Acuerdo
  <1>17. \A m \in Mensajes : Anunciado(m, a) => orden[1][m] > 0
    <2> SUFFICES ASSUME NEW m \in Mensajes, Anunciado(m, a) PROVE orden[1][m] > 0
      OBVIOUS
    <2>1. m[1] \in Nodos /\ m[2] \in Numeros /\ m = <<m[1], m[2]>>
      BY MensajePar
    <2>2. EnRegistro(m[1], 1, m[2], a)
      BY <2>1, <1>a DEF InvRonda, InvRegistro
    <2> QED BY <2>1, <2>2 DEF EnRegistro
  <1>18. ASSUME InvOrdenes(a) PROVE InvUnico(a)'
    <2>1. \A m, e \in Mensajes :
            m # e /\ Anunciado(m, a)' /\ Anunciado(e, a)' => orden'[1][m] # orden'[1][e]
      BY <1>8, <1>11, <1>18 DEF InvOrdenes, InvUnico
    <2>2. \A q \in Nodos, m \in Mensajes :
            Difunde(q, a)' /\ m # <<q, i'[q][a]>> /\ Anunciado(m, a)' => maximo'[q][a] # orden'[1][m]
      <3> SUFFICES ASSUME NEW q \in Nodos, NEW m \in Mensajes, Difunde(q, a)', m # <<q, i'[q][a]>>, Anunciado(m, a)'
                   PROVE  maximo'[q][a] # orden'[1][m]
        OBVIOUS
      <3>1. CASE q = d /\ c
        <4>1. maximo'[q][a] = 0 /\ orden'[1][m] > 0
          BY <3>1, <1>8, <1>9, <1>11, <1>17
        <4> QED BY <4>1
      <3>2. CASE Difunde(q, a)
        BY <3>2, <1>8, <1>11, <1>18 DEF InvOrdenes, InvUnico
      <3> QED BY <3>1, <3>2, <1>10
    <2>3. \A q, r \in Nodos : q # r /\ Difunde(q, a)' /\ Difunde(r, a)' /\ maximo'[q][a] > 0
                                => maximo'[q][a] # maximo'[r][a]
      <3> SUFFICES ASSUME NEW q \in Nodos, NEW r \in Nodos, q # r, Difunde(q, a)', Difunde(r, a)', maximo'[q][a] > 0
                   PROVE  maximo'[q][a] # maximo'[r][a]
        OBVIOUS
      <3>1. maximo' = maximo /\ maximo[q][a] > 0 /\ ~(q = d /\ c)
        BY <1>8, <1>9
      <3>2. CASE r = d /\ c
        BY <3>2, <3>1, <1>9
      <3>3. CASE ~(r = d /\ c)
        <4>1. Difunde(q, a) /\ Difunde(r, a)
          BY <3>1, <3>3, <1>10
        <4> QED BY <4>1, <3>1, <1>18 DEF InvOrdenes, InvUnico
      <3> QED BY <3>2, <3>3
    <2> QED BY <2>1, <2>2, <2>3 DEF InvUnico
  <1>19. ASSUME InvOrdenes(a) PROVE InvReloj(a)'
    <2>1. /\ \A m \in Mensajes : Anunciado(m, a) => Contestado(orden[1][m], reloj)
          /\ \A q \in Nodos : Difunde(q, a) /\ maximo[q][a] > 0 => Contestado(maximo[q][a], reloj)
      BY <1>1, <1>19 DEF InvOrdenes, InvReloj
    <2>2. \A q \in Nodos : Difunde(q, a)' /\ maximo[q][a] > 0 => Difunde(q, a)
      BY <1>9, <1>10
    <2> QED BY <2>1, <2>2, <1>8, <1>11 DEF InvReloj
  <1>20. FicheroCompleto => FicheroCompleto'
    BY <1>8 DEF FicheroCompleto
  <1>21. Conserva(a, {})
    BY <1>8, <1>11 DEF Conserva
  <1> QED BY <1>12, <1>13, <1>14, <1>15, <1>16, <1>18, <1>19, <1>20, <1>21 DEF InvRonda, InvOrdenes

-----------------------------------------------------------------------------
(* The invariant of the system *)

LEMMA QuietoInv ==
  ASSUME TypeOK, NEW a \in Instancias, InvRonda(a), UNCHANGED vars
  PROVE  InvRonda(a)' /\ (InvOrdenes(a) => InvOrdenes(a)')
  <1>1. /\ UNCHANGED <<reloj, orden, flaj, preparados, finalizados, semBuzon, fichero, escrituras>>
        /\ UNCHANGED <<arranque, fase, i, faltan, maximo, miProceso>>
    BY DEF vars, servidor, proceso
  <1>2. InvRondas(a)' /\ InvArranque(a)' /\ InvHilo(a)'
    BY <1>1 DEF InvRonda, InvRondas, InvArranque, SemaforoLibre, InvHilo, Avisado, Difunde, Cerrado
  <1>3. InvRegistro(a)'
    BY <1>1 DEF InvRonda, InvRegistro, EnRegistro, SinEnviar, Anunciado, MismoOrden
  <1>4. InvFin(a)'
    BY <1>1 DEF InvRonda, InvFin, Acuerdo, Cerrado, Completo, Anunciado, MismoOrden
  <1>5. InvOrdenes(a) => InvOrdenes(a)'
    BY <1>1 DEF InvOrdenes, InvUnico, InvReloj, FicheroCompleto, Anunciado, Difunde, Cerrado
  <1> QED BY <1>2, <1>3, <1>4, <1>5 DEF InvRonda

\* Every step but /reinicio keeps the whole invariant, of this round or of the next.
LEMMA PasoRonda ==
  ASSUME TypeOK, NEW a \in Instancias, InvRonda(a), [NextFallos]_vars
  PROVE  \E b \in Instancias : InvRonda(b)' /\ (InvOrdenes(a) => InvOrdenes(b)')
  <1>1. CASE UNCHANGED vars
    BY <1>1, QuietoInv
  <1>2. ASSUME NEW p \in Nodos, StartEnTurno(p)
        PROVE  \E b \in Instancias : InvRonda(b)' /\ (InvOrdenes(a) => InvOrdenes(b)')
    <2>1. CASE miProceso[p] = a - 1
      BY <1>2, <2>1, StartInv
    <2>2. CASE miProceso[p] = a
      BY <1>2, <2>2, StartNueva
    <2> QED BY <2>1, <2>2 DEF InvRonda, InvRondas
  <1>3. ASSUME NEW p \in Nodos, NEW b \in Instancias, Preparado(p, b)
        PROVE  InvRonda(a)' /\ (InvOrdenes(a) => InvOrdenes(a)')
    <2>1. b = a
      BY <1>3, RondaDePreparado DEF InvRonda
    <2> QED BY <2>1, <1>3, PreparadoInv
  <1>4. ASSUME NEW p \in Nodos, NEW b \in Instancias, Multidifusion(p, b) \/ FallaHTTP(p, b)
        PROVE  InvRonda(a)' /\ (InvOrdenes(a) => InvOrdenes(a)')
    <2>1. fase[p][b] \in {"apertura", "orden", "fin"}
      BY <1>4 DEF Multidifusion, Apertura, Orden, Fin, FallaHTTP
    <2>2. b = a
      BY <2>1, EnRonda DEF InvRonda
    <2> QED BY <2>2, <1>4, AperturaInv, OrdenInv, FinInv, FallaInv DEF Multidifusion
  <1> QED BY <1>1, <1>2, <1>3, <1>4 DEF NextFallos, Next, Paso

\* Calls and answers leave the count of interventions alone; failures raise it.
LEMMA SinIntervenir ==
  ASSUME TypeOK, [NextFallos]_vars, intervenciones' = 0 PROVE intervenciones = 0
  <1>1. CASE UNCHANGED vars
    BY <1>1 DEF vars
  <1>2. ASSUME NEW p \in Nodos, StartEnTurno(p) \/ Paso(p) PROVE intervenciones' = intervenciones
    BY <1>2 DEF StartEnTurno, Start, Paso, Preparado, Multidifusion, Apertura, Orden, Fin
  <1>3. ASSUME NEW p \in Nodos, NEW b \in Instancias, FallaHTTP(p, b) PROVE intervenciones' # 0
    BY <1>3 DEF FallaHTTP, Intervenir, TypeOK
  <1> QED BY <1>1, <1>2, <1>3 DEF NextFallos, Next

LEMMA PasoInv ==
  ASSUME IInv, [NextIntervenciones]_vars PROVE IInv'
  <1>1. TypeOK /\ TypeOK'
    BY PasoTipo DEF IInv
  <1>2. PICK a \in Instancias : InvRonda(a) /\ (intervenciones = 0 => InvOrdenes(a))
    BY DEF IInv
  <1>3. CASE [NextFallos]_vars
    <2>1. PICK b \in Instancias : InvRonda(b)' /\ (InvOrdenes(a) => InvOrdenes(b)')
      BY <1>1, <1>2, <1>3, PasoRonda
    <2>2. intervenciones' = 0 => intervenciones = 0
      BY <1>1, <1>3, SinIntervenir
    <2> QED BY <2>1, <2>2, <1>1, <1>2 DEF IInv
  <1>4. ASSUME NEW p \in Nodos, Reinicio(p) PROVE IInv'
    <2>1. InvRonda(a)' /\ intervenciones' # 0
      BY <1>1, <1>2, <1>4, ReinicioInv
    <2> QED BY <2>1, <1>1 DEF IInv
  <1> QED BY <1>3, <1>4 DEF NextIntervenciones

LEMMA PasoInvFallos ==
  ASSUME IInvFallos, [NextFallos]_vars PROVE IInvFallos'
  <1>1. TypeOK /\ TypeOK'
    BY PasoTipo DEF IInvFallos, NextIntervenciones
  <1>2. PICK a \in Instancias : InvRonda(a) /\ InvOrdenes(a)
    BY DEF IInvFallos
  <1>3. PICK b \in Instancias : InvRonda(b)' /\ (InvOrdenes(a) => InvOrdenes(b)')
    BY <1>1, <1>2, PasoRonda
  <1> QED BY <1>1, <1>2, <1>3 DEF IInvFallos

\* Servidor and Proceso, from any round to the next: the invariant holds whatever HTTP
\* calls fail and whenever /reinicio is called.
THEOREM Invariante == SpecIntervenciones => []IInv
  <1>1. Init => IInv
    BY InicioInv DEF IInv
  <1>2. IInv /\ [NextIntervenciones]_vars => IInv'
    BY PasoInv
  <1> QED BY <1>1, <1>2, PTL DEF SpecIntervenciones

\* As long as nobody calls /reinicio, failed HTTP calls leave every agreed order unique.
THEOREM InvarianteFallos == SpecFallos => []IInvFallos
  <1>1. Init => IInvFallos
    BY InicioInv DEF IInvFallos
  <1>2. IInvFallos /\ [NextFallos]_vars => IInvFallos'
    BY PasoInvFallos
  <1> QED BY <1>1, <1>2, PTL DEF SpecFallos

\* Servidor.java:207-209: no handler of a type 3 call ever fails, so every node's
\* mailbox keeps answering, in every round.
THEOREM SemaforoSiempreLibre == SpecIntervenciones => []SemaforoLibre
  <1>1. IInv => SemaforoLibre
    BY DEF IInv, InvRonda, InvArranque
  <1> QED BY <1>1, Invariante, PTL

\* Two nodes that have written the file of the same round wrote the same lines, whatever
\* fails and whoever calls /reinicio: "Todos los nodos entregan los mensajes en el mismo
\* orden" (README:3-5), at the end of a round.
THEOREM AcuerdoDeFicheros == SpecIntervenciones => []Acuerdo
  <1>1. IInv => Acuerdo
    BY DEF IInv, InvRonda, InvFin
  <1> QED BY <1>1, Invariante, PTL

\* Every file of every round holds every message of every node, with an order of its own,
\* if no call failed and nobody called /reinicio.
THEOREM FicherosDeRonda == SpecIntervenciones => []FicheroDeRonda
  <1>1. IInv => FicheroDeRonda
    BY DEF IInv, InvOrdenes, FicheroDeRonda
  <1> QED BY <1>1, Invariante, PTL

\* Failed HTTP calls do not spoil a file: they may keep it from being written.
THEOREM FicherosCompletos == SpecFallos => []FicheroCompleto
  <1>1. IInvFallos => FicheroCompleto
    BY DEF IInvFallos, InvOrdenes
  <1> QED BY <1>1, InvarianteFallos, PTL

\* Servidor.java:194: the reinicio() of buzon clears a node's clock and matrices when no
\* thread of any round has a message left to open, to order, or to begin with.
THEOREM ReinicioSiempreSeguro == SpecIntervenciones => ReinicioSeguro
  <1>1. ASSUME IInv, [NextIntervenciones]_vars, NEW q \in Nodos, escrituras'[q] # escrituras[q],
               NEW p \in Nodos, NEW b \in Instancias
        PROVE  fase[p][b] \notin {"nuevo", "apertura", "orden"}
    <2>t. TypeOK
      BY <1>1 DEF IInv
    <2>1. PICK s \in Nodos, c \in Instancias : Fin(s, c)
      <3>1. ASSUME NEW s \in Nodos, NEW c \in Instancias,
                   UNCHANGED vars \/ StartEnTurno(s) \/ Preparado(s, c) \/ Apertura(s, c)
                   \/ Orden(s, c) \/ FallaHTTP(s, c) \/ Reinicio(s)
            PROVE  escrituras' = escrituras
        BY <3>1 DEF vars, servidor, StartEnTurno, Start, Preparado, BuzonPreparado, Apertura,
                    BuzonApertura, Orden, BuzonOrden, FallaHTTP, Reinicio
      <3>2. 1 \in Nodos /\ 1 \in Instancias
        BY DEF Nodos, Instancias
      <3> QED BY <1>1, <3>1, <3>2 DEF NextIntervenciones, NextFallos, Next, Paso, Multidifusion
    <2>2. PICK a \in Instancias : InvRonda(a)
      BY <1>1 DEF IInv
    <2>3. fase[s][c] = "fin" /\ c = a
      BY <2>1, <2>2, EnRonda DEF Fin, InvRonda
    <2>4. InvRonda(a)'
      BY <2>1, <2>2, <2>3, <2>t, FinInv
    <2>5. escrituras[q] # a /\ escrituras'[q] = a
      <3>1. PICK d \in Nodos : BuzonFin(d, s)
        BY <2>1, <2>t DEF Fin, TypeOK
      <3>2. escrituras'[q] = escrituras[q] + 1 /\ escrituras[q] \in Nat
        BY <1>1, <3>1, <2>t DEF BuzonFin, TypeOK
      <3>3. escrituras[q] \in {a - 1, a} /\ escrituras'[q] \in {a - 1, a}
        BY <2>2, <2>4 DEF InvRonda, InvRondas
      <3> QED BY <3>2, <3>3 DEF Instancias
    <2>6. CASE b = a
      <3>1. Cerrado(p, a)'
        BY <2>4, <2>5 DEF InvRonda, InvFin
      <3>2. p # s => fase'[p][a] = fase[p][a]
        BY <2>1, <2>3, <2>t DEF Fin, TypeOK
      <3> QED BY <3>1, <3>2, <2>3, <2>6 DEF Cerrado
    <2>7. CASE b # a
      <3>1. b < a \/ b > a
        BY <2>7 DEF Instancias
      <3> QED BY <3>1, <2>2 DEF InvRonda, InvRondas
    <2> QED BY <2>6, <2>7
  <1>2. IInv /\ [NextIntervenciones]_vars
          => [\A q \in Nodos : escrituras'[q] # escrituras[q]
                => \A p \in Nodos, a \in Instancias :
                      fase[p][a] \notin {"nuevo", "apertura", "orden"}]_vars
    BY <1>1
  <1> QED BY <1>2, Invariante, PTL DEF SpecIntervenciones, ReinicioSeguro

-----------------------------------------------------------------------------
(* Every round implements the abstract specification OrdenTotal *)

LEMMA UltimaRonda ==
  ASSUME NEW a \in Instancias, NEW mp, \A p \in Nodos : mp[p] \in {a - 1, a},
         a = 1 \/ \E p \in Nodos : mp[p] = a
  PROVE  (LET S == {1} \cup {mp[p] : p \in Nodos} IN CHOOSE b \in S : \A c \in S : c <= b) = a
  <1> DEFINE S == {1} \cup {mp[p] : p \in Nodos}
  <1>1. a \in S /\ \A c \in S : c <= a /\ c \in Int
    BY DEF Instancias
  <1>2. \A b \in S : (\A c \in S : c <= b) => b = a
    <2> SUFFICES ASSUME NEW b \in S, \A c \in S : c <= b PROVE b = a
      OBVIOUS
    <2>1. a <= b /\ b <= a /\ a \in Int /\ b \in Int
      BY <1>1
    <2> QED BY <2>1
  <1>3. (CHOOSE b \in S : \A c \in S : c <= b) = a
    <2> HIDE DEF S
    <2>1. \E b \in S : \A c \in S : c <= b
      BY <1>1
    <2> DEFINE e == CHOOSE b \in S : \A c \in S : c <= b
    <2>2. e \in S /\ \A c \in S : c <= e
      BY <2>1
    <2> HIDE DEF e
    <2>3. e = a
      BY <2>2, <1>2
    <2> QED BY <2>3 DEF e
  <1> QED BY <1>3

LEMMA RondaEs ==
  ASSUME NEW a \in Instancias, InvRonda(a) PROVE RondaActual = a
  <1>1. (\A p \in Nodos : miProceso[p] \in {a - 1, a}) /\ (a = 1 \/ \E p \in Nodos : miProceso[p] = a)
    BY DEF InvRonda, InvRondas
  <1> QED BY <1>1, UltimaRonda DEF RondaActual

LEMMA RondaSera ==
  ASSUME NEW a \in Instancias, InvRonda(a)' PROVE RondaActual' = a
  <1>1. (\A p \in Nodos : miProceso'[p] \in {a - 1, a}) /\ (a = 1 \/ \E p \in Nodos : miProceso'[p] = a)
    BY DEF InvRonda, InvRondas
  <1> QED BY <1>1, UltimaRonda DEF RondaActual

LEMMA AnunciadoTieneOrden ==
  ASSUME NEW a \in Instancias, InvRonda(a), NEW m \in Mensajes, Anunciado(m, a)
  PROVE  orden[1][m] > 0
  <1>1. m[1] \in Nodos /\ m[2] \in Numeros /\ m = <<m[1], m[2]>> /\ 1 \in Nodos
    BY MensajePar DEF Nodos
  <1>2. EnRegistro(m[1], 1, m[2], a)
    BY <1>1 DEF InvRonda, InvRegistro
  <1> QED BY <1>1, <1>2 DEF EnRegistro

\* A step that agrees nothing and writes nothing stutters.
LEMMA AbstractoIgual ==
  ASSUME NEW a \in Instancias, InvRonda(a), InvRonda(a)', Conserva(a, {}),
         UNCHANGED <<fichero, escrituras>>
  PROVE  UNCHANGED <<Acordado, Entregado>>
  <1>1. RondaActual = a /\ RondaActual' = a
    BY RondaEs, RondaSera
  <1> QED BY <1>1 DEF Acordado, Entregado, Conserva

\* The first call of type 1 for a message agrees its order: an order of its own.
LEMMA OrdenAbstracto ==
  ASSUME TypeOK, TypeOK', NEW a \in Instancias, InvRonda(a), InvOrdenes(a), NEW p \in Nodos, Orden(p, a)
  PROVE  Abstracta!Next \/ UNCHANGED <<Acordado, Entregado>>
  <1>1. /\ InvRonda(a)' /\ InvOrdenes(a)'
        /\ \/ Conserva(a, {})
           \/ \E m \in Mensajes : ~Anunciado(m, a) /\ Anunciado(m, a)' /\ Conserva(a, {m})
    BY OrdenInv
  <1>2. RondaActual = a /\ RondaActual' = a
    BY <1>1, RondaEs, RondaSera
  <1>3. UNCHANGED <<fichero, escrituras>>
    BY DEF Orden, BuzonOrden
  <1>4. CASE Conserva(a, {})
    BY <1>1, <1>3, <1>4, AbstractoIgual
  <1>5. ASSUME NEW m \in Mensajes, ~Anunciado(m, a), Anunciado(m, a)', Conserva(a, {m})
        PROVE  Abstracta!Acordar(m)
    <2>1. Acordado[m] = 0 /\ Acordado'[m] = orden'[1][m]
      BY <1>2, <1>5 DEF Acordado
    <2>2. orden'[1][m] > 0
      <3>1. m[1] \in Nodos /\ m[2] \in Numeros /\ m = <<m[1], m[2]>> /\ 1 \in Nodos
        BY MensajePar DEF Nodos
      <3>2. EnRegistro(m[1], 1, m[2], a)'
        BY <1>1, <3>1 DEF InvRonda, InvRegistro
      <3> QED BY <1>5, <3>1, <3>2 DEF EnRegistro
    <2>3. ASSUME NEW c \in Mensajes \ {m} PROVE Acordado'[c] = Acordado[c] /\ Acordado[c] # orden'[1][m]
      <3>1. (Anunciado(c, a)' <=> Anunciado(c, a)) /\ (Anunciado(c, a) => orden'[1][c] = orden[1][c])
        BY <1>5 DEF Conserva
      <3>2. Anunciado(c, a)' => orden'[1][c] # orden'[1][m]
        BY <1>1, <1>5 DEF InvOrdenes, InvUnico
      <3> QED BY <3>1, <3>2, <2>2, <1>2 DEF Acordado
    <2>4. Acordado' \in [Mensajes -> Nat]
      <3>1. \A c \in Mensajes : orden'[1][c] \in Nat
        BY DEF TypeOK, Claves, Nodos
      <3> QED BY <3>1 DEF Acordado
    <2>5. Entregado' = Entregado
      BY <1>2, <1>3 DEF Entregado
    <2> QED BY <2>1, <2>2, <2>3, <2>4, <2>5 DEF Abstracta!Acordar
  <1> QED BY <1>1, <1>4, <1>5 DEF Abstracta!Next

\* The last announcement of an end to a node delivers there the agreed orders, all of them.
LEMMA FinAbstracto ==
  ASSUME TypeOK, NEW a \in Instancias, InvRonda(a), NEW p \in Nodos, Fin(p, a)
  PROVE  Abstracta!Next \/ UNCHANGED <<Acordado, Entregado>>
  <1>1. InvRonda(a)' /\ Conserva(a, {})
    BY FinInv
  <1>2. RondaActual = a /\ RondaActual' = a
    BY <1>1, RondaEs, RondaSera
  <1>3. PICK d \in Nodos : BuzonFin(d, p)
    BY DEF Fin, TypeOK
  <1>4. Acordado' = Acordado /\ orden' = orden
    BY <1>1, <1>2, <1>3 DEF Conserva, Acordado, BuzonFin
  <1>5. CASE finalizados[d] \cup {p} # Nodos
    <2>1. UNCHANGED <<fichero, escrituras>>
      BY <1>3, <1>5 DEF BuzonFin, ComprobarMatriz, TypeOK
    <2> QED BY <2>1, <1>1, AbstractoIgual
  <1>6. CASE finalizados[d] \cup {p} = Nodos
    <2>1. escrituras[d] # a /\ escrituras'[d] = a /\ \A q \in Nodos : q # d => escrituras'[q] = escrituras[q]
      <3>1. escrituras'[d] = escrituras[d] + 1 /\ \A q \in Nodos : q # d => escrituras'[q] = escrituras[q]
        BY <1>3, <1>6 DEF BuzonFin, ComprobarMatriz, TypeOK
      <3>2. escrituras[d] \in {a - 1, a} /\ escrituras'[d] \in {a - 1, a}
        BY <1>1 DEF InvRonda, InvRondas
      <3> QED BY <3>1, <3>2 DEF Instancias
    <2>2. ASSUME NEW m \in Mensajes PROVE Anunciado(m, a) /\ Acordado[m] = orden[1][m] /\ Acordado[m] # 0
      <3>1. m[1] \in Nodos /\ m[2] \in Numeros /\ m = <<m[1], m[2]>>
        BY MensajePar
      <3>2. Anunciado(<<m[1], m[2]>>, a)'
        BY <1>1, <2>1, <3>1 DEF InvRonda, InvFin
      <3>3. Anunciado(m, a)
        BY <1>1, <3>1, <3>2 DEF Conserva
      <3> QED BY <3>3, <1>2, AnunciadoTieneOrden DEF Acordado
    <2>3. fichero'[d] = {<<m, Acordado[m]>> : m \in Mensajes}
      <3>1. fichero'[d] = {<<m, orden'[1][m]>> : m \in Mensajes}
        BY <1>1, <2>1 DEF InvRonda, InvFin
      <3> QED BY <3>1, <2>2, <1>4
    <2>4. Entregado[d] = {} /\ Entregado' = [Entregado EXCEPT ![d] = {<<m, Acordado[m]>> : m \in Mensajes}]
      <3>1. \A q \in Nodos : q # d => fichero'[q] = fichero[q]
        BY <1>3 DEF BuzonFin, TypeOK
      <3> QED BY <3>1, <2>1, <2>3, <1>2 DEF Entregado
    <2>5. Abstracta!Entregar(d)
      BY <2>2, <2>4, <1>4 DEF Abstracta!Entregar
    <2> QED BY <2>5 DEF Abstracta!Next
  <1> QED BY <1>5, <1>6

\* /start either joins the round or, when all have delivered, begins the next one.
LEMMA StartAbstracto ==
  ASSUME TypeOK, NEW a \in Instancias, InvRonda(a), NEW p \in Nodos, StartEnTurno(p)
  PROVE  Abstracta!Next \/ UNCHANGED <<Acordado, Entregado>>
  <1>1. CASE miProceso[p] = a - 1
    <2>1. InvRonda(a)' /\ Conserva(a, {})
      BY <1>1, StartInv
    <2>2. UNCHANGED <<fichero, escrituras>>
      BY DEF StartEnTurno, Start, servidor
    <2> QED BY <2>1, <2>2, AbstractoIgual
  <1>2. CASE miProceso[p] = a
    <2>1. /\ a + 1 \in Instancias /\ InvRonda(a + 1)'
          /\ \A q \in Nodos : escrituras[q] = a /\ escrituras'[q] # a + 1
          /\ \A m \in Mensajes : ~Anunciado(m, a + 1)'
      BY <1>2, StartNueva
    <2>2. PICK s \in Instancias : s = a + 1
      BY <2>1
    <2>3. RondaActual = a /\ RondaActual' = s
      BY <2>1, <2>2, RondaEs, RondaSera
    <2>4. ASSUME NEW q \in Nodos PROVE Entregado[q] # {}
      <3>1. fichero[q] = {<<m, orden[1][m]>> : m \in Mensajes} /\ Entregado[q] = fichero[q]
        BY <2>1, <2>3 DEF InvRonda, InvFin, Entregado
      <3>2. <<1, 1>> \in Mensajes
        BY DEF Mensajes, Nodos
      <3> QED BY <3>1, <3>2
    <2>5. Acordado' = [m \in Mensajes |-> 0]
      BY <2>1, <2>2, <2>3 DEF Acordado
    <2>6. Entregado' = [q \in Nodos |-> {}]
      BY <2>1, <2>2, <2>3 DEF Entregado
    <2> QED BY <2>4, <2>5, <2>6 DEF Abstracta!Next, Abstracta!NuevaRonda
  <1> QED BY <1>1, <1>2 DEF InvRonda, InvRondas

LEMMA PasoAbstracto ==
  ASSUME TypeOK, TypeOK', NEW a \in Instancias, InvRonda(a), InvOrdenes(a), [Next]_vars
  PROVE  Abstracta!Next \/ UNCHANGED <<Acordado, Entregado>>
  <1>1. CASE UNCHANGED vars
    BY <1>1 DEF vars, servidor, proceso, Acordado, Entregado, RondaActual, Anunciado
  <1>2. ASSUME NEW p \in Nodos, NEW b \in Instancias, Preparado(p, b) \/ Multidifusion(p, b) PROVE b = a
    <2>1. CASE Preparado(p, b)
      BY <2>1, RondaDePreparado DEF InvRonda
    <2>2. CASE Multidifusion(p, b)
      BY <2>2, EnRonda DEF InvRonda, Multidifusion, Apertura, Orden, Fin
    <2> QED BY <1>2, <2>1, <2>2
  <1>3. ASSUME NEW p \in Nodos, Preparado(p, a) \/ Apertura(p, a) PROVE UNCHANGED <<Acordado, Entregado>>
    <2>1. InvRonda(a)' /\ Conserva(a, {})
      BY <1>3, PreparadoInv, AperturaInv
    <2>2. UNCHANGED <<fichero, escrituras>>
      BY <1>3 DEF Preparado, BuzonPreparado, Apertura, BuzonApertura
    <2> QED BY <2>1, <2>2, AbstractoIgual
  <1>4. ASSUME NEW p \in Nodos, Paso(p) PROVE Abstracta!Next \/ UNCHANGED <<Acordado, Entregado>>
    <2>1. PICK b \in Instancias : Preparado(p, b) \/ Multidifusion(p, b)
      BY <1>4 DEF Paso
    <2>2. Preparado(p, a) \/ Apertura(p, a) \/ Orden(p, a) \/ Fin(p, a)
      BY <2>1, <1>2 DEF Multidifusion
    <2> QED BY <2>2, <1>3, OrdenAbstracto, FinAbstracto
  <1> QED BY <1>1, <1>4, StartAbstracto DEF Next

LEMMA InicioAbstracto == Init => Abstracta!Init
  <1> SUFFICES ASSUME Init PROVE Abstracta!Init
    OBVIOUS
  <1>1. 1 \in Instancias /\ RondaActual = 1
    BY InicioInv, RondaEs
  <1>2. ASSUME NEW m \in Mensajes PROVE ~Anunciado(m, 1)
    <2>1. m[1] \in Nodos /\ m[2] \in Numeros
      BY MensajePar
    <2>2. i[m[1]][1] = 1 /\ fase[m[1]][1] = "sin"
      BY <2>1, <1>1 DEF Init
    <2> QED BY <2>1, <2>2 DEF Anunciado, Numeros
  <1>3. \A p \in Nodos : escrituras[p] = 0
    BY DEF Init
  <1> QED BY <1>1, <1>2, <1>3 DEF Abstracta!Init, Acordado, Entregado

\* A call that fails in the first round leaves the agreed orders and the files as they are.
LEMMA FallaAbstracta ==
  ASSUME TypeOK, 1 \in Instancias, InvRonda(1), NEW p \in Nodos, FallaHTTP(p, 1)
  PROVE  UNCHANGED <<Acordado, Entregado>>
  <1>1. InvRonda(1)'
    BY FallaInv
  <1>2. /\ UNCHANGED <<servidor, i, faltan>> /\ fase[p][1] \in {"apertura", "orden", "fin"}
        /\ fase'[p][1] = "muerto" /\ \A q \in Nodos : q # p => fase'[q][1] = fase[q][1]
    BY DEF FallaHTTP, TypeOK
  <1>3. ASSUME NEW m \in Mensajes PROVE Anunciado(m, 1)' <=> Anunciado(m, 1)
    <2>1. m[1] \in Nodos /\ m[2] \in Numeros /\ m = <<m[1], m[2]>> /\ 1 \in Nodos
      BY MensajePar DEF Nodos
    <2>2. CASE m[1] # p
      BY <2>1, <2>2, <1>2 DEF Anunciado, servidor
    <2>3. CASE m[1] = p
      <3>1. EnRegistro(p, 1, m[2], 1)
        BY <2>1, <2>3 DEF InvRonda, InvRegistro
      <3>2. Anunciado(m, 1)' <=> m[2] < i[p][1] \/ (m[2] = i[p][1] /\ flaj[1][m] = "entregable")
        BY <2>3, <1>2 DEF Anunciado, servidor
      <3>3. CASE fase[p][1] = "apertura"
        BY <2>1, <2>3, <3>1, <3>2, <3>3 DEF Anunciado, EnRegistro, SinEnviar
      <3>4. CASE fase[p][1] = "orden"
        BY <2>3, <3>2, <3>4 DEF Anunciado
      <3>5. CASE fase[p][1] = "fin"
        <4>1. flaj[1][m] = "entregable"
          BY <2>1, <2>3, <3>1, <3>5 DEF EnRegistro, MismoOrden
        <4>2. m[2] < i[p][1] \/ m[2] = i[p][1]
          BY <2>1, <3>5 DEF InvRonda, InvHilo, Numeros
        <4> QED BY <4>1, <4>2, <2>3, <3>2, <3>5 DEF Anunciado
      <3> QED BY <3>3, <3>4, <3>5, <1>2
    <2> QED BY <2>2, <2>3
  <1>4. Conserva(1, {}) /\ UNCHANGED <<fichero, escrituras>>
    BY <1>2, <1>3 DEF Conserva, servidor
  <1> QED BY <1>1, <1>4, AbstractoIgual

\* README:3-5, 20-25: seen through its agreed orders and its files, every round of the
\* protocol is a round of OrdenTotal: one order per message, never two the same nor
\* one changed, and every file the same and complete; and the next begins over nothing.
THEOREM ImplementaRondas == Spec => ImplementaOrdenTotal
  <1>1. ASSUME IInvFallos, IInvFallos', [Next]_vars
        PROVE  [Abstracta!Next]_<<Acordado, Entregado>>
    BY <1>1, PasoAbstracto DEF IInvFallos
  <1>2. IInvFallos /\ [Next]_vars => IInvFallos'
    BY PasoInvFallos DEF NextFallos
  <1>3. Init => IInvFallos
    BY InicioInv DEF IInvFallos
  <1> QED BY <1>1, <1>2, <1>3, InicioAbstracto, PTL DEF Spec, ImplementaOrdenTotal, Abstracta!Spec

\* The same for one round in which any HTTP call may fail: a failure stops the round,
\* and changes no order that was agreed and no file that was written.
THEOREM Implementa == ASSUME MaxArranques = 1 PROVE SpecFallos => ImplementaOrdenTotal
  <1>1. ASSUME IInvFallos, IInvFallos', [NextFallos]_vars
        PROVE  [Abstracta!Next]_<<Acordado, Entregado>>
    <2>1. TypeOK /\ TypeOK' /\ 1 \in Instancias /\ Instancias = {1} /\ InvRonda(1)
      BY <1>1 DEF IInvFallos, Instancias
    <2>2. ASSUME NEW p \in Nodos, NEW b \in Instancias, FallaHTTP(p, b)
          PROVE  UNCHANGED <<Acordado, Entregado>>
      BY <2>1, <2>2, FallaAbstracta
    <2>3. CASE [Next]_vars
      BY <1>1, <2>3, PasoAbstracto DEF IInvFallos
    <2> QED BY <1>1, <2>2, <2>3 DEF NextFallos
  <1> QED BY <1>1, InicioAbstracto, InvarianteFallos, PTL
          DEF SpecFallos, ImplementaOrdenTotal, Abstracta!Spec

\* And for any number of rounds, up to the first call that fails and the first /reinicio.
THEOREM ImplementaHastaIntervenir == SpecIntervenciones => ImplementaSinIntervenir
  <1>1. ASSUME IInv, IInv', [NextIntervenciones]_vars, intervenciones' = 0
        PROVE  Abstracta!Next \/ UNCHANGED <<Acordado, Entregado>>
    <2>1. TypeOK /\ TypeOK'
      BY <1>1 DEF IInv
    <2>2. ASSUME NEW p \in Nodos, NEW b \in Instancias, FallaHTTP(p, b) \/ Reinicio(p) PROVE FALSE
      BY <1>1, <2>1, <2>2 DEF FallaHTTP, Reinicio, Intervenir, TypeOK
    <2>3. 1 \in Instancias
      BY DEF Instancias
    <2>4. [Next]_vars
      BY <1>1, <2>2, <2>3 DEF NextIntervenciones, NextFallos
    <2>5. intervenciones = 0
      BY <1>1, <2>1, <2>4, SinIntervenir DEF NextFallos
    <2> QED BY <1>1, <2>1, <2>4, <2>5, PasoAbstracto DEF IInv
  <1>2. IInv /\ IInv' /\ [NextIntervenciones]_vars
          => [intervenciones' = 0 => Abstracta!Next \/ UNCHANGED <<Acordado, Entregado>>]_vars
    BY <1>1
  <1> QED BY <1>2, InicioAbstracto, Invariante, PTL DEF SpecIntervenciones, ImplementaSinIntervenir

=============================================================================
