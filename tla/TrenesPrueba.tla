------------------------------ MODULE TrenesPrueba ------------------------------
(***************************************************************************)
(* Safety of the train simulation for any map, any number of trains and    *)
(* any length: types, the shared map, no collision, one entry at a time.   *)
(***************************************************************************)
EXTENDS Trenes, FiniteSetTheorems, TLAPS

-----------------------------------------------------------------------------
(* Bodies *)

Celdas(s) == {s[n] : n \in 1..Len(s)}
SinRepetir(s) == \A m, n \in 1..Len(s) : s[m] = s[n] => m = n

\* What Avance makes of a body: the new cell first, and a whole train leaves its last.
Avanzado(s, c) == <<c>> \o (IF Len(s) = Largo THEN SubSeq(s, 1, Largo - 1) ELSE s)

LEMMA AvanzadoBien ==
    ASSUME NEW s \in Seq(Casillas), NEW c \in Casillas, Len(s) <= Largo,
           SinRepetir(s), c \notin Celdas(s)
    PROVE  /\ Avanzado(s, c) \in Seq(Casillas) /\ Len(Avanzado(s, c)) <= Largo
           /\ SinRepetir(Avanzado(s, c))
           /\ Celdas(Avanzado(s, c)) \subseteq Celdas(s) \cup {c}
           /\ Len(s) = Largo => s[Largo] \in Celdas(s) \ Celdas(Avanzado(s, c))
<1> DEFINE r == IF Len(s) = Largo THEN SubSeq(s, 1, Largo - 1) ELSE s
           a == Avanzado(s, c)
<1>1. Largo \in Nat \ {0} /\ Len(s) \in Nat
  BY LargoAssumption
<1>2. r \in Seq(Casillas) /\ Len(r) = IF Len(s) = Largo THEN Largo - 1 ELSE Len(s)
  BY <1>1
<1>3. \A n \in 1..Len(r) : r[n] = s[n] /\ n \in 1..Len(s)
  BY <1>1, <1>2
<1>4. a \in Seq(Casillas) /\ Len(a) = Len(r) + 1 /\ a[1] = c
  BY <1>1, <1>2 DEF Avanzado
<1>5. \A n \in 2..Len(a) : a[n] = s[n - 1] /\ n - 1 \in 1..Len(s)
  <2>1. \A n \in 2..Len(a) : a[n] = r[n - 1] /\ n - 1 \in 1..Len(r)
    BY <1>2, <1>4 DEF Avanzado
  <2> QED BY <2>1, <1>3
<1>6. Len(a) <= Largo
  BY <1>1, <1>2, <1>4
<1>a. \A n \in 1..Len(a) : n = 1 \/ n \in 2..Len(a)
  BY <1>1, <1>2, <1>4
<1>b. \A n \in 2..Len(a) : a[n] \in Celdas(s)
  BY <1>5 DEF Celdas
<1>7. SinRepetir(a)
  <2>1. \A n \in 2..Len(a) : a[n] # c
    BY <1>b
  <2>2. \A m, n \in 2..Len(a) : a[m] = a[n] => m = n
    BY <1>5 DEF SinRepetir
  <2> QED BY <1>a, <1>4, <2>1, <2>2 DEF SinRepetir
<1>8. Celdas(a) \subseteq Celdas(s) \cup {c}
  <2>1. \A n \in 1..Len(a) : a[n] \in Celdas(s) \cup {c}
    BY <1>a, <1>b, <1>4
  <2> QED BY <2>1 DEF Celdas
<1>9. ASSUME Len(s) = Largo
      PROVE  s[Largo] \in Celdas(s) \ Celdas(a)
  <2>1. s[Largo] \in Celdas(s) /\ s[Largo] # c
    BY <1>1, <1>9 DEF Celdas
  <2>2. \A n \in 2..Len(a) : n - 1 # Largo
    BY <1>1, <1>2, <1>4, <1>9
  <2>3. \A n \in 2..Len(a) : a[n] # s[Largo]
    BY <1>1, <1>5, <1>9, <2>2 DEF SinRepetir
  <2> QED BY <1>1, <1>4, <2>1, <2>3 DEF Celdas
<1> QED BY <1>4, <1>6, <1>7, <1>8, <1>9

LEMMA TantasCeldas ==
    ASSUME NEW s \in Seq(Casillas), SinRepetir(s)
    PROVE  Cardinality(Celdas(s)) = Len(s)
<1> DEFINE f == [n \in 1..Len(s) |-> s[n]]
<1>1. f \in [1..Len(s) -> Celdas(s)]
  BY DEF Celdas
<1>2. \A m, n \in 1..Len(s) : f[m] = f[n] => m = n
  BY DEF SinRepetir
<1>3. \A c \in Celdas(s) : \E n \in 1..Len(s) : f[n] = c
  BY DEF Celdas
<1>4. f \in Bijection(1..Len(s), Celdas(s))
  BY <1>1, <1>2, <1>3 DEF Bijection, Injection, IsInjective, Surjection
<1>5. Len(s) \in Nat
  OBVIOUS
<1> QED BY <1>4, <1>5, FS_CountingElements DEF ExistsBijection

-----------------------------------------------------------------------------
(* The invariant *)

\* The cells a train answers for: those it covers, the one it has been given and not
\* entered yet, the one it has left and not cleared yet.
Suyas(t) == Ocupadas(t) \cup {c \in Casillas : pc[t] = "avance" /\ c = cabeza[t]}
                        \cup {c \in Casillas : pc[t] = "cola" /\ creado[t] = 1 /\ c = xcola[t]}

Cuerpo(t) ==
    /\ Len(cuerpo[t]) <= Largo
    /\ SinRepetir(cuerpo[t])
    /\ pc[t] = "avance" => cabeza[t] \notin Ocupadas(t)
    /\ pc[t] = "cola" => xcola[t] \notin Ocupadas(t)

InvMapa ==
    /\ \A t \in Trenes : Suyas(t) \subseteq mapa /\ Cuerpo(t)
    /\ \A t, u \in Trenes : t # u => Suyas(t) \cap Suyas(u) = {}

Inv == TypeOK /\ InvMapa /\ EntradaEscalonada

\* A step that touches neither a train's cells nor its place between them leaves what
\* it answers for as it was.
LEMMA SuyasIgual ==
    ASSUME NEW t \in Trenes, cuerpo'[t] = cuerpo[t],
           \/ pc'[t] = pc[t] /\ cabeza'[t] = cabeza[t] /\ xcola'[t] = xcola[t] /\ creado'[t] = creado[t]
           \/ {pc[t], pc'[t]} \cap {"avance", "cola"} = {}
    PROVE  Suyas(t)' = Suyas(t) /\ (Cuerpo(t) => Cuerpo(t)')
BY DEF Suyas, Ocupadas, Cuerpo

LEMMA MapaIgual ==
    ASSUME InvMapa, mapa' = mapa, \A t \in Trenes : Suyas(t)' = Suyas(t) /\ Cuerpo(t)'
    PROVE  InvMapa'
BY DEF InvMapa

LEMMA EntrarInv ==
    ASSUME Inv, NEW t \in Trenes, Entrar(t)
    PROVE  Inv'
<1>1. TypeOK'
  <2>1. pc' \in [Trenes -> Pasos]
    BY DEF Inv, TypeOK, Entrar, Pasos
  <2>2. fallos' \in 0..MaxFallos
    BY FallosAssumption DEF Inv, TypeOK, Entrar
  <2> QED BY <2>1, <2>2 DEF Inv, TypeOK, Entrar, main
<1>2. \A u \in Trenes : Suyas(u)' = Suyas(u) /\ Cuerpo(u)'
  BY SuyasIgual DEF Inv, InvMapa, TypeOK, Entrar
<1>3. EntradaEscalonada'
  BY NadieAssumption DEF Inv, TypeOK, EntradaEscalonada, Entrar
<1> QED BY <1>1, <1>2, <1>3, MapaIgual DEF Inv, Entrar

LEMMA EsperarInv ==
    ASSUME Inv, NEW t \in Trenes, EsperarEvento(t)
    PROVE  Inv'
<1>1. TypeOK'
  BY DEF Inv, TypeOK, EsperarEvento, main, Pasos
<1>2. \A u \in Trenes : Suyas(u)' = Suyas(u) /\ Cuerpo(u)'
  BY SuyasIgual DEF Inv, InvMapa, TypeOK, EsperarEvento
<1>3. EntradaEscalonada'
  BY DEF Inv, TypeOK, EntradaEscalonada, EsperarEvento
<1> QED BY <1>1, <1>2, <1>3, MapaIgual DEF Inv, EsperarEvento

LEMMA PetAvanceInv ==
    ASSUME Inv, NEW t \in Trenes, PetAvance(t)
    PROVE  Inv'
<1>1. cabeza' \in [Trenes -> Casillas]
  <2>1. Entrada[t] \in Casillas
    BY EntradaAssumption
  <2>2. cuerpo[t] # <<>> => Vecinas[cuerpo[t][1]] \subseteq Casillas
    <3>1. cuerpo[t] # <<>> => cuerpo[t][1] \in Casillas
      BY DEF Inv, TypeOK
    <3> QED BY <3>1, VecinasAssumption
  <2> QED BY <2>1, <2>2 DEF PetAvance, Inv, TypeOK
<1>2. TypeOK'
  BY <1>1 DEF Inv, TypeOK, PetAvance, main, Pasos
<1>3. \A u \in Trenes : Suyas(u)' = Suyas(u) /\ Cuerpo(u)'
  BY SuyasIgual DEF Inv, InvMapa, TypeOK, PetAvance
<1>4. EntradaEscalonada'
  BY DEF Inv, TypeOK, EntradaEscalonada, PetAvance
<1> QED BY <1>2, <1>3, <1>4, MapaIgual DEF Inv, PetAvance

LEMMA MirarInv ==
    ASSUME Inv, NEW t \in Trenes, Mirar(t)
    PROVE  Inv'
<1>1. TypeOK'
  BY DEF Inv, TypeOK, Mirar, main, Pasos
<1>2. \A u \in Trenes : Suyas(u)' = Suyas(u) /\ Cuerpo(u)'
  BY SuyasIgual DEF Inv, InvMapa, TypeOK, Mirar
<1>3. EntradaEscalonada'
  BY DEF Inv, TypeOK, EntradaEscalonada, Mirar
<1> QED BY <1>1, <1>2, <1>3, MapaIgual DEF Inv, Mirar

LEMMA OcuparInv ==
    ASSUME Inv, NEW t \in Trenes, Ocupar(t)
    PROVE  Inv'
<1>1. TypeOK'
  <2>1. cabeza[t] \in Casillas /\ pc' \in [Trenes -> Pasos]
    BY DEF Inv, TypeOK, Ocupar, Pasos
  <2> QED BY <2>1 DEF Inv, TypeOK, Ocupar, main
<1>2. \A u \in Trenes \ {t} : Suyas(u)' = Suyas(u) /\ Cuerpo(u)'
  BY SuyasIgual DEF Inv, InvMapa, TypeOK, Ocupar
<1>3. mapa \subseteq mapa'
  BY DEF Ocupar
<1>4. EntradaEscalonada'
  BY DEF Inv, TypeOK, EntradaEscalonada, Ocupar
<1>5. CASE cabeza[t] \in mapa
  <2>1. pc' = [pc EXCEPT ![t] = "mira"] /\ mapa' = mapa
    BY <1>5 DEF Ocupar
  <2>2. Suyas(t)' = Suyas(t) /\ Cuerpo(t)'
    BY <2>1, SuyasIgual DEF Inv, InvMapa, TypeOK, Ocupar
  <2> QED BY <1>1, <1>2, <1>4, <2>1, <2>2, MapaIgual DEF Inv
<1>6. CASE cabeza[t] \notin mapa
  <2>1. pc' = [pc EXCEPT ![t] = "avance"] /\ mapa' = mapa \cup {cabeza[t]}
    BY <1>6 DEF Ocupar
  <2>2. pc'[t] = "avance" /\ UNCHANGED <<cabeza, cuerpo, creado, xcola>>
    BY <2>1 DEF Inv, TypeOK, Ocupar
  <2>3. Suyas(t)' = Ocupadas(t) \cup {cabeza[t]}
    BY <2>2 DEF Suyas, Ocupadas, Inv, TypeOK
  <2>4. Ocupadas(t) \subseteq Suyas(t) /\ Suyas(t) \subseteq mapa /\ Cuerpo(t)
    BY DEF Suyas, Inv, InvMapa
  <2>5. Suyas(t)' \subseteq mapa' /\ Cuerpo(t)'
    BY <1>6, <2>1, <2>2, <2>3, <2>4 DEF Cuerpo, Ocupadas
  <2>6. \A u \in Trenes \ {t} : Suyas(u) \subseteq mapa /\ Suyas(u) \cap Suyas(t) = {}
    BY DEF Inv, InvMapa
  <2>7. \A u \in Trenes \ {t} : Suyas(u)' \cap Suyas(t)' = {}
    BY <1>2, <1>6, <2>3, <2>4, <2>6
  <2>8. InvMapa'
    BY <1>2, <1>3, <2>5, <2>7 DEF Inv, InvMapa
  <2> QED BY <1>1, <1>4, <2>8 DEF Inv
<1> QED BY <1>5, <1>6

LEMMA AvanceInv ==
    ASSUME Inv, NEW t \in Trenes, Avance(t)
    PROVE  Inv'
<1> DEFINE s == cuerpo[t]
           a == Avanzado(s, cabeza[t])
<1>1. /\ s \in Seq(Casillas) /\ Len(s) <= Largo /\ SinRepetir(s) /\ Celdas(s) = Ocupadas(t)
      /\ cabeza[t] \in Casillas \ Ocupadas(t) /\ pc[t] = "avance"
  BY DEF Inv, TypeOK, InvMapa, Cuerpo, Celdas, Ocupadas, Avance
<1>2. /\ a \in Seq(Casillas) /\ Len(a) <= Largo /\ SinRepetir(a)
      /\ Celdas(a) \subseteq Celdas(s) \cup {cabeza[t]}
      /\ Len(s) = Largo => s[Largo] \in Celdas(s) \ Celdas(a)
  BY <1>1, AvanzadoBien
<1>3. /\ cuerpo' = [cuerpo EXCEPT ![t] = a]
      /\ xcola' = [xcola EXCEPT ![t] = IF Len(s) = Largo THEN s[Largo] ELSE SinCasilla]
      /\ pc' = [pc EXCEPT ![t] = "cola"]
  BY DEF Avance, Avanzado
<1>4. Len(s) = Largo => s[Largo] \in Casillas
  BY <1>1, LargoAssumption
<1>5. TypeOK'
  BY <1>2, <1>3, <1>4 DEF Inv, TypeOK, Avance, main, Pasos
<1>6. cuerpo'[t] = a /\ pc'[t] = "cola" /\ xcola'[t] = IF Len(s) = Largo THEN s[Largo] ELSE SinCasilla
  BY <1>3 DEF Inv, TypeOK
<1>7. Ocupadas(t)' = Celdas(a)
  BY <1>6 DEF Ocupadas, Celdas
<1>8. Suyas(t)' \subseteq Celdas(s) \cup {cabeza[t]}
  BY <1>2, <1>6, <1>7, SinCasillaAssumption DEF Suyas
<1>9. Celdas(s) \cup {cabeza[t]} \subseteq Suyas(t)
  BY <1>1 DEF Suyas
<1>10. Cuerpo(t)'
  <2>1. xcola'[t] \notin Celdas(a)
    <3>1. \A c \in Celdas(a) : c \in Casillas
      BY <1>2 DEF Celdas
    <3> QED BY <3>1, <1>2, <1>6, SinCasillaAssumption
  <2> QED BY <1>2, <1>6, <1>7, <2>1 DEF Cuerpo
<1>11. \A u \in Trenes \ {t} : Suyas(u)' = Suyas(u) /\ Cuerpo(u)'
  BY SuyasIgual DEF Inv, InvMapa, TypeOK, Avance
<1>12. InvMapa'
  <2>1. mapa' = mapa
    BY DEF Avance
  <2> QED BY <1>8, <1>9, <1>10, <1>11, <2>1 DEF Inv, InvMapa
<1>13. EntradaEscalonada'
  BY <1>1 DEF Inv, TypeOK, EntradaEscalonada, Avance
<1> QED BY <1>5, <1>12, <1>13 DEF Inv

LEMMA ColaInv ==
    ASSUME Inv, NEW t \in Trenes, Cola(t)
    PROVE  Inv'
<1>1. TypeOK'
  BY DEF Inv, TypeOK, Cola, main, Pasos
<1>2. pc[t] = "cola" /\ pc'[t] = "peticion" /\ UNCHANGED <<cuerpo, cabeza, xcola>>
  BY DEF Cola, Inv, TypeOK
<1>3. Suyas(t)' = Ocupadas(t) /\ Cuerpo(t)'
  BY <1>2 DEF Suyas, Ocupadas, Cuerpo, Inv, InvMapa
<1>4. \A u \in Trenes \ {t} : Suyas(u)' = Suyas(u) /\ Cuerpo(u)'
  BY SuyasIgual DEF Inv, InvMapa, TypeOK, Cola
<1>5. mapa' = mapa \/ (xcola[t] \in Casillas /\ creado[t] = 1 /\ mapa' = mapa \ {xcola[t]})
  BY DEF Cola, Inv, TypeOK
<1>6. xcola[t] \notin Ocupadas(t) /\ Ocupadas(t) \subseteq Suyas(t)
  BY <1>2 DEF Inv, InvMapa, Cuerpo, Suyas
<1>7. xcola[t] \in Casillas /\ creado[t] = 1 => xcola[t] \in Suyas(t)
  BY <1>2 DEF Suyas
<1>8. \A u \in Trenes : Suyas(u)' \subseteq mapa'
  BY <1>3, <1>4, <1>5, <1>6, <1>7 DEF Inv, InvMapa
<1>9. InvMapa'
  BY <1>3, <1>4, <1>6, <1>8 DEF Inv, InvMapa
<1>10. EntradaEscalonada'
  BY NadieAssumption DEF Inv, TypeOK, EntradaEscalonada, Cola
<1> QED BY <1>1, <1>9, <1>10 DEF Inv

\* main, the handler of CTRL+C and stuttering leave the threads where they are.
LEMMA MainInv ==
    ASSUME Inv, Principal \/ CtrlHandler \/ UNCHANGED vars
    PROVE  Inv'
<1>1. TypeOK'
  <2>1. CASE Principal
    BY <2>1 DEF Principal, Arrancar, Vigilar, Enviar, Esperar, Terminar, Inv, TypeOK, hilo
  <2>2. CASE CtrlHandler \/ UNCHANGED vars
    BY <2>2 DEF CtrlHandler, vars, Inv, TypeOK, hilo, main
  <2> QED BY <2>1, <2>2
<1>2. UNCHANGED <<hilo, cuerpo, mapa, scInicio>>
  BY DEF Principal, Arrancar, Vigilar, Enviar, Esperar, Terminar, CtrlHandler, vars
<1>3. \A u \in Trenes : Suyas(u)' = Suyas(u) /\ Cuerpo(u)'
  BY <1>2, SuyasIgual DEF hilo, Inv, InvMapa
<1>4. EntradaEscalonada'
  BY <1>2 DEF hilo, Inv, EntradaEscalonada
<1> QED BY <1>1, <1>2, <1>3, <1>4, MapaIgual DEF Inv

LEMMA PasoInv == Inv /\ [Next]_vars => Inv'
BY EntrarInv, EsperarInv, PetAvanceInv, MirarInv, OcuparInv, AvanceInv, ColaInv, MainInv
   DEF Next, Tren

LEMMA InicioInv == Init => Inv
<1> SUFFICES ASSUME Init
             PROVE  Inv
  OBVIOUS
<1>1. TypeOK
  BY EntradaAssumption, FallosAssumption DEF Init, TypeOK, Pasos
<1>2. \A t \in Trenes : Len(cuerpo[t]) = 0 /\ Ocupadas(t) = {} /\ pc[t] = "evento"
  BY DEF Init, Ocupadas
<1>3. InvMapa
  BY <1>2, LargoAssumption DEF InvMapa, Suyas, Cuerpo, SinRepetir
<1>4. EntradaEscalonada
  BY <1>2 DEF EntradaEscalonada
<1> QED BY <1>1, <1>3, <1>4 DEF Inv

-----------------------------------------------------------------------------
(* Theorems *)

\* In every state each cell of the map is the business of one train at most, whichever
\* thread runs and wherever the others stand (lomo2.cpp:283-400).
THEOREM Invariante == Spec => []Inv
BY InicioInv, PasoInv, PTL DEF Spec

\* Every state of the simulation has its type.
THEOREM TipoCorrecto == Spec => []TypeOK
<1>1. Inv => TypeOK
  BY DEF Inv
<1> QED BY <1>1, Invariante, PTL

\* The shared map covers the trains and the cells given to them (lomo2.cpp:324-397).
THEOREM MapaSiempreMarcado == Spec => []MapaMarcado
<1>1. ASSUME Inv, NEW t \in Trenes
      PROVE  /\ Ocupadas(t) \subseteq mapa
             /\ pc[t] = "avance" =>
                   /\ cabeza[t] \in mapa
                   /\ \A u \in Trenes : cabeza[t] \notin Ocupadas(u)
                   /\ \A u \in Trenes \ {t} : pc[u] = "avance" => cabeza[u] # cabeza[t]
  <2>1. Ocupadas(t) \subseteq Suyas(t) /\ Suyas(t) \subseteq mapa /\ Cuerpo(t)
    BY <1>1 DEF Suyas, Inv, InvMapa
  <2>2. \A u \in Trenes : Ocupadas(u) \subseteq Suyas(u) /\ (pc[u] = "avance" => cabeza[u] \in Suyas(u))
    BY <1>1 DEF Suyas, Inv, TypeOK
  <2>3. \A u \in Trenes \ {t} : Suyas(t) \cap Suyas(u) = {}
    BY <1>1 DEF Inv, InvMapa
  <2> QED BY <2>1, <2>2, <2>3 DEF Cuerpo
<1>2. Inv => MapaMarcado
  BY <1>1 DEF MapaMarcado
<1> QED BY <1>2, Invariante, PTL

\* No two trains ever cover one cell, nor a train the same cell twice, stopped trains
\* and failed entries included (README:3-5).
THEOREM NuncaColision == Spec => []SinColision
<1>1. ASSUME Inv, NEW t \in Trenes, NEW u \in Trenes, t # u
      PROVE  Ocupadas(t) \cap Ocupadas(u) = {}
  <2>1. Suyas(t) \cap Suyas(u) = {}
    BY <1>1 DEF Inv, InvMapa
  <2> QED BY <2>1 DEF Suyas
<1>2. ASSUME Inv, NEW t \in Trenes
      PROVE  Cardinality(Ocupadas(t)) = Len(cuerpo[t])
  <2>1. cuerpo[t] \in Seq(Casillas) /\ SinRepetir(cuerpo[t])
    BY <1>2 DEF Inv, TypeOK, InvMapa, Cuerpo
  <2> QED BY <2>1, TantasCeldas DEF Celdas, Ocupadas
<1>3. Inv => SinColision
  BY <1>1, <1>2 DEF SinColision
<1> QED BY <1>3, Invariante, PTL

\* Only the owner of scInicio is partly in the map (lomo2.cpp:291, 384-389).
THEOREM EntradaUnaAUna == Spec => []EntradaEscalonada
<1>1. Inv => EntradaEscalonada
  BY DEF Inv
<1> QED BY <1>1, Invariante, PTL
=============================================================================
