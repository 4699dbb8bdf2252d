----------------------------- MODULE DemonioPrueba -----------------------------
(***************************************************************************)
(* The daemon for every number of connections, orders, datagrams, signals  *)
(* and failures: types, and the semaphore of the log.                      *)
(***************************************************************************)
EXTENDS Demonio, FiniteSetTheorems, TLAPS

-----------------------------------------------------------------------------
(* Types *)

\* A process at the log has a line to write; select's answer is there to be read, and
\* stands until main has gone through it.
InvLog == \A p \in Procesos : fase[p] \in {"semwait", "seccion"} => porEscribir[p] >= 1
InvListos ==
    /\ "UDP" \in listos => datagramas > 0
    /\ listos # {} => fase[Padre] \in {"pase", "fin"}
InvTipo == TypeOK /\ InvLog /\ InvListos

LEMMA DeshechoTipo ==
    ASSUME NEW p \in Procesos, TypeOK
    PROVE  Deshecho(sem, p) \in Nat
<1>1. sem \in Nat /\ semadj[p] \in Int
  BY DEF TypeOK
<1>2. CASE ~semExiste
  BY <1>1, <1>2 DEF Deshecho
<1>3. CASE semExiste /\ sem + semadj[p] >= 0
  BY <1>1, <1>3 DEF Deshecho
<1>4. CASE semExiste /\ ~(sem + semadj[p] >= 0)
  BY <1>1, <1>4 DEF Deshecho
<1>5. semExiste \in BOOLEAN
  BY DEF TypeOK
<1> QED BY <1>2, <1>3, <1>4, <1>5

\* The end of a process keeps the types.
LEMMA AcabaTipo ==
    ASSUME NEW p \in Procesos, InvTipo, Acaba(p),
           UNCHANGED <<semExiste, porEscribir, muere, control, red, senales, colados>>,
           fallos' \in 0..MaxFallos
    PROVE  InvTipo'
<1>1. sem' \in Nat
  BY DeshechoTipo DEF InvTipo, Acaba
<1>2. semadj' \in [Procesos -> Int] /\ fase' \in [Procesos -> Fases]
  BY DEF InvTipo, TypeOK, Acaba, Fases
<1>3. TypeOK'
  BY <1>1, <1>2 DEF InvTipo, TypeOK, control, red
<1>4. InvLog'
  BY DEF InvTipo, TypeOK, InvLog, Acaba
<1>5. InvListos'
  BY DEF InvTipo, TypeOK, InvListos, Acaba, control, red, Procesos
<1> QED BY <1>3, <1>4, <1>5 DEF InvTipo

\* What a call interrupted by a signal, or a handler nobody notices, does to the types.
LEMMA SennalTipo ==
    ASSUME NEW p \in Procesos, InvTipo, Interrumpida(p) \/ Desapercibida,
           UNCHANGED <<semaforo, listos, red>>
    PROVE  /\ fase' \in [Procesos -> Fases] /\ porEscribir' \in [Procesos -> 0..3]
           /\ muere' \in [Hijos -> BOOLEAN] /\ colados' \in Nat
           /\ InvLog' /\ InvListos'
<1>1. Padre \in Procesos
  BY DEF Procesos
<1>2. CASE Desapercibida
  BY <1>2 DEF InvTipo, TypeOK, InvLog, InvListos, Desapercibida, red
<1>3. CASE p = Padre /\ fase[p] \in {"select", "espera"} /\ fase' = [fase EXCEPT ![p] = "prueba"]
           /\ UNCHANGED <<porEscribir, muere, colados>>
  BY <1>1, <1>3 DEF InvTipo, TypeOK, InvLog, InvListos, red, Fases
<1>4. CASE p \in Hijos /\ fase[p] = "espera" /\ fase' = [fase EXCEPT ![p] = "semwait"]
           /\ porEscribir' = [porEscribir EXCEPT ![p] = 1]
           /\ muere' = [muere EXCEPT ![p] = TRUE] /\ UNCHANGED colados
  BY <1>1, <1>4, HijosAssumption DEF InvTipo, TypeOK, InvLog, InvListos, red, Fases
<1>5. CASE Colarse(p) /\ UNCHANGED <<porEscribir, muere>>
  BY <1>1, <1>5 DEF InvTipo, TypeOK, InvLog, InvListos, red, Fases, Colarse
<1> QED BY <1>2, <1>3, <1>4, <1>5 DEF Interrumpida, UltimaLinea

LEMMA AtiendeTipo ==
    ASSUME NEW p \in Procesos, InvTipo, NEW n \in 0..3, Atiende(p, n)
    PROVE  /\ fase' \in [Procesos -> Fases] /\ porEscribir' \in [Procesos -> 0..3]
           /\ alarma' \in BOOLEAN /\ InvLog'
           /\ Padre # p => fase'[Padre] = fase[Padre]
<1>1. Padre \in Procesos
  BY DEF Procesos
<1> QED BY <1>1 DEF InvTipo, TypeOK, InvLog, Atiende, Fases

\* The steps of the log.
LEMMA RegistroTipo ==
    ASSUME NEW p \in Procesos, InvTipo, Registro(p)
    PROVE  InvTipo'
<1>0. Padre \in Procesos
  BY DEF Procesos
<1>1. CASE Entrar(p)
  <2>1. TypeOK'
    BY <1>1 DEF InvTipo, TypeOK, Entrar, Fases, control, red, cuentas
  <2> QED BY <1>0, <1>1, <2>1 DEF InvTipo, TypeOK, InvLog, InvListos, Entrar, control, red
<1>2. CASE EntrarSinSemaforo(p)
  <2>1. TypeOK'
    BY <1>2 DEF InvTipo, TypeOK, EntrarSinSemaforo, Fases, semaforo, control, red, cuentas
  <2> QED BY <1>0, <1>2, <2>1 DEF InvTipo, TypeOK, InvLog, InvListos, EntrarSinSemaforo, control, red
<1>3. CASE Salir(p)
  <2>1. porEscribir[p] - 1 \in 0..3
    BY <1>3 DEF Salir, InvTipo, TypeOK, InvLog
  <2>2. sem' \in Nat /\ semadj' \in [Procesos -> Int] /\ semExiste' \in BOOLEAN
    BY <1>3 DEF Salir, Devolver, InvTipo, TypeOK
  <2>3. Atiende(p, porEscribir[p] - 1)
    BY <1>3 DEF Salir
  <2>4. TypeOK' /\ InvLog'
    BY <1>3, <2>1, <2>2, <2>3, AtiendeTipo DEF Salir, InvTipo, TypeOK, red, cuentas
  <2>5. InvListos'
    BY <1>0, <1>3, <2>1, <2>3, AtiendeTipo DEF Salir, InvTipo, TypeOK, InvListos, red
  <2> QED BY <2>4, <2>5 DEF InvTipo
<1>4. CASE SalirPorError(p)
  <2>1. TypeOK'
    BY <1>4 DEF InvTipo, TypeOK, SalirPorError, Devolver, Fases, control, red, cuentas
  <2> QED BY <1>0, <1>4, <2>1 DEF InvTipo, TypeOK, InvLog, InvListos, SalirPorError, control, red
<1>5. CASE Morir(p)
  BY <1>5, AcabaTipo DEF Morir, InvTipo, TypeOK, cuentas
<1> QED BY <1>1, <1>2, <1>3, <1>4, <1>5 DEF Registro

\* The daemon's own steps.
LEMMA DemonioTipo ==
    ASSUME InvTipo,
           Prueba \/ Cerrar \/ Select \/ (\E h \in Hijos : Aceptar(h)) \/ EmpezarUDP
             \/ SeguirUDP \/ SIGALRM
    PROVE  InvTipo'
<1>0. Padre \in Procesos
  BY DEF Procesos
<1>1. CASE Prueba
  BY <1>0, <1>1 DEF InvTipo, TypeOK, InvLog, InvListos, Prueba, Fases, semaforo, control, red, cuentas
<1>2. CASE Cerrar
  BY <1>0, <1>2 DEF InvTipo, TypeOK, InvLog, InvListos, Cerrar, Fases, control, red, cuentas
<1>3. CASE Select
  BY <1>0, <1>3 DEF InvTipo, TypeOK, InvLog, InvListos, Select, Fases, semaforo, red, cuentas
<1>4. ASSUME NEW h \in Hijos, Aceptar(h) PROVE InvTipo'
  <2>1. h \in Procesos /\ h # Padre
    BY HijosAssumption DEF Procesos
  <2>2. fase' \in [Procesos -> Fases] /\ porEscribir' \in [Procesos -> 0..3] /\ InvLog'
    BY <1>0, <1>4, <2>1 DEF InvTipo, TypeOK, InvLog, Aceptar, Fases
  <2>3. TypeOK'
    BY <1>4, <2>2 DEF InvTipo, TypeOK, Aceptar, semaforo, cuentas
  <2>4. InvListos'
    BY <1>0, <1>4, <2>1 DEF InvTipo, TypeOK, InvListos, Aceptar
  <2> QED BY <2>2, <2>3, <2>4 DEF InvTipo
<1>5. CASE EmpezarUDP
  <2>1. Atiende(Padre, 1)
    BY <1>5 DEF EmpezarUDP
  <2>2. TypeOK' /\ InvLog'
    BY <1>0, <1>5, <2>1, AtiendeTipo, BoundsAssumption DEF InvTipo, TypeOK, InvListos, EmpezarUDP, semaforo, cuentas
  <2> QED BY <1>5, <2>2 DEF InvTipo, InvListos, EmpezarUDP
<1>6. CASE SeguirUDP
  <2>1. Atiende(Padre, 2)
    BY <1>6 DEF SeguirUDP
  <2>2. TypeOK' /\ InvLog'
    BY <1>0, <1>6, <2>1, AtiendeTipo, BoundsAssumption DEF InvTipo, TypeOK, SeguirUDP, semaforo, cuentas
  <2>3. listos = {} /\ listos' = {}
    BY <1>6 DEF InvTipo, InvListos, SeguirUDP
  <2> QED BY <2>2, <2>3 DEF InvTipo, InvListos
<1>7. CASE SIGALRM
  <2>1. Interrumpida(Padre) \/ Desapercibida
    BY <1>7 DEF SIGALRM
  <2>2. FIN' \in BOOLEAN
    BY <1>7 DEF SIGALRM, InvTipo, TypeOK
  <2>3. UNCHANGED <<semaforo, listos, red>>
    BY <1>7 DEF SIGALRM
  <2> QED BY <1>0, <1>7, <2>1, <2>2, <2>3, SennalTipo
          DEF SIGALRM, InvTipo, TypeOK, semaforo, red, cuentas
<1> QED BY <1>1, <1>2, <1>3, <1>4, <1>5, <1>6, <1>7

\* Clients, signals and failures.
LEMMA EntornoTipo ==
    ASSUME InvTipo,
           (\E h \in Hijos : Cliente(h)) \/ Enviar \/ (\E p \in Procesos : SIGTERM(p)) \/ Fallo
    PROVE  InvTipo'
<1>0. Padre \in Procesos /\ \A h \in Hijos : h \in Procesos /\ h # Padre
  BY HijosAssumption DEF Procesos
<1>1. ASSUME NEW h \in Hijos, Orden(h) PROVE InvTipo'
  <2>1. PICK r \in 0..2 : Atiende(h, 1 + r)
    BY <1>1 DEF Orden
  <2>2. TypeOK' /\ InvLog'
    BY <1>0, <1>1, <2>1, AtiendeTipo, BoundsAssumption DEF InvTipo, TypeOK, Orden, semaforo, cuentas
  <2>3. InvListos'
    BY <1>0, <1>1, <2>1, AtiendeTipo DEF InvTipo, InvListos, Orden
  <2> QED BY <2>2, <2>3 DEF InvTipo
<1>2. ASSUME NEW h \in Hijos, FinDeEntrada(h) PROVE InvTipo'
  BY <1>0, <1>2, AcabaTipo DEF FinDeEntrada, InvTipo, TypeOK, cuentas
<1>9. ASSUME NEW h \in Hijos, Reiniciada(h) PROVE InvTipo'
  BY <1>0, <1>9 DEF InvTipo, TypeOK, InvLog, InvListos, Reiniciada, UltimaLinea, Fases,
                    semaforo, control, red, cuentas
<1>3. ASSUME NEW h \in Hijos, Conectar(h) PROVE InvTipo'
  BY <1>3 DEF InvTipo, TypeOK, InvLog, InvListos, Conectar, semaforo, control, cuentas
<1>4. CASE Enviar
  BY <1>4, BoundsAssumption DEF InvTipo, TypeOK, InvLog, InvListos, Enviar, semaforo, control, cuentas
<1>5. ASSUME NEW p \in Procesos, SIGTERM(p) PROVE InvTipo'
  <2>1. (Interrumpida(p) \/ Desapercibida) /\ UNCHANGED <<semaforo, listos, red>>
    BY <1>5 DEF SIGTERM
  <2>2. senales' \in 0..MaxSenales /\ FIN' \in BOOLEAN
    BY <1>5, BoundsAssumption DEF SIGTERM, InvTipo, TypeOK
  <2> QED BY <1>5, <2>1, <2>2, SennalTipo DEF SIGTERM, InvTipo, TypeOK, semaforo, red
<1>6. CASE FallaDemonio
  <2>1. fallos' \in 0..MaxFallos
    BY <1>6, BoundsAssumption DEF FallaDemonio, InvTipo, TypeOK
  <2> QED BY <1>0, <1>6, <2>1, AcabaTipo DEF FallaDemonio
<1>7. ASSUME NEW p \in Procesos, FallaFopen(p) PROVE InvTipo'
  <2>1. TypeOK'
    BY <1>7, BoundsAssumption DEF InvTipo, TypeOK, FallaFopen, Devolver, Fases, control, red
  <2> QED BY <1>0, <1>7, <2>1 DEF InvTipo, TypeOK, InvLog, InvListos, FallaFopen, control, red
<1>8. ASSUME NEW p \in Procesos, Matar(p) PROVE InvTipo'
  <2>1. fallos' \in 0..MaxFallos
    BY <1>8, BoundsAssumption DEF Matar, InvTipo, TypeOK
  <2> QED BY <1>8, <2>1, AcabaTipo DEF Matar
<1> QED BY <1>1, <1>2, <1>3, <1>4, <1>5, <1>6, <1>7, <1>8, <1>9 DEF Cliente, Fallo

LEMMA PasoTipo == InvTipo /\ [Next]_vars => InvTipo'
<1> SUFFICES ASSUME InvTipo, [Next]_vars PROVE InvTipo'
  OBVIOUS
<1>0. Padre \in Procesos /\ \A h \in Hijos : h \in Procesos
  BY DEF Procesos
<1>1. CASE UNCHANGED vars
  BY <1>1 DEF vars, semaforo, control, red, cuentas, InvTipo, TypeOK, InvLog, InvListos
<1>2. CASE PasoDemonio
  BY <1>0, <1>2, RegistroTipo, DemonioTipo DEF PasoDemonio
<1>3. ASSUME NEW h \in Hijos, Registro(h) \/ Cliente(h) PROVE InvTipo'
  BY <1>0, <1>3, RegistroTipo, EntornoTipo
<1>4. CASE Enviar \/ (\E p \in Procesos : SIGTERM(p)) \/ Fallo
  BY <1>4, EntornoTipo
<1> QED BY <1>1, <1>2, <1>3, <1>4 DEF Next

LEMMA InicioTipo == Init => InvTipo
<1> SUFFICES ASSUME Init PROVE InvTipo
  OBVIOUS
<1>1. fase \in [Procesos -> Fases] /\ semadj \in [Procesos -> Int]
  BY DEF Init, Fases
<1>2. porEscribir \in [Procesos -> 0..3] /\ muere \in [Hijos -> BOOLEAN]
  BY DEF Init
<1>3. ordenes \in 0..MaxOrdenes /\ datagramas \in 0..MaxDatagramas
  BY BoundsAssumption DEF Init
<1>a. sem \in Nat /\ semExiste \in BOOLEAN /\ FIN \in BOOLEAN /\ alarma \in BOOLEAN /\ colados \in Nat
  BY DEF Init
<1>b. listos \subseteq {"TCP", "UDP"} /\ cola \subseteq Hijos
  BY DEF Init
<1>c. senales \in 0..MaxSenales /\ fallos \in 0..MaxFallos
  BY BoundsAssumption DEF Init
<1>4. TypeOK
  BY <1>1, <1>2, <1>3, <1>a, <1>b, <1>c DEF TypeOK
<1>5. InvLog /\ InvListos
  BY DEF Init, InvLog, InvListos
<1> QED BY <1>4, <1>5 DEF InvTipo

\* Every variable keeps its type: the datagrams counted are there, and a process that
\* leaves the log had a line to write (servidor.c:229-309, 461-471, 1841-1871).
THEOREM TipoCorrecto == Spec => []TypeOK
<1>1. InvTipo => TypeOK
  BY DEF InvTipo
<1> QED BY <1>1, InicioTipo, PasoTipo, PTL DEF Spec

-----------------------------------------------------------------------------
(* What the processes owe the semaphore *)

\* a[p] is semadj[p]: at most 1, what p took and gives back at its end; negative, what it
\* gave back after waits that a signal broke, and the kernel takes away again.
Pendientes(a) == {p \in Procesos : a[p] = 1}
Adelantos(a) == UNION {{p} \X (1..(-a[p])) : p \in Procesos}

\* The semaphore and what is pending exceed what was given in advance.
Saldo(n, a) ==
    /\ IsFiniteSet(Adelantos(a))
    /\ n + Cardinality(Pendientes(a)) >= 1 + Cardinality(Adelantos(a))

LEMMA EnAdelantos ==
    ASSUME NEW a \in [Procesos -> Int], NEW p \in Procesos, NEW i \in Int
    PROVE  <<p, i>> \in Adelantos(a) <=> i >= 1 /\ i <= -a[p]
<1>1. ASSUME NEW q \in Procesos, <<p, i>> \in {q} \X (1..(-a[q])) PROVE i >= 1 /\ i <= -a[p]
  <2>1. p = q /\ i \in 1..(-a[q])
    BY <1>1
  <2> QED BY <2>1
<1>2. ASSUME i >= 1, i <= -a[p] PROVE <<p, i>> \in {p} \X (1..(-a[p]))
  <2>1. i \in 1..(-a[p])
    BY <1>2
  <2> QED BY <2>1
<1> QED BY <1>1, <1>2 DEF Adelantos

LEMMA SonAdelantos ==
    ASSUME NEW a, NEW x \in Adelantos(a)
    PROVE  \E p \in Procesos, i \in Int : x = <<p, i>>
<1>1. PICK p \in Procesos : x \in {p} \X (1..(-a[p]))
  BY DEF Adelantos
<1>2. PICK i \in 1..(-a[p]) : x = <<p, i>>
  BY <1>1
<1> QED BY <1>2

LEMMA PendientesFinitos ==
    ASSUME NEW a
    PROVE  IsFiniteSet(Pendientes(a)) /\ Cardinality(Pendientes(a)) \in Nat
<1>1. IsFiniteSet(Procesos)
  BY HijosAssumption, FS_AddElement DEF Procesos
<1>2. Pendientes(a) \subseteq Procesos
  BY DEF Pendientes
<1>3. IsFiniteSet(Pendientes(a))
  BY <1>1, <1>2, FS_Subset
<1> QED BY <1>3, FS_CardinalityType

\* One more for p: what it gave in advance comes down by one, or there is one more pending.
LEMMA SaldoToma ==
    ASSUME NEW a \in [Procesos -> Int], NEW p \in Procesos, NEW n \in Nat, a[p] <= 0, Saldo(n, a)
    PROVE  Saldo(n - 1, [a EXCEPT ![p] = @ + 1])
<1> DEFINE b == [a EXCEPT ![p] = @ + 1]
<1>0. b \in [Procesos -> Int] /\ b[p] = a[p] + 1 /\ \A q \in Procesos \ {p} : b[q] = a[q]
  OBVIOUS
<1> HIDE DEF b
<1>f. IsFiniteSet(Adelantos(a)) /\ Cardinality(Adelantos(a)) \in Nat
  BY FS_CardinalityType DEF Saldo
<1>p. Cardinality(Pendientes(a)) \in Nat /\ IsFiniteSet(Pendientes(a))
  BY PendientesFinitos
<1>1. CASE a[p] = 0
  <2>1. Pendientes(b) = Pendientes(a) \cup {p} /\ p \notin Pendientes(a)
    BY <1>0, <1>1 DEF Pendientes
  <2>2. Adelantos(b) = Adelantos(a)
    <3>1. ASSUME NEW q \in Procesos, NEW i \in Int
          PROVE  <<q, i>> \in Adelantos(b) <=> <<q, i>> \in Adelantos(a)
      <4>1. CASE q = p
        BY <1>0, <1>1, <4>1, EnAdelantos
      <4>2. CASE q # p
        BY <1>0, <4>2, EnAdelantos
      <4> QED BY <4>1, <4>2
    <3> QED BY <3>1, SonAdelantos
  <2>3. Cardinality(Pendientes(b)) = Cardinality(Pendientes(a)) + 1
    BY <1>p, <2>1, FS_AddElement
  <2>4. n - 1 + Cardinality(Pendientes(b)) >= 1 + Cardinality(Adelantos(b))
    BY <1>f, <1>p, <2>2, <2>3 DEF Saldo
  <2> QED BY <1>f, <2>2, <2>4 DEF Saldo, b
<1>2. CASE a[p] < 0
  <2>1. Pendientes(b) = Pendientes(a)
    BY <1>0, <1>2 DEF Pendientes
  <2>2. Adelantos(b) = Adelantos(a) \ {<<p, -a[p]>>}
    <3>1. ASSUME NEW q \in Procesos, NEW i \in Int
          PROVE  <<q, i>> \in Adelantos(b) <=> <<q, i>> \in Adelantos(a) /\ <<q, i>> # <<p, -a[p]>>
      <4>1. CASE q = p
        BY <1>0, <1>2, <4>1, EnAdelantos
      <4>2. CASE q # p
        BY <1>0, <4>2, EnAdelantos
      <4> QED BY <4>1, <4>2
    <3> QED BY <3>1, SonAdelantos
  <2>3. <<p, -a[p]>> \in Adelantos(a)
    BY <1>2, EnAdelantos
  <2>4. IsFiniteSet(Adelantos(b)) /\ Cardinality(Adelantos(b)) = Cardinality(Adelantos(a)) - 1
    <3> DEFINE x == <<p, -a[p]>>
    <3>1. Adelantos(b) = Adelantos(a) \ {x} /\ x \in Adelantos(a)
      BY <2>2, <2>3
    <3> HIDE DEF x
    <3> QED BY <1>f, <3>1, FS_RemoveElement
  <2>5. n - 1 + Cardinality(Pendientes(b)) >= 1 + Cardinality(Adelantos(b))
    BY <1>f, <1>p, <2>1, <2>4 DEF Saldo
  <2> QED BY <2>4, <2>5 DEF Saldo, b
<1> QED BY <1>1, <1>2

\* One less for p: what was pending is settled, or p gives one more in advance.
LEMMA SaldoDevuelve ==
    ASSUME NEW a \in [Procesos -> Int], NEW p \in Procesos, NEW n \in Nat, a[p] <= 1, Saldo(n, a)
    PROVE  Saldo(n + 1, [a EXCEPT ![p] = @ - 1])
<1> DEFINE b == [a EXCEPT ![p] = @ - 1]
<1>0. b \in [Procesos -> Int] /\ b[p] = a[p] - 1 /\ \A q \in Procesos \ {p} : b[q] = a[q]
  OBVIOUS
<1> HIDE DEF b
<1>f. IsFiniteSet(Adelantos(a)) /\ Cardinality(Adelantos(a)) \in Nat
  BY FS_CardinalityType DEF Saldo
<1>p. Cardinality(Pendientes(a)) \in Nat /\ IsFiniteSet(Pendientes(a))
  BY PendientesFinitos
<1>1. CASE a[p] = 1
  <2>1. Pendientes(b) = Pendientes(a) \ {p} /\ p \in Pendientes(a)
    BY <1>0, <1>1 DEF Pendientes
  <2>2. Adelantos(b) = Adelantos(a)
    <3>1. ASSUME NEW q \in Procesos, NEW i \in Int
          PROVE  <<q, i>> \in Adelantos(b) <=> <<q, i>> \in Adelantos(a)
      <4>1. CASE q = p
        BY <1>0, <1>1, <4>1, EnAdelantos
      <4>2. CASE q # p
        BY <1>0, <4>2, EnAdelantos
      <4> QED BY <4>1, <4>2
    <3> QED BY <3>1, SonAdelantos
  <2>3. Cardinality(Pendientes(b)) = Cardinality(Pendientes(a)) - 1
    BY <1>p, <2>1, FS_RemoveElement
  <2>4. n + 1 + Cardinality(Pendientes(b)) >= 1 + Cardinality(Adelantos(b))
    BY <1>f, <1>p, <2>2, <2>3 DEF Saldo
  <2> QED BY <1>f, <2>2, <2>4 DEF Saldo, b
<1>2. CASE a[p] <= 0
  <2>1. Pendientes(b) = Pendientes(a)
    BY <1>0, <1>2 DEF Pendientes
  <2>2. Adelantos(b) = Adelantos(a) \cup {<<p, 1 - a[p]>>}
    <3>1. ASSUME NEW q \in Procesos, NEW i \in Int
          PROVE  <<q, i>> \in Adelantos(b) <=> <<q, i>> \in Adelantos(a) \/ <<q, i>> = <<p, 1 - a[p]>>
      <4>1. CASE q = p
        BY <1>0, <1>2, <4>1, EnAdelantos
      <4>2. CASE q # p
        BY <1>0, <4>2, EnAdelantos
      <4> QED BY <4>1, <4>2
    <3> QED BY <3>1, SonAdelantos
  <2>3. <<p, 1 - a[p]>> \notin Adelantos(a)
    BY <1>2, EnAdelantos
  <2>4. IsFiniteSet(Adelantos(b)) /\ Cardinality(Adelantos(b)) = Cardinality(Adelantos(a)) + 1
    <3> DEFINE x == <<p, 1 - a[p]>>
    <3>1. Adelantos(b) = Adelantos(a) \cup {x} /\ x \notin Adelantos(a)
      BY <2>2, <2>3
    <3> HIDE DEF x
    <3> QED BY <1>f, <3>1, FS_AddElement
  <2>5. n + 1 + Cardinality(Pendientes(b)) >= 1 + Cardinality(Adelantos(b))
    BY <1>f, <1>p, <2>1, <2>4 DEF Saldo
  <2> QED BY <2>4, <2>5 DEF Saldo, b
<1> QED BY <1>1, <1>2

\* The kernel settles with p at its end: what p gave in advance goes, as far as there is
\* something to take.
LEMMA SaldoAcaba ==
    ASSUME NEW a \in [Procesos -> Int], NEW p \in Procesos, NEW n \in Nat, NEW m \in Nat,
           a[p] <= 1, m >= n + a[p], Saldo(n, a)
    PROVE  Saldo(m, [a EXCEPT ![p] = 0])
<1> DEFINE b == [a EXCEPT ![p] = 0]
<1>0. b \in [Procesos -> Int] /\ b[p] = 0 /\ \A q \in Procesos \ {p} : b[q] = a[q]
  OBVIOUS
<1> HIDE DEF b
<1>f. IsFiniteSet(Adelantos(a)) /\ Cardinality(Adelantos(a)) \in Nat
  BY FS_CardinalityType DEF Saldo
<1>p. Cardinality(Pendientes(a)) \in Nat /\ IsFiniteSet(Pendientes(a))
  BY PendientesFinitos
<1> DEFINE suyos == {p} \X (1..(-a[p]))
<1>1. ASSUME NEW q \in Procesos, NEW i \in Int
      PROVE  <<q, i>> \in Adelantos(b) <=> <<q, i>> \in Adelantos(a) /\ <<q, i>> \notin suyos
  <2>1. CASE q = p
    <3>1. <<q, i>> \in suyos <=> i >= 1 /\ i <= -a[p]
      BY <2>1
    <3> QED BY <1>0, <2>1, <3>1, EnAdelantos
  <2>2. CASE q # p
    <3>1. <<q, i>> \notin suyos
      BY <2>2
    <3> QED BY <1>0, <2>2, <3>1, EnAdelantos
  <2> QED BY <2>1, <2>2
<1>s. suyos \subseteq Adelantos(a)
  BY DEF Adelantos
<1>c. IsFiniteSet(suyos) /\ Cardinality(suyos) = IF a[p] < 0 THEN -a[p] ELSE 0
  <2>1. IsFiniteSet(1..(-a[p])) /\ Cardinality(1..(-a[p])) = IF a[p] < 0 THEN -a[p] ELSE 0
    <3> DEFINE k == -a[p]
    <3>1. k \in Int
      OBVIOUS
    <3> HIDE DEF k
    <3>2. IsFiniteSet(1..k)
      BY <3>1, FS_Interval
    <3>3. Cardinality(1..k) = IF 1 > k THEN 0 ELSE k - 1 + 1
      BY <3>1, FS_Interval
    <3>4. Cardinality(1..k) = IF k >= 1 THEN k ELSE 0
      BY <3>1, <3>3
    <3> QED BY <3>2, <3>4 DEF k
  <2>2. IsFiniteSet({p}) /\ Cardinality({p}) = 1
    BY FS_Singleton
  <2>3. IsFiniteSet(suyos) /\ Cardinality(suyos) = Cardinality({p}) * Cardinality(1..(-a[p]))
    BY <2>1, <2>2, FS_Product
  <2> QED BY <2>1, <2>2, <2>3
<1> HIDE DEF suyos
<1>2. Adelantos(b) = Adelantos(a) \ suyos
  BY <1>1, SonAdelantos
<1>3. Adelantos(a) \cap suyos = suyos
  BY <1>s
<1>4. /\ IsFiniteSet(Adelantos(b))
      /\ Cardinality(Adelantos(b)) = Cardinality(Adelantos(a)) - Cardinality(suyos)
  BY <1>f, <1>2, <1>3, FS_Difference
<1>5. CASE a[p] = 1
  <2>1. Pendientes(b) = Pendientes(a) \ {p} /\ p \in Pendientes(a)
    BY <1>0, <1>5 DEF Pendientes
  <2>2. Cardinality(Pendientes(b)) = Cardinality(Pendientes(a)) - 1
    BY <1>p, <2>1, FS_RemoveElement
  <2>3. m + Cardinality(Pendientes(b)) >= 1 + Cardinality(Adelantos(b))
    BY <1>c, <1>f, <1>p, <1>4, <1>5, <2>2 DEF Saldo
  <2> QED BY <1>4, <2>3 DEF Saldo, b
<1>6. CASE a[p] <= 0
  <2>1. Pendientes(b) = Pendientes(a)
    BY <1>0, <1>6 DEF Pendientes
  <2>2. m + Cardinality(Pendientes(b)) >= 1 + Cardinality(Adelantos(b))
    BY <1>c, <1>f, <1>p, <1>4, <1>6, <2>1 DEF Saldo
  <2> QED BY <1>4, <2>2 DEF Saldo, b
<1> QED BY <1>5, <1>6

-----------------------------------------------------------------------------
(* The semaphore of the log *)

\* While the semaphore exists.  A process outside the section has nothing pending; every
\* writer but one, and every unit of the semaphore above 1, comes of a broken wait; and
\* there is at least one unit, in the semaphore or pending, beyond what was given in advance.
InvSem ==
    semExiste =>
        /\ \A p \in Procesos : semadj[p] <= 1 /\ (fase[p] # "seccion" => semadj[p] <= 0)
        /\ Cardinality(EnSeccion) + sem <= 1 + colados
        /\ Saldo(sem, semadj)

\* A connection that waits for accept has no child yet.
InvCola == \A h \in cola : fase[h] = "ausente"

\* A process that runs moves on, and nobody joins the queue.
LEMMA PasoDeVivo ==
    ASSUME NEW p \in Procesos, InvTipo, InvCola, fase[p] # "ausente", cola' \subseteq cola,
           \A q \in Procesos \ {p} : fase'[q] = fase[q]
    PROVE  InvCola'
BY DEF InvTipo, TypeOK, InvCola, Procesos

LEMMA PasoCola == InvTipo /\ InvCola /\ [Next]_vars => InvCola'
<1> SUFFICES ASSUME InvTipo, InvCola, [Next]_vars PROVE InvCola'
  OBVIOUS
<1>0. Padre \in Procesos /\ \A h \in Hijos : h \in Procesos /\ h # Padre
  BY HijosAssumption DEF Procesos
<1>f. fase \in [Procesos -> Fases] /\ cola \subseteq Hijos
  BY DEF InvTipo, TypeOK
<1>1. CASE UNCHANGED vars
  BY <1>1 DEF vars, red, InvCola
<1>2. ASSUME NEW p \in Procesos, Registro(p) PROVE InvCola'
  <2>1. fase[p] # "ausente" /\ cola' = cola
    BY <1>2 DEF Registro, Entrar, EntrarSinSemaforo, Salir, SalirPorError, Morir, red
  <2>2. \A q \in Procesos \ {p} : fase'[q] = fase[q]
    BY <1>2, <1>f DEF Registro, Entrar, EntrarSinSemaforo, Salir, SalirPorError, Morir, Atiende, Acaba
  <2> QED BY <2>1, <2>2, PasoDeVivo
<1>3. CASE Prueba \/ Cerrar \/ Select \/ EmpezarUDP \/ SeguirUDP
  <2>1. fase[Padre] # "ausente" /\ cola' = cola
    BY <1>3 DEF Prueba, Cerrar, Select, EmpezarUDP, SeguirUDP, red
  <2>2. \A q \in Procesos \ {Padre} : fase'[q] = fase[q]
    BY <1>3, <1>f DEF Prueba, Cerrar, Select, EmpezarUDP, SeguirUDP, Atiende
  <2> QED BY <1>0, <2>1, <2>2, PasoDeVivo
<1>4. ASSUME NEW h \in Hijos, Aceptar(h) PROVE InvCola'
  BY <1>0, <1>f, <1>4 DEF Aceptar, InvCola
<1>5. ASSUME NEW p \in Procesos, Interrumpida(p) \/ Desapercibida, cola' = cola PROVE InvCola'
  <2>1. CASE Desapercibida
    BY <1>5, <2>1 DEF Desapercibida, InvCola
  <2>2. CASE Interrumpida(p)
    <3>1. fase[p] # "ausente"
      BY <2>2 DEF Interrumpida, UltimaLinea, Colarse
    <3>2. \A q \in Procesos \ {p} : fase'[q] = fase[q]
      BY <1>f, <2>2 DEF Interrumpida, UltimaLinea, Colarse
    <3> QED BY <1>5, <3>1, <3>2, PasoDeVivo
  <2> QED BY <1>5, <2>1, <2>2
<1>6. CASE SIGALRM
  BY <1>0, <1>5, <1>6 DEF SIGALRM, red
<1>7. ASSUME NEW p \in Procesos, SIGTERM(p) PROVE InvCola'
  BY <1>5, <1>7 DEF SIGTERM, red
<1>8. ASSUME NEW h \in Hijos, Orden(h) \/ Reiniciada(h) \/ FinDeEntrada(h) PROVE InvCola'
  <2>1. fase[h] # "ausente" /\ cola' = cola
    BY <1>8 DEF Orden, Reiniciada, UltimaLinea, FinDeEntrada, red
  <2>2. \A q \in Procesos \ {h} : fase'[q] = fase[q]
    BY <1>8, <1>f DEF Orden, Reiniciada, UltimaLinea, FinDeEntrada, Atiende, Acaba
  <2> QED BY <1>0, <2>1, <2>2, PasoDeVivo
<1>9. ASSUME NEW h \in Hijos, Conectar(h) PROVE InvCola'
  BY <1>9 DEF Conectar, InvCola
<1>10. CASE Enviar
  BY <1>10 DEF Enviar, InvCola
<1>11. CASE FallaDemonio
  <2>1. fase[Padre] # "ausente" /\ cola' = cola /\ \A q \in Procesos \ {Padre} : fase'[q] = fase[q]
    BY <1>f, <1>11 DEF FallaDemonio, Acaba, red
  <2> QED BY <1>0, <2>1, PasoDeVivo
<1>12. ASSUME NEW p \in Procesos, FallaFopen(p) \/ Matar(p) PROVE InvCola'
  <2>1. fase[p] # "ausente" /\ cola' = cola /\ \A q \in Procesos \ {p} : fase'[q] = fase[q]
    BY <1>f, <1>12 DEF FallaFopen, Matar, Vivo, Acaba, red
  <2> QED BY <2>1, PasoDeVivo
<1> QED
  BY <1>0, <1>1, <1>2, <1>3, <1>4, <1>6, <1>7, <1>8, <1>9, <1>10, <1>11, <1>12
     DEF Next, PasoDemonio, Cliente, Fallo

LEMMA SeccionFinita == IsFiniteSet(EnSeccion) /\ Cardinality(EnSeccion) \in Nat
<1>1. IsFiniteSet(Procesos)
  BY HijosAssumption, FS_AddElement DEF Procesos
<1>2. EnSeccion \subseteq Procesos
  BY DEF EnSeccion
<1>3. IsFiniteSet(EnSeccion)
  BY <1>1, <1>2, FS_Subset
<1> QED BY <1>3, FS_CardinalityType

\* A step away from the log.
LEMMA FueraDelLog ==
    ASSUME InvSem, UNCHANGED <<sem, semadj, colados>>, semExiste' => semExiste,
           \A p \in Procesos : fase'[p] = "seccion" <=> fase[p] = "seccion"
    PROVE  InvSem'
<1>1. EnSeccion' = EnSeccion
  BY DEF EnSeccion
<1>2. \A p \in Procesos : fase'[p] # "seccion" <=> fase[p] # "seccion"
  OBVIOUS
<1> QED BY <1>1, <1>2 DEF InvSem, Saldo, Pendientes, Adelantos

\* The end of a process, wherever it is.
LEMMA AcabaSem ==
    ASSUME NEW p \in Procesos, InvTipo, InvSem, Acaba(p), UNCHANGED <<semExiste, colados>>
    PROVE  InvSem'
<1> SUFFICES ASSUME semExiste PROVE InvSem'
  BY DEF InvSem
<1>1. /\ fase' = [fase EXCEPT ![p] = "fin"] /\ fase \in [Procesos -> Fases]
      /\ semadj' = [semadj EXCEPT ![p] = 0] /\ semadj \in [Procesos -> Int]
      /\ sem \in Nat /\ colados \in Nat
  BY DEF Acaba, InvTipo, TypeOK
<1>2. sem' \in Nat /\ sem' >= sem + semadj[p] /\ (sem' = 0 \/ sem' = sem + semadj[p])
  <2>1. CASE sem + semadj[p] >= 0
    BY <1>1, <2>1 DEF Acaba, Deshecho
  <2>2. CASE ~(sem + semadj[p] >= 0)
    BY <1>1, <2>2 DEF Acaba, Deshecho
  <2> QED BY <2>1, <2>2
<1>3. Saldo(sem', semadj')
  BY <1>1, <1>2, SaldoAcaba DEF InvSem
<1>4. \A q \in Procesos : semadj'[q] <= 1 /\ (fase'[q] # "seccion" => semadj'[q] <= 0)
  BY <1>1 DEF InvSem
<1>5. EnSeccion' = EnSeccion \ {p}
  BY <1>1 DEF EnSeccion
<1>6. Cardinality(EnSeccion') + sem' <= 1 + colados
  <2>1. CASE fase[p] = "seccion"
    <3>0. p \in EnSeccion
      BY <2>1 DEF EnSeccion
    <3>1. Cardinality(EnSeccion') = Cardinality(EnSeccion) - 1
      BY <1>5, <3>0, SeccionFinita, FS_RemoveElement
    <3>2. semadj[p] \in Int /\ semadj[p] <= 1
      BY <1>1 DEF InvSem
    <3> QED BY <1>1, <1>2, <3>1, <3>2, SeccionFinita DEF InvSem
  <2>2. CASE fase[p] # "seccion"
    <3>1. EnSeccion' = EnSeccion
      BY <1>5, <2>2 DEF EnSeccion
    <3>2. semadj[p] \in Int /\ semadj[p] <= 0
      BY <1>1, <2>2 DEF InvSem
    <3> QED BY <1>1, <1>2, <3>1, <3>2, SeccionFinita DEF InvSem
  <2> QED BY <2>1, <2>2
<1> QED BY <1>3, <1>4, <1>6 DEF InvSem, Saldo, Pendientes, Adelantos

\* semsignal on the way out of the section.
LEMMA DevolverSem ==
    ASSUME NEW p \in Procesos, InvTipo, InvSem, fase[p] = "seccion", Devolver(p),
           fase'[p] # "seccion", \A q \in Procesos \ {p} : fase'[q] = fase[q],
           UNCHANGED <<semExiste, colados>>
    PROVE  InvSem'
<1> SUFFICES ASSUME semExiste PROVE InvSem'
  BY DEF InvSem
<1>1. /\ sem' = sem + 1 /\ sem \in Nat /\ colados \in Nat
      /\ semadj' = [semadj EXCEPT ![p] = @ - 1] /\ semadj \in [Procesos -> Int]
  BY DEF Devolver, InvTipo, TypeOK
<1>2. Saldo(sem', semadj')
  BY <1>1, SaldoDevuelve DEF InvSem
<1>3. \A q \in Procesos : semadj'[q] <= 1 /\ (fase'[q] # "seccion" => semadj'[q] <= 0)
  <2>1. semadj'[p] <= 0
    BY <1>1 DEF InvSem
  <2> QED BY <1>1, <2>1 DEF InvSem
<1>4. EnSeccion' = EnSeccion \ {p} /\ p \in EnSeccion
  BY DEF EnSeccion
<1>5. Cardinality(EnSeccion') = Cardinality(EnSeccion) - 1
  BY <1>4, SeccionFinita, FS_RemoveElement
<1>6. Cardinality(EnSeccion') + sem' <= 1 + colados
  BY <1>1, <1>5, SeccionFinita DEF InvSem
<1> QED BY <1>2, <1>3, <1>6 DEF InvSem, Saldo, Pendientes, Adelantos

LEMMA AtiendeFase ==
    ASSUME NEW p \in Procesos, InvTipo, NEW n, Atiende(p, n)
    PROVE  fase'[p] \in {"espera", "semwait"} /\ \A q \in Procesos \ {p} : fase'[q] = fase[q]
BY DEF Atiende, InvTipo, TypeOK

LEMMA RegistroSem ==
    ASSUME NEW p \in Procesos, InvTipo, InvSem, Registro(p)
    PROVE  InvSem'
<1>1. CASE Entrar(p)
  <2> SUFFICES ASSUME semExiste PROVE InvSem'
    BY <1>1 DEF Entrar
  <2>1. /\ sem' = sem - 1 /\ sem \in Nat /\ sem > 0 /\ colados \in Nat /\ colados' = colados
        /\ semadj' = [semadj EXCEPT ![p] = @ + 1] /\ semadj \in [Procesos -> Int]
        /\ fase' = [fase EXCEPT ![p] = "seccion"] /\ fase \in [Procesos -> Fases]
        /\ fase[p] = "semwait"
    BY <1>1 DEF Entrar, InvTipo, TypeOK
  <2>2. semadj[p] <= 0
    BY <2>1 DEF InvSem
  <2>3. Saldo(sem', semadj')
    BY <2>1, <2>2, SaldoToma DEF InvSem
  <2>4. \A q \in Procesos : semadj'[q] <= 1 /\ (fase'[q] # "seccion" => semadj'[q] <= 0)
    <3>1. semadj'[p] <= 1 /\ fase'[p] = "seccion"
      BY <2>1, <2>2
    <3> QED BY <2>1, <3>1 DEF InvSem
  <2>5. EnSeccion' = EnSeccion \cup {p} /\ p \notin EnSeccion
    BY <2>1 DEF EnSeccion
  <2>6. Cardinality(EnSeccion') = Cardinality(EnSeccion) + 1
    BY <2>5, SeccionFinita, FS_AddElement
  <2>7. Cardinality(EnSeccion') + sem' <= 1 + colados'
    BY <2>1, <2>6, SeccionFinita DEF InvSem
  <2> QED BY <2>3, <2>4, <2>7 DEF InvSem, Saldo, Pendientes, Adelantos
<1>2. CASE EntrarSinSemaforo(p)
  BY <1>2 DEF EntrarSinSemaforo, semaforo, InvSem
<1>3. CASE Salir(p)
  <2>1. fase'[p] # "seccion" /\ \A q \in Procesos \ {p} : fase'[q] = fase[q]
    BY <1>3, AtiendeFase DEF Salir
  <2> QED BY <1>3, <2>1, DevolverSem DEF Salir
<1>4. CASE SalirPorError(p)
  BY <1>4, DevolverSem DEF SalirPorError, InvTipo, TypeOK
<1>5. CASE Morir(p)
  BY <1>5, AcabaSem DEF Morir
<1> QED BY <1>1, <1>2, <1>3, <1>4, <1>5 DEF Registro

\* A signal that breaks a wait lets one more writer in.
LEMMA SennalSem ==
    ASSUME NEW p \in Procesos, InvTipo, InvSem, Interrumpida(p) \/ Desapercibida, UNCHANGED semaforo
    PROVE  InvSem'
<1>1. CASE Colarse(p)
  <2>1. /\ semExiste /\ sem = 0 /\ colados \in Nat /\ colados' = colados + 1
        /\ fase' = [fase EXCEPT ![p] = "seccion"] /\ fase \in [Procesos -> Fases]
        /\ fase[p] = "semwait" /\ sem' = sem /\ semadj' = semadj
    BY <1>1 DEF Colarse, InvTipo, TypeOK, semaforo
  <2>2. EnSeccion' = EnSeccion \cup {p} /\ p \notin EnSeccion
    BY <2>1 DEF EnSeccion
  <2>3. Cardinality(EnSeccion') = Cardinality(EnSeccion) + 1
    BY <2>2, SeccionFinita, FS_AddElement
  <2>4. Cardinality(EnSeccion') + sem' <= 1 + colados'
    BY <2>1, <2>3, SeccionFinita DEF InvSem
  <2>5. \A q \in Procesos : semadj'[q] <= 1 /\ (fase'[q] # "seccion" => semadj'[q] <= 0)
    BY <2>1 DEF InvSem
  <2> QED BY <2>1, <2>4, <2>5 DEF InvSem, Saldo, Pendientes, Adelantos
<1>2. CASE ~Colarse(p)
  BY <1>2, FueraDelLog DEF Interrumpida, UltimaLinea, Desapercibida, semaforo, InvTipo, TypeOK
<1> QED BY <1>1, <1>2

LEMMA PasoSem == InvTipo /\ InvCola /\ InvSem /\ [Next]_vars => InvSem'
<1> SUFFICES ASSUME InvTipo, InvCola, InvSem, [Next]_vars PROVE InvSem'
  OBVIOUS
<1>0. Padre \in Procesos /\ \A h \in Hijos : h \in Procesos /\ h # Padre
  BY HijosAssumption DEF Procesos
<1>f. fase \in [Procesos -> Fases]
  BY DEF InvTipo, TypeOK
<1>1. CASE UNCHANGED vars
  BY <1>1, FueraDelLog DEF vars, semaforo
<1>2. CASE Prueba \/ Cerrar \/ Select
  BY <1>0, <1>f, <1>2, FueraDelLog DEF Prueba, Cerrar, Select, semaforo
<1>3. ASSUME NEW h \in Hijos, Aceptar(h) PROVE InvSem'
  <2>1. \A p \in Procesos : fase'[p] = "seccion" => fase[p] = "seccion"
    BY <1>0, <1>f, <1>3 DEF Aceptar
  <2>2. fase[h] # "seccion"
    BY <1>3 DEF Aceptar, InvCola
  <2> QED BY <1>0, <1>f, <1>3, <2>1, <2>2, FueraDelLog DEF Aceptar, semaforo
<1>4. ASSUME NEW p \in Procesos, NEW n \in 0..3, fase[p] # "seccion", Atiende(p, n),
             UNCHANGED <<semaforo, colados>>
      PROVE  InvSem'
  BY <1>4, AtiendeFase, FueraDelLog DEF semaforo
<1>5. CASE EmpezarUDP \/ SeguirUDP
  <2>1. fase[Padre] # "seccion" /\ \E n \in 0..3 : Atiende(Padre, n)
    BY <1>5 DEF EmpezarUDP, SeguirUDP
  <2> QED BY <1>0, <1>4, <1>5, <2>1 DEF EmpezarUDP, SeguirUDP
<1>6. CASE SIGALRM
  BY <1>0, <1>6, SennalSem DEF SIGALRM
<1>7. ASSUME NEW h \in Hijos, Cliente(h) PROVE InvSem'
  <2>1. CASE Orden(h)
    <3>1. fase[h] # "seccion" /\ \E n \in 0..3 : Atiende(h, n)
      BY <2>1 DEF Orden
    <3> QED BY <1>0, <1>4, <2>1, <3>1 DEF Orden
  <2>2. CASE FinDeEntrada(h)
    BY <1>0, <2>2, AcabaSem DEF FinDeEntrada
  <2>3. CASE Conectar(h)
    BY <2>3, FueraDelLog DEF Conectar, semaforo
  <2>4. CASE Reiniciada(h)
    BY <1>f, <2>4, FueraDelLog DEF Reiniciada, UltimaLinea, semaforo
  <2> QED BY <1>7, <2>1, <2>2, <2>3, <2>4 DEF Cliente
<1>8. CASE Enviar
  BY <1>8, FueraDelLog DEF Enviar, semaforo
<1>9. ASSUME NEW p \in Procesos, SIGTERM(p) PROVE InvSem'
  BY <1>9, SennalSem DEF SIGTERM
<1>10. CASE FallaDemonio
  BY <1>0, <1>10, AcabaSem DEF FallaDemonio
<1>11. ASSUME NEW p \in Procesos, FallaFopen(p) PROVE InvSem'
  BY <1>f, <1>11, DevolverSem DEF FallaFopen
<1>12. ASSUME NEW p \in Procesos, Matar(p) PROVE InvSem'
  BY <1>12, AcabaSem DEF Matar
<1> QED
  BY <1>0, <1>1, <1>2, <1>3, <1>5, <1>6, <1>7, <1>8, <1>9, <1>10, <1>11, <1>12, RegistroSem
     DEF Next, PasoDemonio, Fallo

\* Whatever process dies or is interrupted, and wherever, the log has one writer at a time,
\* plus one for each wait a signal has broken, and is never left taken by nobody
\* (servidor.c:1986-2007, SEM_UNDO).
THEOREM LogExclusivo == Spec => []SemaforoCuadra
<1>1. Init => InvCola /\ InvSem
  <2> SUFFICES ASSUME Init PROVE InvSem
    BY DEF Init, InvCola
  <2>1. /\ sem = 1 /\ colados = 0 /\ semadj = [p \in Procesos |-> 0]
        /\ \A p \in Procesos : fase[p] # "seccion"
    BY DEF Init
  <2>2. EnSeccion = {} /\ Pendientes(semadj) = {}
    BY <2>1 DEF EnSeccion, Pendientes
  <2>3. Adelantos(semadj) = {}
    <3>1. \A p \in Procesos : 1..(-semadj[p]) = {}
      BY <2>1
    <3> QED BY <3>1 DEF Adelantos
  <2> QED BY <2>1, <2>2, <2>3, FS_EmptySet DEF InvSem, Saldo
<1>2. InvTipo /\ InvSem => SemaforoCuadra
  <2> SUFFICES ASSUME InvTipo, InvSem, semExiste
               PROVE  Cardinality(EnSeccion) <= 1 + colados /\ (EnSeccion = {} => sem > 0)
    BY DEF SemaforoCuadra
  <2>0. sem \in Nat /\ colados \in Nat
    BY DEF InvTipo, TypeOK
  <2>1. Cardinality(EnSeccion) <= 1 + colados
    BY <2>0, SeccionFinita DEF InvSem
  <2>2. ASSUME EnSeccion = {} PROVE sem > 0
    <3>1. Pendientes(semadj) = {}
      BY <2>2 DEF EnSeccion, Pendientes, InvSem
    <3>2. Cardinality(Pendientes(semadj)) = 0
      BY <3>1, FS_EmptySet
    <3>3. Cardinality(Adelantos(semadj)) \in Nat
      BY FS_CardinalityType DEF InvSem, Saldo
    <3> QED BY <2>0, <3>2, <3>3 DEF InvSem, Saldo
  <2> QED BY <2>1, <2>2
<1> QED BY <1>1, <1>2, InicioTipo, PasoTipo, PasoCola, PasoSem, PTL DEF Spec
=============================================================================
