---------------------------- MODULE BusquedaPrueba ----------------------------
(***************************************************************************)
(* One round of the search, for every range and every number in it.        *)
(***************************************************************************)
EXTENDS BusquedaBinaria, WellFoundedInduction, NaturalsInduction, TLAPS

\* The state a session is in: a range of naturals with the number inside.
EnRango(n, x, y) == x \in Nat /\ y \in Nat /\ n \in Nat /\ x <= n /\ n < y

\* The proposal is inside the range, so it is a value the number may have.
LEMMA MedioDentro ==
    ASSUME NEW x \in Nat, NEW y \in Nat, x < y
    PROVE  Medio(x, y) \in x..(y - 1)
<1>1. (y - x) \div 2 \in Int
  OBVIOUS
<1>2. 0 <= (y - x) \div 2 /\ 2 * ((y - x) \div 2) <= y - x
  OBVIOUS
<1> QED BY <1>1, <1>2 DEF Medio

\* After an answer other than IGUAL the number is still in the range of the PA, which
\* is strictly narrower: no proposal is repeated for ever (adivinacion lines 485-497).
THEOREM RangoEstrecha ==
    ASSUME NEW n, NEW x, NEW y, EnRango(n, x, y), Caracter(n, Medio(x, y)) # IGUAL
    PROVE  LET c == Caracter(n, Medio(x, y))
               x1 == NuevoMin(c, x, Medio(x, y))
               y1 == NuevoMax(c, y, Medio(x, y))
           IN  EnRango(n, x1, y1) /\ 2 * (y1 - x1) <= y - x + 1 /\ y1 - x1 < y - x
<1> DEFINE m == Medio(x, y)
<1>1. /\ x \in Nat /\ y \in Nat /\ n \in Nat /\ x <= n /\ n < y
  BY DEF EnRango
<1>2. m \in x..(y - 1)
  BY <1>1, MedioDentro
<1>3. 2 * m <= x + y /\ x + y <= 2 * m + 1
  <2>1. (y - x) \div 2 \in Int /\ 2 * ((y - x) \div 2) <= y - x /\ y - x <= 2 * ((y - x) \div 2) + 1
    BY <1>1
  <2>2. m = x + (y - x) \div 2
    BY DEF Medio
  <2> QED BY <1>1, <2>1, <2>2
<1>4. CASE n > m
  <2>1. Caracter(n, m) = MAYOR
    BY <1>4 DEF Caracter
  <2>2. NuevoMin(MAYOR, x, m) = m /\ NuevoMax(MAYOR, y, m) = y
    BY DEF NuevoMin, NuevoMax, MAYOR, MENOR
  <2>3. EnRango(n, m, y) /\ 2 * (y - m) <= y - x + 1 /\ y - m < y - x
    \* the width was at least 2: a range of one value is its own middle
    BY <1>1, <1>2, <1>3, <1>4 DEF EnRango
  <2> QED BY <2>1, <2>2, <2>3
<1>5. CASE n < m
  <2>1. Caracter(n, m) = MENOR
    BY <1>1, <1>2, <1>5 DEF Caracter
  <2>2. NuevoMin(MENOR, x, m) = x /\ NuevoMax(MENOR, y, m) = m
    BY DEF NuevoMin, NuevoMax, MAYOR, MENOR
  <2>3. EnRango(n, x, m) /\ 2 * (m - x) <= y - x + 1 /\ m - x < y - x
    BY <1>1, <1>2, <1>3, <1>5 DEF EnRango
  <2> QED BY <2>1, <2>2, <2>3
<1>6. CASE n = m
  BY <1>6, <1>1, <1>2 DEF Caracter
<1>7. n < m \/ n = m \/ n > m
  BY <1>1, <1>2
<1> QED BY <1>4, <1>5, <1>6, <1>7

-----------------------------------------------------------------------------
(* The number of answers.  A set of naturals with 0 and the successor of   *)
(* each member is Nat, or the complement would have a least element.       *)

LEMMA Induccion ==
    ASSUME NEW S, S \subseteq Nat, 0 \in S, \A n \in S : n + 1 \in S
    PROVE  S = Nat
<1> SUFFICES ASSUME S # Nat PROVE FALSE
  OBVIOUS
<1> DEFINE T == Nat \ S
<1>1. T # {} /\ T \subseteq Nat
  OBVIOUS
<1>2. \E x \in T : \A y \in T : ~(<<y, x>> \in OpToRel(<, Nat))
  <2> HIDE DEF T
  <2> QED BY <1>1, WFMin, NatLessThanWellFounded
<1>3. PICK x \in T : \A y \in T : ~(<<y, x>> \in OpToRel(<, Nat))
  BY <1>2
<1>4. x \in Nat /\ x # 0 /\ x - 1 \in Nat
  OBVIOUS
<1>5. <<x - 1, x>> \in OpToRel(<, Nat)
  BY <1>4 DEF OpToRel
<1>6. x - 1 \in S
  <2>1. x - 1 \notin T
    BY <1>3, <1>5
  <2> QED BY <1>4, <2>1
<1>7. (x - 1) + 1 \in S
  BY <1>6
<1> QED BY <1>4, <1>7

\* The first n + 1 powers.
Tabla(n, f) == f \in [0..n -> Nat \ {0}] /\ f[0] = 1 /\ \A m \in 1..n : f[m] = 2 * f[m - 1]

LEMMA TablaExiste == \A n \in Nat : \E f : Tabla(n, f)
<1> DEFINE S == {n \in Nat : \E f : Tabla(n, f)}
<1>1. 0 \in S
  <2>1. Tabla(0, [m \in 0..0 |-> 1])
    BY DEF Tabla
  <2> QED BY <2>1
<1>2. ASSUME NEW n \in S PROVE n + 1 \in S
  <2>1. PICK f : Tabla(n, f)
    OBVIOUS
  <2>2. n \in Nat
    OBVIOUS
  <2> DEFINE g == [m \in 0..(n + 1) |-> IF m = n + 1 THEN 2 * f[n] ELSE f[m]]
  <2>3. g \in [0..(n + 1) -> Nat \ {0}]
    <3>1. \A m \in 0..n : f[m] \in Nat \ {0}
      BY <2>1 DEF Tabla
    <3>2. 2 * f[n] \in Nat \ {0}
      BY <2>2, <3>1
    <3>3. \A m \in 0..(n + 1) : m # n + 1 => m \in 0..n
      BY <2>2
    <3> QED BY <3>1, <3>2, <3>3
  <2>4. g[0] = 1
    BY <2>1, <2>2 DEF Tabla
  <2>5. ASSUME NEW m \in 1..(n + 1) PROVE g[m] = 2 * g[m - 1]
    <3>1. m - 1 \in 0..n /\ m \in 0..(n + 1) /\ m - 1 \in 0..(n + 1) /\ m - 1 # n + 1
      BY <2>2
    <3>2. g[m - 1] = f[m - 1]
      BY <3>1
    <3>3. CASE m = n + 1
      BY <2>2, <3>1, <3>2, <3>3
    <3>4. CASE m # n + 1
      <4>1. m \in 1..n
        BY <2>2, <3>4
      <4> QED BY <2>1, <3>1, <3>2, <3>4, <4>1 DEF Tabla
    <3> QED BY <3>3, <3>4
  <2> HIDE DEF g
  <2>6. Tabla(n + 1, g)
    BY <2>3, <2>4, <2>5 DEF Tabla
  <2> QED BY <2>2, <2>6
<1>3. S = Nat
  <2>1. S \subseteq Nat
    OBVIOUS
  <2> HIDE DEF S
  <2> QED BY <1>1, <1>2, <2>1, Induccion
<1> QED BY <1>3

LEMMA TablaUnica ==
    ASSUME NEW n \in Nat, NEW f, NEW g, Tabla(n, f), Tabla(n + 1, g)
    PROVE  f[n] = g[n]
<1> DEFINE S == {m \in Nat : m <= n => f[m] = g[m]}
<1>1. 0 \in S
  BY DEF Tabla
<1>2. ASSUME NEW m \in S PROVE m + 1 \in S
  <2>1. m \in Nat /\ (m <= n => f[m] = g[m]) /\ (m + 1) - 1 = m
    OBVIOUS
  <2>2. m + 1 <= n => f[m + 1] = g[m + 1]
    <3> SUFFICES ASSUME m + 1 <= n PROVE f[m + 1] = g[m + 1]
      OBVIOUS
    <3>1. m + 1 \in 1..n /\ m + 1 \in 1..(n + 1) /\ m <= n
      BY <2>1
    <3>2. f[m + 1] = 2 * f[(m + 1) - 1] /\ g[m + 1] = 2 * g[(m + 1) - 1]
      BY <3>1 DEF Tabla
    <3> QED BY <2>1, <3>1, <3>2
  <2> QED BY <2>1, <2>2
<1>3. S = Nat
  <2>1. S \subseteq Nat
    OBVIOUS
  <2> HIDE DEF S
  <2> QED BY <1>1, <1>2, <2>1, Induccion
<1> QED BY <1>3

\* DosALa is the function its recursive definition describes.
LEMMA Potencias ==
    /\ DosALa[0] = 1
    /\ \A n \in Nat : DosALa[n] \in Nat \ {0} /\ DosALa[n + 1] = 2 * DosALa[n]
<1> DEFINE T(n) == CHOOSE f : Tabla(n, f)
           F == [n \in Nat |-> T(n)[n]]
           Paso(f) == [n \in Nat |-> IF n = 0 THEN 1 ELSE 2 * f[n - 1]]
<1>1. \A n \in Nat : Tabla(n, T(n))
  BY TablaExiste
<1> HIDE DEF T
<1>2. F[0] = 1
  BY <1>1 DEF Tabla
<1>3. ASSUME NEW n \in Nat PROVE F[n] \in Nat \ {0} /\ F[n + 1] = 2 * F[n]
  <2>1. F[n] = T(n)[n] /\ F[n + 1] = T(n + 1)[n + 1]
    OBVIOUS
  <2>2. Tabla(n, T(n)) /\ Tabla(n + 1, T(n + 1))
    BY <1>1
  <2>3. T(n)[n] \in Nat \ {0}
    BY <2>2 DEF Tabla
  <2>4. T(n + 1)[n + 1] = 2 * T(n + 1)[n]
    <3>1. n + 1 \in 1..(n + 1) /\ (n + 1) - 1 = n
      OBVIOUS
    <3> QED BY <2>2, <3>1 DEF Tabla
  <2>5. T(n)[n] = T(n + 1)[n]
    BY <2>2, TablaUnica
  <2> QED BY <2>1, <2>3, <2>4, <2>5
<1>4. F = Paso(F)
  <2>1. \A n \in Nat : F[n] = IF n = 0 THEN 1 ELSE 2 * F[n - 1]
    <3> TAKE n \in Nat
    <3>1. CASE n = 0
      BY <1>2, <3>1
    <3>2. CASE n # 0
      <4>1. n - 1 \in Nat /\ (n - 1) + 1 = n
        BY <3>2
      <4>2. F[(n - 1) + 1] = 2 * F[n - 1]
        BY <1>3, <4>1
      <4> QED BY <3>2, <4>1, <4>2
    <3> QED BY <3>1, <3>2
  <2>2. F = [n \in Nat |-> F[n]]
    OBVIOUS
  <2> HIDE DEF F
  <2> QED BY <2>1, <2>2
<1> HIDE DEF F, Paso
<1>5. DosALa = Paso(DosALa)
  <2>1. DosALa = CHOOSE f : f = Paso(f)
    BY DEF DosALa, Paso
  <2>2. \E f : f = Paso(f)
    BY <1>4
  <2> QED BY <2>1, <2>2
<1>6. DosALa[0] = 1 /\ \A n \in Nat : DosALa[n + 1] = 2 * DosALa[n]
  <2> DEFINE D == DosALa
  <2>1. D = [n \in Nat |-> IF n = 0 THEN 1 ELSE 2 * D[n - 1]]
    BY <1>5 DEF Paso
  <2> HIDE DEF D
  <2>2. D[0] = 1
    BY <2>1
  <2>3. ASSUME NEW n \in Nat PROVE D[n + 1] = 2 * D[n]
    <3>1. n + 1 \in Nat /\ n + 1 # 0 /\ (n + 1) - 1 = n
      OBVIOUS
    <3>2. D[n + 1] = 2 * D[(n + 1) - 1]
      BY <2>1, <3>1
    <3> QED BY <3>1, <3>2
  <2> QED BY <2>2, <2>3 DEF D
<1>7. \A n \in Nat : DosALa[n] \in Nat \ {0}
  <2> DEFINE S == {n \in Nat : DosALa[n] \in Nat \ {0}}
  <2>1. 0 \in S
    BY <1>6
  <2>2. ASSUME NEW n \in S PROVE n + 1 \in S
    BY <1>6
  <2>3. S = Nat
    <3>1. S \subseteq Nat
      OBVIOUS
    <3> HIDE DEF S
    <3> QED BY <2>1, <2>2, <3>1, Induccion
  <2> QED BY <2>3
<1> QED BY <1>6, <1>7

LEMMA ProductoMonotono ==
    ASSUME NEW x \in Nat, NEW y \in Nat, NEW z \in Nat, x <= y
    PROVE  x * z <= y * z
  OBVIOUS

\* One more answer other than IGUAL.
LEMMA MenguaPaso ==
    ASSUME NEW w \in Nat, NEW v \in Nat, NEW c, Mengua(w, c),
           v > 0, v < w, 2 * v <= w + 1
    PROVE  Mengua(v, c + 1)
<1> USE NumMaxAssumption
<1>1. c \in Nat /\ (w - 1) * DosALa[c] < NumMax
  BY DEF Mengua
<1>2. DosALa[c] \in Nat \ {0} /\ DosALa[c + 1] = 2 * DosALa[c]
  BY <1>1, Potencias
<1> DEFINE d == DosALa[c]
<1>3. d \in Nat /\ d > 0 /\ (w - 1) * d < NumMax
  BY <1>1, <1>2
<1> HIDE DEF d
<1>4. (v - 1) * (2 * d) < NumMax
  <2>1. (v - 1) * (2 * d) = (2 * (v - 1)) * d
    BY <1>3
  <2>2. 2 * (v - 1) \in Nat /\ w - 1 \in Nat /\ 2 * (v - 1) <= w - 1
    OBVIOUS
  <2>3. (2 * (v - 1)) * d <= (w - 1) * d
    <3> DEFINE x == 2 * (v - 1)
               y == w - 1
    <3>1. x \in Nat /\ y \in Nat /\ x <= y
      BY <2>2
    <3> HIDE DEF x, y
    <3>2. x * d <= y * d
      BY <1>3, <3>1, ProductoMonotono
    <3> QED BY <3>2 DEF x, y
  <2>4. (2 * (v - 1)) * d \in Nat /\ (w - 1) * d \in Nat
    BY <1>3, <2>2
  <2> QED BY <1>3, <2>1, <2>3, <2>4
<1>5. d < NumMax
  <2>1. 1 \in Nat /\ w - 1 \in Nat /\ 1 <= w - 1
    OBVIOUS
  <2>2. 1 * d <= (w - 1) * d
    <3> DEFINE y == w - 1
    <3>1. y \in Nat /\ 1 <= y
      BY <2>1
    <3> HIDE DEF y
    <3>2. 1 * d <= y * d
      BY <1>3, <3>1, ProductoMonotono
    <3> QED BY <3>2 DEF y
  <2>3. (w - 1) * d \in Nat /\ 1 * d = d
    BY <1>3, <2>1
  <2> QED BY <1>3, <2>2, <2>3
<1>6. c + 1 \in Nat /\ (c + 1) - 1 = c
  BY <1>1
<1> QED BY <1>2, <1>4, <1>5, <1>6 DEF Mengua, d

LEMMA MenguaInicial == Mengua(NumMax, 0)
<1> USE NumMaxAssumption
<1>1. (NumMax - 1) * 1 = NumMax - 1
  OBVIOUS
<1> QED BY <1>1, Potencias DEF Mengua

\* A session that ends with IGUAL after c other answers.
LEMMA MenguaFinal ==
    ASSUME NEW w, NEW c, Mengua(w, c)
    PROVE  Logaritmica(c + 1)
<1>1. c \in Nat /\ (c > 0 => DosALa[c - 1] < NumMax)
  BY DEF Mengua
<1>2. (c + 1) - 2 = c - 1 /\ (c + 1 > 1 => c > 0)
  BY <1>1
<1> QED BY <1>1, <1>2 DEF Logaritmica
=============================================================================
