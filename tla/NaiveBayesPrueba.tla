--------------------------- MODULE NaiveBayesPrueba ---------------------------
(***************************************************************************)
(* The classifier's work on its samples, for every file, shuffle, number   *)
(* of classes and of folds: the partition, the folds and the matrix.       *)
(***************************************************************************)
EXTENDS NaiveBayes, FiniteSetTheorems, WellFoundedInduction, TLAPS

-----------------------------------------------------------------------------
(* Induction, on sets in place of predicates *)

\* A set of naturals with elements has a least one.
LEMMA Minimo ==
    ASSUME NEW T \in SUBSET Nat, T # {}
    PROVE  \E x \in T : \A y \in T : x <= y
<1>1. IsWellFoundedOn(OpToRel(<, Nat), Nat)
  BY NatLessThanWellFounded
<1>2. PICK x \in T : \A y \in T : ~(<<y, x>> \in OpToRel(<, Nat))
  BY <1>1, WFMin
<1>3. ASSUME NEW y \in T PROVE x <= y
  <2>1. ~(y < x)
    BY <1>2 DEF OpToRel
  <2> QED BY <2>1
<1> QED BY <1>3

\* A set with 0 and every successor of its elements is Nat.
LEMMA Induccion ==
    ASSUME NEW T \in SUBSET Nat, 0 \in T, \A n \in T : n + 1 \in T
    PROVE  T = Nat
<1> SUFFICES ASSUME Nat \ T # {} PROVE FALSE
  OBVIOUS
<1>1. PICK n \in Nat \ T : \A m \in Nat \ T : n <= m
  BY Minimo
<1>2. n # 0 /\ n - 1 \in Nat
  BY <1>1
<1>3. n - 1 \in T
  BY <1>1, <1>2
<1> QED BY <1>1, <1>3

\* Induction on the subsets of a finite set: T has one if it has all those below it.
LEMMA InduccionFinita ==
    ASSUME NEW S, IsFiniteSet(S), NEW T \in SUBSET SUBSET S,
           \A U \in SUBSET S : (\A V \in SUBSET U : V # U => V \in T) => U \in T
    PROVE  S \in T
<1> DEFINE N == {Cardinality(U) : U \in (SUBSET S) \ T}
<1>0. \A U \in SUBSET S : IsFiniteSet(U) /\ Cardinality(U) \in Nat
  BY FS_Subset, FS_CardinalityType
<1> SUFFICES ASSUME S \notin T PROVE FALSE
  OBVIOUS
<1>1. N \in SUBSET Nat /\ N # {}
  BY <1>0
<1>2. PICK n \in N : \A m \in N : n <= m
  BY <1>1, Minimo
<1>3. PICK U \in (SUBSET S) \ T : n = Cardinality(U)
  BY <1>2
<1>4. ASSUME NEW V \in SUBSET U, V # U PROVE V \in T
  <2>1. V \in SUBSET S /\ IsFiniteSet(U)
    BY <1>0
  <2>2. Cardinality(V) <= Cardinality(U) /\ Cardinality(V) # Cardinality(U)
    BY <1>4, <2>1, FS_Subset
  <2>3. ~(Cardinality(U) <= Cardinality(V))
    BY <1>0, <2>1, <2>2
  <2> QED BY <1>2, <1>3, <2>1, <2>3
<1> QED BY <1>3, <1>4

-----------------------------------------------------------------------------
(* Sums *)

Algun(U) == CHOOSE x \in U : TRUE

\* What the sum of g over U is, from that of less.
Paso(g, h, U) == IF U = {} THEN 0 ELSE g[Algun(U)] + h[U \ {Algun(U)}]

LEMMA AlgunEs ==
    ASSUME NEW U, U # {}
    PROVE  Algun(U) \in U
BY DEF Algun

\* There are sums of g over every subset of S: one table after another, by size.
LEMMA HaySuma ==
    ASSUME NEW S, IsFiniteSet(S), NEW g
    PROVE  \E h : h = [U \in SUBSET S |-> Paso(g, h, U)]
<1>0. \A U \in SUBSET S : IsFiniteSet(U) /\ Cardinality(U) \in Nat
  BY FS_Subset, FS_CardinalityType
<1> DEFINE T == {n \in Nat : \E h : \A U \in SUBSET S : Cardinality(U) <= n => h[U] = Paso(g, h, U)}
<1>1. 0 \in T
  <2> DEFINE h == [U \in SUBSET S |-> 0]
  <2>1. \A U \in SUBSET S : Cardinality(U) <= 0 => h[U] = Paso(g, h, U)
    <3> SUFFICES ASSUME NEW U \in SUBSET S, Cardinality(U) <= 0 PROVE h[U] = Paso(g, h, U)
      OBVIOUS
    <3>1. U = {}
      BY <1>0, FS_EmptySet
    <3> QED BY <3>1 DEF Paso
  <2> HIDE DEF h
  <2> QED BY <2>1
<1>2. ASSUME NEW n \in T PROVE n + 1 \in T
  <2>1. PICK h : \A U \in SUBSET S : Cardinality(U) <= n => h[U] = Paso(g, h, U)
    OBVIOUS
  <2> DEFINE j == [U \in SUBSET S |-> IF Cardinality(U) <= n THEN h[U] ELSE Paso(g, h, U)]
  <2>2. ASSUME NEW U \in SUBSET S, Cardinality(U) <= n + 1 PROVE j[U] = Paso(g, j, U)
    <3>1. j[U] = Paso(g, h, U)
      BY <2>1
    <3>2. CASE U = {}
      BY <3>1, <3>2 DEF Paso
    <3>3. CASE U # {}
      <4> DEFINE V == U \ {Algun(U)}
      <4>1. V \in SUBSET S /\ Cardinality(V) = Cardinality(U) - 1
        BY <1>0, <3>3, AlgunEs, FS_RemoveElement
      <4>2. Cardinality(V) <= n
        BY <1>0, <2>2, <4>1
      <4>3. j[V] = h[V]
        BY <4>1, <4>2
      <4> QED BY <3>1, <3>3, <4>3 DEF Paso
    <3> QED BY <3>2, <3>3
  <2> HIDE DEF j
  <2>3. \A U \in SUBSET S : Cardinality(U) <= n + 1 => j[U] = Paso(g, j, U)
    BY <2>2
  <2> QED BY <2>3
<1> HIDE DEF T
<1>3. T = Nat
  <2>1. T \in SUBSET Nat
    BY DEF T
  <2> QED BY <1>1, <1>2, <2>1, Induccion
<1>4. Cardinality(S) \in T
  BY <1>3, FS_CardinalityType
<1>5. PICK h : \A U \in SUBSET S : Cardinality(U) <= Cardinality(S) => h[U] = Paso(g, h, U)
  BY <1>4 DEF T
<1>6. \A U \in SUBSET S : h[U] = Paso(g, h, U)
  BY <1>5, FS_Subset
<1> DEFINE j == [U \in SUBSET S |-> h[U]]
<1>7. ASSUME NEW U \in SUBSET S PROVE h[U] = Paso(g, j, U)
  <2>1. U \ {Algun(U)} \in SUBSET S
    OBVIOUS
  <2>2. j[U \ {Algun(U)}] = h[U \ {Algun(U)}]
    BY <2>1
  <2> QED BY <1>6, <2>2 DEF Paso
<1>8. j = [U \in SUBSET S |-> Paso(g, j, U)]
  BY <1>7
<1> HIDE DEF j
<1> QED BY <1>8

\* SumFunctionOnSet takes the elements away one by one, as Paso says.
LEMMA Suma ==
    ASSUME NEW S, IsFiniteSet(S), NEW g
    PROVE  \E h : /\ \A U \in SUBSET S : h[U] = Paso(g, h, U)
                  /\ SumFunctionOnSet(g, S) = h[S]
<1> DEFINE h == CHOOSE j : j = [U \in SUBSET S |-> Paso(g, j, U)]
<1>1. h = [U \in SUBSET S |-> Paso(g, h, U)]
  BY HaySuma
<1>2. SumFunctionOnSet(g, S) = h[S]
  BY DEF SumFunctionOnSet, FoldFunctionOnSet, MapThenFoldSet, Paso, Algun
<1> HIDE DEF h
<1>3. \A U \in SUBSET S : h[U] = Paso(g, h, U)
  BY <1>1
<1> QED BY <1>2, <1>3

\* A sum of naturals is a natural, and one of them is positive when it is.
LEMMA SumaNatural ==
    ASSUME NEW S, IsFiniteSet(S), NEW g, \A x \in S : g[x] \in Nat
    PROVE  /\ SumFunctionOnSet(g, S) \in Nat
           /\ SumFunctionOnSet(g, S) > 0 => \E x \in S : g[x] > 0
<1>1. PICK h : /\ \A U \in SUBSET S : h[U] = Paso(g, h, U)
               /\ SumFunctionOnSet(g, S) = h[S]
  BY Suma
<1> DEFINE T == {U \in SUBSET S : h[U] \in Nat /\ (h[U] > 0 => \E x \in U : g[x] > 0)}
<1>2. ASSUME NEW U \in SUBSET S, \A V \in SUBSET U : V # U => V \in T PROVE U \in T
  <2>1. CASE U = {}
    <3>1. h[U] = 0
      BY <1>1, <2>1 DEF Paso
    <3> QED BY <3>1
  <2>2. CASE U # {}
    <3>1. PICK x \in U : x = Algun(U)
      BY <2>2, AlgunEs
    <3>2. U \ {x} \in T
      BY <1>2
    <3>3. h[U] = g[x] + h[U \ {x}]
      BY <1>1, <2>2, <3>1 DEF Paso
    <3>4. g[x] \in Nat /\ h[U \ {x}] \in Nat
      BY <3>2
    <3>5. h[U] \in Nat
      BY <3>3, <3>4
    <3>6. ASSUME h[U] > 0 PROVE \E y \in U : g[y] > 0
      <4>1. CASE g[x] > 0
        BY <4>1
      <4>2. CASE ~(g[x] > 0)
        <5>1. h[U \ {x}] > 0
          BY <3>3, <3>4, <3>6, <4>2
        <5> QED BY <3>2, <5>1
      <4> QED BY <4>1, <4>2
    <3> QED BY <3>5, <3>6
  <2> QED BY <2>1, <2>2
<1>3. S \in T
  <2> HIDE DEF T
  <2>1. T \in SUBSET SUBSET S
    BY DEF T
  <2> QED BY <1>2, <2>1, InduccionFinita
<1> QED BY <1>1, <1>3

\* The elements of R of which k says x, or something in U.
Con(R, k, x) == {n \in R : k[n] = x}
Entre(R, k, U) == {n \in R : k[n] \in U}

\* The elements of R, counted by what h says of each.
LEMMA SumaDeCuentas ==
    ASSUME NEW S, IsFiniteSet(S), NEW R, IsFiniteSet(R), NEW k, NEW g,
           \A x \in S : g[x] = Cardinality(Con(R, k, x))
    PROVE  SumFunctionOnSet(g, S) = Cardinality(Entre(R, k, S))
<1>0. \A Q \in SUBSET R : IsFiniteSet(Q) /\ Cardinality(Q) \in Nat
  BY FS_Subset, FS_CardinalityType
<1>1. PICK h : /\ \A U \in SUBSET S : h[U] = Paso(g, h, U)
               /\ SumFunctionOnSet(g, S) = h[S]
  BY Suma
<1> DEFINE En(U) == Entre(R, k, U)
           T == {U \in SUBSET S : h[U] = Cardinality(En(U))}
<1>2. ASSUME NEW U \in SUBSET S, \A V \in SUBSET U : V # U => V \in T PROVE U \in T
  <2>1. CASE U = {}
    <3>1. h[U] = 0
      BY <1>1, <2>1 DEF Paso
    <3>2. En(U) = {}
      BY <2>1 DEF Entre
    <3> QED BY <3>1, <3>2, FS_EmptySet
  <2>2. CASE U # {}
    <3>1. PICK x \in U : x = Algun(U)
      BY <2>2, AlgunEs
    <3> DEFINE V == U \ {x}
               X == Con(R, k, x)
    <3>2. h[V] = Cardinality(En(V))
      BY <1>2
    <3>3. h[U] = g[x] + h[V]
      BY <1>1, <2>2, <3>1 DEF Paso
    <3>4. En(U) = X \cup En(V) /\ X \cap En(V) = {}
      BY DEF Con, Entre
    <3>5. /\ IsFiniteSet(X) /\ Cardinality(X) \in Nat
          /\ IsFiniteSet(En(V)) /\ Cardinality(En(V)) \in Nat
      BY <1>0 DEF Con, Entre
    <3>6. g[x] = Cardinality(X)
      OBVIOUS
    <3> HIDE DEF X, V, En
    <3>7. Cardinality(En(U)) = Cardinality(X) + Cardinality(En(V))
      <4>1. Cardinality(X \cap En(V)) = 0
        BY <3>4, FS_EmptySet
      <4>2. Cardinality(X \cup En(V)) = Cardinality(X) + Cardinality(En(V)) - Cardinality(X \cap En(V))
        BY <3>5, FS_Union
      <4> QED BY <3>4, <3>5, <4>1, <4>2
    <3> QED BY <3>2, <3>3, <3>6, <3>7
  <2> QED BY <2>1, <2>2
<1>3. S \in T
  <2> HIDE DEF T
  <2>1. T \in SUBSET SUBSET S
    BY DEF T
  <2> QED BY <1>2, <2>1, InduccionFinita
<1> QED BY <1>1, <1>3

-----------------------------------------------------------------------------
(* The operators of the model *)

LEMMA ClasesFinitas == IsFiniteSet(Clases)
<1>1. 0 \in Int /\ N_CLASSES - 1 \in Int
  BY ClasesAssumption
<1> QED BY <1>1, FS_Interval DEF Clases

\* With no NaN among them, the first of the largest is there, and it is the first class when
\* it is -INFINITY: all are.
LEMMA MejorSinNaN ==
    ASSUME NEW p \in [Clases -> 0..N_CLASSES]
    PROVE  /\ Mejor(p) \in Clases
           /\ p[Mejor(p)] > 0 \/ (Mejor(p) = 0 /\ \A c \in Clases : p[c] = 0)
<1>0. Clases \subseteq Nat /\ 0 \in Clases
  BY ClasesAssumption DEF Clases
<1>1. ~(\E c \in Clases : p[c] = NaN)
  BY DEF NaN
<1>2. PICK v \in Clases : \A d \in Clases : p[d] <= p[v]
  <2> DEFINE T == {N_CLASSES - p[c] : c \in Clases}
  <2>1. T \in SUBSET Nat /\ T # {}
    BY <1>0, ClasesAssumption
  <2>2. PICK x \in T : \A y \in T : x <= y
    BY <2>1, Minimo
  <2>3. PICK c \in Clases : x = N_CLASSES - p[c]
    BY <2>2
  <2>4. \A d \in Clases : N_CLASSES - p[c] <= N_CLASSES - p[d]
    BY <2>2, <2>3
  <2>5. \A d \in Clases : p[d] \in Int /\ p[c] \in Int /\ N_CLASSES \in Int
    BY ClasesAssumption
  <2>6. \A d \in Clases : p[d] <= p[c]
    BY <2>4, <2>5
  <2> QED BY <2>3, <2>6
<1>3. PICK b \in Clases : p[b] = p[v] /\ \A d \in Clases : p[d] = p[v] => b <= d
  <2> DEFINE T == {c \in Clases : p[c] = p[v]}
  <2>1. T \in SUBSET Nat /\ T # {}
    BY <1>0
  <2> QED BY <2>1, Minimo
<1>4. \A d \in Clases : p[d] <= p[b] /\ (d < b => p[d] < p[b])
  <2> SUFFICES ASSUME NEW d \in Clases PROVE p[d] <= p[b] /\ (d < b => p[d] < p[b])
    OBVIOUS
  <2>1. p[d] <= p[b] /\ p[d] \in Int /\ p[b] \in Int /\ d \in Nat /\ b \in Nat
    BY <1>0, <1>2, <1>3
  <2>2. p[d] = p[b] => b <= d
    BY <1>3
  <2> QED BY <2>1, <2>2
<1> DEFINE c == Mejor(p)
<1>5. c \in Clases /\ \A d \in Clases : p[d] <= p[c] /\ (d < c => p[d] < p[c])
  BY <1>1, <1>4 DEF Mejor
<1> HIDE DEF c
<1>6. c \in Nat /\ \A d \in Clases : p[d] \in Nat
  BY <1>0, <1>5
<1>7. ASSUME ~(p[c] > 0) PROVE c = 0 /\ \A d \in Clases : p[d] = 0
  <2>1. p[c] = 0
    BY <1>5, <1>6, <1>7
  <2>2. \A d \in Clases : p[d] = 0
    BY <1>5, <1>6, <2>1
  <2>3. ~(0 < c)
    BY <1>0, <1>5, <2>1, <2>2
  <2> QED BY <1>6, <2>2, <2>3
<1> QED BY <1>5, <1>7 DEF c

\* predict answers with a class that has training samples, or with the first one, and then
\* no class has, or the sample or one of those is out of measure.
LEMMA MejorEs ==
    ASSUME NEW s, NEW n, NEW p \in LogP(s, n)
    PROVE  /\ Mejor(p) \in Clases
           /\ \/ DeClase(s, Mejor(p)) # {}
              \/ /\ Mejor(p) = 0
                 /\ \/ \A c \in Clases : DeClase(s, c) = {}
                    \/ \E m \in s \cup {n} : Desmedida(m)
<1>0. 0 \in Clases /\ N_CLASSES \in Nat
  BY ClasesAssumption DEF Clases
<1> DEFINE Rara(c) == \E m \in DeClase(s, c) \cup {n} : Desmedida(m)
<1>1. /\ p \in [Clases -> NaN..N_CLASSES]
      /\ \A c \in Clases : p[c] \in (IF DeClase(s, c) = {} THEN {0} ELSE 1..N_CLASSES)
                                     \cup (IF Rara(c) THEN {NaN, 0} ELSE {})
  BY DEF LogP
<1>2. \A c \in Clases : Rara(c) => \E m \in s \cup {n} : Desmedida(m)
  BY DEF DeClase
<1> HIDE DEF Rara
<1>3. CASE \E c \in Clases : p[c] = NaN
  <2>1. Mejor(p) = 0
    BY <1>3 DEF Mejor
  <2>2. PICK c \in Clases : p[c] = NaN
    BY <1>3
  <2>3. Rara(c)
    BY <1>0, <1>1, <2>2 DEF NaN
  <2> QED BY <1>0, <1>2, <2>1, <2>3
<1>4. CASE ~(\E c \in Clases : p[c] = NaN)
  <2>1. \A c \in Clases : p[c] \in 0..N_CLASSES
    <3> SUFFICES ASSUME NEW c \in Clases PROVE p[c] \in 0..N_CLASSES
      OBVIOUS
    <3>1. p[c] \in NaN..N_CLASSES /\ p[c] # NaN
      BY <1>1, <1>4
    <3> QED BY <1>0, <3>1 DEF NaN
  <2>2. p \in [Clases -> 0..N_CLASSES]
    BY <1>1, <2>1
  <2>3. /\ Mejor(p) \in Clases
        /\ p[Mejor(p)] > 0 \/ (Mejor(p) = 0 /\ \A c \in Clases : p[c] = 0)
    BY <2>2, MejorSinNaN
  <2>4. ASSUME NEW c \in Clases, p[c] > 0 PROVE DeClase(s, c) # {}
    BY <1>1, <2>4 DEF NaN
  <2>5. ASSUME NEW c \in Clases, p[c] = 0, DeClase(s, c) # {} PROVE Rara(c)
    BY <1>1, <2>5
  <2> QED BY <1>2, <2>3, <2>4, <2>5
<1> QED BY <1>3, <1>4

\* The cut is inside: no sample of a class is past it on both sides.
LEMMA CorteDentro ==
    ASSUME NEW n \in Nat
    PROVE  Corte(n) \in 0..n
<1> DEFINE v == (7 * n) \div 10
<1>1. v \in 0..n
  OBVIOUS
<1>2. n > 0 /\ n % 10 = 0 => v > 0
  OBVIOUS
<1>3. Corte(n) = v \/ (n > 0 /\ n % 10 = 0 /\ Corte(n) = v - 1)
  BY DEF Corte
<1> HIDE DEF v
<1> QED BY <1>1, <1>2, <1>3

-----------------------------------------------------------------------------
(* The samples *)

\* The samples are the valid lines, each once.
InvDatos ==
    /\ lineas \in Seq(Linea)
    /\ leidas \in 0..Len(lineas)
    /\ data \in Seq(Validas)
    /\ \A n, m \in DOMAIN data : data[n] = data[m] => n = m
    /\ \A x \in Validas : \E n \in DOMAIN data : data[n] = x
    /\ fase = "baraja" => i \in 0..(Len(data) - 1)
    /\ fase # "carga" => leidas = Len(lineas) \/ Len(data) = MAX_SAMPLES

Posiciones == DOMAIN data

\* The positions of data, one per sample, each of a class.
LEMMA PosicionesSon ==
    ASSUME InvDatos
    PROVE  /\ Len(data) \in Nat /\ Posiciones = 1..Len(data)
           /\ IsFiniteSet(Posiciones) /\ Cardinality(Posiciones) = Len(data)
           /\ \A n \in Posiciones : class_id(n) \in Clases
<1>1. Len(data) \in Nat /\ Posiciones = 1..Len(data)
  BY DEF InvDatos, Posiciones
<1>2. IsFiniteSet(1..Len(data)) /\ Cardinality(1..Len(data)) = Len(data)
  <2>1. 1 \in Int /\ Len(data) \in Int /\ Len(data) >= 0
    BY <1>1
  <2>2. IsFiniteSet(1..Len(data))
    BY <2>1, FS_Interval
  <2>3. Cardinality(1..Len(data)) = IF 1 > Len(data) THEN 0 ELSE Len(data) - 1 + 1
    BY <2>1, FS_Interval
  <2> QED BY <2>1, <2>2, <2>3
<1>3. ASSUME NEW n \in Posiciones PROVE class_id(n) \in Clases
  <2>1. data[n] \in Validas
    BY <1>3 DEF InvDatos, Posiciones
  <2>2. data[n] \in 1..leidas /\ Muestra(lineas[data[n]])
    BY <2>1 DEF Validas
  <2>3. lineas[data[n]] \in Linea
    BY <2>2 DEF InvDatos
  <2> QED BY <2>2, <2>3 DEF Linea, Muestra, class_id
<1> QED BY <1>1, <1>2, <1>3

\* What is counted is finite.
LEMMA DeClaseFinito ==
    ASSUME InvDatos, NEW S \in SUBSET Posiciones, NEW c
    PROVE  /\ IsFiniteSet(S) /\ Cardinality(S) \in Nat
           /\ DeClase(S, c) \subseteq S
           /\ IsFiniteSet(DeClase(S, c)) /\ Cardinality(DeClase(S, c)) \in Nat
<1>1. IsFiniteSet(S)
  BY PosicionesSon, FS_Subset
<1>2. DeClase(S, c) \subseteq S
  BY DEF DeClase
<1>3. IsFiniteSet(DeClase(S, c))
  BY <1>1, <1>2, FS_Subset
<1> QED BY <1>1, <1>2, <1>3, FS_CardinalityType

\* The places of the samples of a class are 0, 1, ..., each taken by one.
LEMMA Puestos ==
    ASSUME InvDatos, NEW c \in Clases
    PROVE  /\ cnt(c) \in Nat
           /\ \A n \in DeClase(Posiciones, c) : Puesto(n) \in 0..(cnt(c) - 1)
           /\ \A n, m \in DeClase(Posiciones, c) : Puesto(n) = Puesto(m) => n = m
           /\ \A r \in 0..(cnt(c) - 1) : \E n \in DeClase(Posiciones, c) : Puesto(n) = r
<1> DEFINE D == DeClase(Posiciones, c)
           Antes(n) == DeClase(1..(n - 1), c)
<1>1. IsFiniteSet(D) /\ cnt(c) = Cardinality(D) /\ cnt(c) \in Nat /\ D \subseteq Posiciones
  BY DeClaseFinito DEF cnt, Posiciones
<1>2. ASSUME NEW n \in D
      PROVE  /\ Puesto(n) = Cardinality(Antes(n)) /\ n \in Nat
             /\ Antes(n) \subseteq D /\ n \notin Antes(n)
             /\ IsFiniteSet(Antes(n)) /\ Cardinality(Antes(n)) \in Nat
  <2>1. class_id(n) = c /\ n \in 1..Len(data) /\ Len(data) \in Nat
    BY <1>1, PosicionesSon DEF DeClase
  <2>2. Puesto(n) = Cardinality(Antes(n))
    BY <2>1 DEF Puesto
  <2>3. Antes(n) \subseteq D /\ n \notin Antes(n)
    BY <2>1, PosicionesSon DEF DeClase
  <2>4. IsFiniteSet(Antes(n))
    BY <1>1, <2>3, FS_Subset
  <2> QED BY <2>1, <2>2, <2>3, <2>4, FS_CardinalityType
<1>3. ASSUME NEW n \in D, NEW U \in SUBSET D, Antes(n) \cup {n} \subseteq U
      PROVE  Puesto(n) + 1 <= Cardinality(U)
  <2>1. Cardinality(Antes(n) \cup {n}) = Cardinality(Antes(n)) + 1
    BY <1>2, FS_AddElement
  <2>2. IsFiniteSet(U)
    BY <1>1, FS_Subset
  <2>3. Cardinality(Antes(n) \cup {n}) <= Cardinality(U)
    BY <1>3, <2>2, FS_Subset
  <2> QED BY <1>2, <2>1, <2>3
<1>4. \A n \in D : Puesto(n) \in 0..(cnt(c) - 1)
  <2> SUFFICES ASSUME NEW n \in D PROVE Puesto(n) \in 0..(cnt(c) - 1)
    OBVIOUS
  <2>1. Puesto(n) \in Nat /\ Antes(n) \cup {n} \subseteq D
    BY <1>2
  <2>2. Puesto(n) + 1 <= Cardinality(D)
    BY <1>3, <2>1
  <2> QED BY <1>1, <2>1, <2>2
<1>5. ASSUME NEW n \in D, NEW m \in D, n < m PROVE Puesto(n) < Puesto(m)
  <2>1. Antes(n) \cup {n} \subseteq Antes(m)
    BY <1>2, <1>5, PosicionesSon, <1>1 DEF DeClase
  <2>2. Puesto(n) + 1 <= Cardinality(Antes(m))
    BY <1>2, <1>3, <2>1
  <2>3. Puesto(n) \in Int /\ Puesto(m) = Cardinality(Antes(m)) /\ Puesto(m) \in Int
    BY <1>2
  <2> QED BY <2>2, <2>3
<1>6. \A n, m \in D : Puesto(n) = Puesto(m) => n = m
  <2> SUFFICES ASSUME NEW n \in D, NEW m \in D, n # m PROVE Puesto(n) # Puesto(m)
    OBVIOUS
  <2>1. n < m \/ m < n
    BY <1>2
  <2>2. Puesto(n) \in Int /\ Puesto(m) \in Int
    BY <1>2
  <2> QED BY <1>5, <2>1, <2>2
<1> DEFINE R == 0..(cnt(c) - 1)
           h == [n \in D |-> Puesto(n)]
<1>7. IsFiniteSet(R) /\ Cardinality(R) = cnt(c)
  <2>1. 0 \in Int /\ cnt(c) - 1 \in Int
    BY <1>1
  <2>2. IsFiniteSet(R)
    BY <2>1, FS_Interval
  <2>3. Cardinality(R) = IF 0 > cnt(c) - 1 THEN 0 ELSE cnt(c) - 1 - 0 + 1
    BY <2>1, FS_Interval
  <2> QED BY <1>1, <2>2, <2>3
<1>8. h \in Injection(D, R)
  BY <1>4, <1>6 DEF Injection, IsInjective
<1>9. h \in Surjection(D, R)
  <2> HIDE DEF D, R, h
  <2>1. Cardinality(D) = Cardinality(R) <=> h \in Surjection(D, R)
    BY <1>7, <1>8, FS_Injection
  <2> QED BY <1>1, <1>7, <2>1
<1>10. \A r \in R : \E n \in D : Puesto(n) = r
  BY <1>9 DEF Surjection
<1> QED BY <1>1, <1>4, <1>6, <1>10

\* idx[c] goes through the samples of class c in order.
LEMMA IdxEs ==
    ASSUME InvDatos, NEW c \in Clases
    PROVE  /\ \A r \in 0..(cnt(c) - 1) : idx(c)[r] \in DeClase(Posiciones, c) /\ Puesto(idx(c)[r]) = r
           /\ \A n \in DeClase(Posiciones, c) : idx(c)[Puesto(n)] = n
<1>1. \A r \in 0..(cnt(c) - 1) : idx(c)[r] \in DeClase(Posiciones, c) /\ Puesto(idx(c)[r]) = r
  <2> SUFFICES ASSUME NEW r \in 0..(cnt(c) - 1)
               PROVE  idx(c)[r] \in DeClase(Posiciones, c) /\ Puesto(idx(c)[r]) = r
    OBVIOUS
  <2>1. idx(c)[r] = CHOOSE n \in DeClase(Posiciones, c) : Puesto(n) = r
    BY DEF idx, Posiciones
  <2>2. \E n \in DeClase(Posiciones, c) : Puesto(n) = r
    BY Puestos
  <2> QED BY <2>1, <2>2
<1> QED BY <1>1, Puestos

-----------------------------------------------------------------------------
(* The matrix *)

\* A matrix that evaluate fills from the samples at s.
LEMMA EvaluarEs ==
    ASSUME InvDatos, NEW s \in SUBSET Posiciones, NEW pred, \A n \in s : pred[n] \in Clases,
           NEW m, m = Evaluar(s, pred)
    PROVE  /\ Aciertos(m) \in [correct : Nat, total : Nat]
           /\ Aciertos(m).total = Cardinality(s)
           /\ \A c \in Clases :
                 /\ Metricas(m, c).tp + Metricas(m, c).fn = Cardinality(DeClase(s, c))
                 /\ Metricas(m, c).tp + Metricas(m, c).fp = Cardinality(Con(s, pred, c))
<1> DEFINE Ve(c, d) == Con(DeClase(s, c), pred, d)
<1>0. IsFiniteSet(s) /\ Cardinality(s) \in Nat /\ \A n \in s : class_id(n) \in Clases
  BY DeClaseFinito, PosicionesSon
<1>1. \A c, d : /\ DeClase(s, c) \subseteq s /\ IsFiniteSet(DeClase(s, c))
                /\ IsFiniteSet(Ve(c, d)) /\ Cardinality(Ve(c, d)) \in Nat
  <2> SUFFICES ASSUME NEW c, NEW d
               PROVE  /\ DeClase(s, c) \subseteq s /\ IsFiniteSet(DeClase(s, c))
                      /\ IsFiniteSet(Ve(c, d)) /\ Cardinality(Ve(c, d)) \in Nat
    OBVIOUS
  <2>1. DeClase(s, c) \subseteq s /\ IsFiniteSet(DeClase(s, c))
    BY DeClaseFinito
  <2>2. Ve(c, d) \subseteq DeClase(s, c)
    BY DEF Con
  <2>3. IsFiniteSet(Ve(c, d))
    BY <2>1, <2>2, FS_Subset
  <2> QED BY <2>1, <2>3, FS_CardinalityType
<1>2. /\ DOMAIN m = Clases
      /\ \A c \in Clases : DOMAIN m[c] = Clases /\ \A d \in Clases : m[c][d] = Cardinality(Ve(c, d))
  BY DEF Evaluar, Con
<1>a. \A c, d \in Clases : m[c][d] \in Nat
  <2> HIDE DEF Ve
  <2> QED BY <1>1, <1>2
<1>3. \A c \in Clases : SumFunction(m[c]) = Cardinality(DeClase(s, c))
  <2> SUFFICES ASSUME NEW c \in Clases PROVE SumFunction(m[c]) = Cardinality(DeClase(s, c))
    OBVIOUS
  <2>1. SumFunction(m[c]) = SumFunctionOnSet(m[c], Clases)
    BY <1>2 DEF SumFunction
  <2>2. SumFunctionOnSet(m[c], Clases) = Cardinality(Entre(DeClase(s, c), pred, Clases))
    BY <1>1, <1>2, ClasesFinitas, SumaDeCuentas
  <2>3. Entre(DeClase(s, c), pred, Clases) = DeClase(s, c)
    BY <1>1 DEF Entre
  <2> QED BY <2>1, <2>2, <2>3
<1>4. Aciertos(m).total = Cardinality(s)
  <2> DEFINE g == [c \in Clases |-> SumFunction(m[c])]
             k == [n \in s |-> class_id(n)]
  <2>1. Aciertos(m).total = SumFunctionOnSet(g, Clases)
    BY DEF Aciertos, SumFunction
  <2>2. \A c \in Clases : g[c] = Cardinality(Con(s, k, c))
    <3> SUFFICES ASSUME NEW c \in Clases PROVE g[c] = Cardinality(Con(s, k, c))
      OBVIOUS
    <3>1. Con(s, k, c) = DeClase(s, c)
      BY DEF DeClase, Con
    <3> QED BY <1>3, <3>1
  <2>3. Entre(s, k, Clases) = s
    BY <1>0 DEF Entre
  <2> HIDE DEF g, k
  <2>4. SumFunctionOnSet(g, Clases) = Cardinality(Entre(s, k, Clases))
    BY <1>0, <2>2, ClasesFinitas, SumaDeCuentas
  <2> QED BY <2>1, <2>3, <2>4
<1>5. Aciertos(m) \in [correct : Nat, total : Nat]
  <2> DEFINE g == [c \in Clases |-> m[c][c]]
  <2>1. \A c \in Clases : g[c] \in Nat
    BY <1>a
  <2>2. SumFunctionOnSet(g, Clases) \in Nat
    <3> HIDE DEF g
    <3> QED BY <2>1, ClasesFinitas, SumaNatural
  <2>3. Aciertos(m).correct \in Nat
    BY <2>2 DEF Aciertos, SumFunction
  <2> QED BY <1>0, <1>4, <2>3 DEF Aciertos
<1>6. ASSUME NEW c \in Clases
      PROVE  /\ Metricas(m, c).tp + Metricas(m, c).fn = Cardinality(DeClase(s, c))
             /\ Metricas(m, c).tp + Metricas(m, c).fp = Cardinality(Con(s, pred, c))
  <2> DEFINE S == Clases \ {c}
             D == DeClase(s, c)
             gp == [d \in S |-> m[d][c]]
             gn == [d \in S |-> m[c][d]]
  <2>0. IsFiniteSet(S)
    BY ClasesFinitas, FS_RemoveElement
  <2>1. /\ Metricas(m, c).tp = Cardinality(Ve(c, c))
        /\ Metricas(m, c).fp = SumFunctionOnSet(gp, S)
        /\ Metricas(m, c).fn = SumFunctionOnSet(gn, S)
    BY <1>2 DEF Metricas, SumFunction
  <2>2. SumFunctionOnSet(gn, S) = Cardinality(Entre(D, pred, S))
    <3>1. \A d \in S : gn[d] = Cardinality(Con(D, pred, d))
      BY <1>2
    <3> HIDE DEF gn, S
    <3> QED BY <1>1, <2>0, <3>1, SumaDeCuentas
  <2>3. Cardinality(D) = Cardinality(Ve(c, c)) + Cardinality(Entre(D, pred, S))
    <3> DEFINE X == Ve(c, c)
               Y == Entre(D, pred, S)
    <3>1. D = X \cup Y /\ X \cap Y = {}
      BY <1>1 DEF Con, Entre
    <3>2. IsFiniteSet(D) /\ X \subseteq D /\ Y \subseteq D
      BY <1>1 DEF Con, Entre
    <3> HIDE DEF X, Y, D
    <3>3. IsFiniteSet(X) /\ IsFiniteSet(Y)
      BY <3>2, FS_Subset
    <3>4. Cardinality(X) \in Nat /\ Cardinality(Y) \in Nat
      BY <3>3, FS_CardinalityType
    <3>5. Cardinality(X \cap Y) = 0
      BY <3>1, FS_EmptySet
    <3>6. Cardinality(X \cup Y) = Cardinality(X) + Cardinality(Y) - Cardinality(X \cap Y)
      BY <3>3, FS_Union
    <3>7. Cardinality(D) = Cardinality(X) + Cardinality(Y)
      BY <3>1, <3>4, <3>5, <3>6
    <3> QED BY <3>7 DEF X, Y
  <2> DEFINE R == Con(s, pred, c)
             k == [n \in s |-> class_id(n)]
  <2>4. IsFiniteSet(R) /\ \A d \in Clases : Con(R, k, d) = Ve(d, c)
    <3>1. R \subseteq s
      BY DEF Con
    <3>2. \A d \in Clases : Con(R, k, d) = Ve(d, c)
      BY DEF Con, DeClase
    <3> QED BY <1>0, <3>1, <3>2, FS_Subset
  <2>5. SumFunctionOnSet(gp, S) = Cardinality(Entre(R, k, S))
    <3>1. \A d \in S : gp[d] = Cardinality(Con(R, k, d))
      BY <1>2, <2>4
    <3> HIDE DEF gp, S, R, k
    <3> QED BY <2>0, <2>4, <3>1, SumaDeCuentas
  <2>6. Cardinality(R) = Cardinality(Ve(c, c)) + Cardinality(Entre(R, k, S))
    <3> DEFINE X == Ve(c, c)
               Y == Entre(R, k, S)
    <3>1. R = X \cup Y /\ X \cap Y = {}
      BY <1>0 DEF Con, Entre, DeClase
    <3>2. X \subseteq R /\ Y \subseteq R
      BY <3>1
    <3> HIDE DEF X, Y, R
    <3>3. IsFiniteSet(X) /\ IsFiniteSet(Y)
      BY <2>4, <3>2, FS_Subset
    <3>4. Cardinality(X) \in Nat /\ Cardinality(Y) \in Nat
      BY <3>3, FS_CardinalityType
    <3>5. Cardinality(X \cap Y) = 0
      BY <3>1, FS_EmptySet
    <3>6. Cardinality(X \cup Y) = Cardinality(X) + Cardinality(Y) - Cardinality(X \cap Y)
      BY <3>3, FS_Union
    <3>7. Cardinality(R) = Cardinality(X) + Cardinality(Y)
      BY <3>1, <3>4, <3>5, <3>6
    <3> QED BY <3>7 DEF X, Y
  <2> HIDE DEF gp, gn, S, D, R, k, Ve
  <2> QED BY <2>1, <2>2, <2>3, <2>5, <2>6 DEF D, R
<1> QED BY <1>4, <1>5, <1>6

-----------------------------------------------------------------------------
(* The invariant *)

\* The sets in use are a partition, and the model and the matrix are theirs.
InvModelo ==
    fase = "pliegues" =>
        /\ train \cup test = Posiciones /\ train \cap test = {}
        /\ counts = Entrenado(train)
        /\ \E pred \in Predichas(train, test) : conf = Evaluar(test, pred)

\* The folds dealt, and what has been counted of those done.
InvCruzada ==
    /\ vuelta \in 0..Len(Ks)
    /\ fase \in {"carga", "baraja"} => vuelta = 0
    /\ fase = "pliegues" /\ vuelta > 0 =>
          /\ f \in 0..Ks[vuelta]
          /\ fold_of = Reparto(Ks[vuelta])
          /\ accs \in Seq([correct : Nat, total : Nat]) /\ Len(accs) = f
          /\ \A a \in 1..f : accs[a].total = Cardinality({n \in Posiciones : fold_of[n] = a - 1})

IInv == InvDatos /\ InvModelo /\ InvCruzada

\* While the samples stay, so does all that is said of them.
LEMMA MismosDatos ==
    ASSUME InvDatos, UNCHANGED <<carga, data, i>>, fase # "carga", fase = "baraja" \/ fase' # "baraja"
    PROVE  InvDatos'
BY DEF InvDatos, carga, Validas, Muestra

\* What is read off the samples stays while they do.
LEMMA MismasMuestras ==
    ASSUME UNCHANGED <<lineas, data>>
    PROVE  /\ Posiciones' = Posiciones
           /\ \A s : Entrenado(s)' = Entrenado(s)
           /\ \A s, pred : Evaluar(s, pred)' = Evaluar(s, pred)
           /\ \A k : Reparto(k)' = Reparto(k)
           /\ \A a, b : Predichas(a, b)' = Predichas(a, b)
<1>1. /\ Posiciones' = Posiciones
      /\ \A s, c : DeClase(s, c)' = DeClase(s, c)
      /\ \A n : class_id(n)' = class_id(n) /\ Desmedida(n)' = Desmedida(n)
  BY DEF Posiciones, DeClase, class_id, Desmedida
<1>2. /\ \A s : Entrenado(s)' = Entrenado(s)
      /\ \A s, pred : Evaluar(s, pred)' = Evaluar(s, pred)
      /\ \A k : Reparto(k)' = Reparto(k)
  BY <1>1 DEF Posiciones, Entrenado, Evaluar, Reparto, Puesto, DeClase, class_id
<1>3. \A s, n : LogP(s, n)' = LogP(s, n)
  BY DEF LogP, DeClase, class_id, Desmedida
<1>4. \A a, b : Predichas(a, b)' = Predichas(a, b)
  BY <1>3 DEF Predichas
<1> QED BY <1>1, <1>2, <1>4

\* The file may have any lines; nothing has been read.
LEMMA InicioInv == Init => IInv
<1> SUFFICES ASSUME Init PROVE IInv
  OBVIOUS
<1>1. PICK n \in 0..MaxLineas : lineas \in [1..n -> Linea]
  BY DEF Init
<1>2. lineas \in Seq(Linea) /\ Len(lineas) \in Nat
  BY <1>1, LineasAssumption
<1>3. leidas = 0 /\ data = <<>> /\ fase = "carga" /\ vuelta = 0
  BY DEF Init
<1>4. Validas = {}
  BY <1>3 DEF Validas
<1>5. DOMAIN data = {} /\ data \in Seq(Validas)
  BY <1>3
<1>6. InvDatos
  BY <1>2, <1>3, <1>4, <1>5 DEF InvDatos
<1>7. Len(Ks) \in Nat
  BY KsAssumption
<1> QED BY <1>3, <1>6, <1>7 DEF IInv, InvModelo, InvCruzada

\* The line read is a new sample if it is valid, and none if not (naive_bayes.c:89-129).
LEMMA LeerLineaInv ==
    ASSUME IInv, LeerLinea
    PROVE  IInv'
<1>1. /\ lineas \in Seq(Linea) /\ leidas \in 0..Len(lineas) /\ leidas < Len(lineas)
      /\ lineas' = lineas /\ leidas' = leidas + 1 /\ fase = "carga" /\ fase' = "carga"
      /\ Len(lineas) \in Nat /\ data \in Seq(Validas)
  BY DEF LeerLinea, IInv, InvDatos
<1>2. leidas' \in 0..Len(lineas') /\ leidas' \in 1..Len(lineas) /\ leidas' \in Nat
  BY <1>1
<1>3. \A x \in Validas : x \in 1..leidas /\ x # leidas'
  BY <1>1 DEF Validas
<1>4. CASE Muestra(lineas[leidas'])
  <2>1. data' = Append(data, leidas')
    BY <1>4 DEF LeerLinea
  <2>2. Validas' = Validas \cup {leidas'}
    <3>1. 1..leidas' = (1..leidas) \cup {leidas'}
      BY <1>1
    <3> QED BY <1>1, <1>4, <3>1 DEF Validas, Muestra
  <2>3. data' \in Seq(Validas')
    BY <1>1, <2>1, <2>2
  <2>4. /\ Len(data) \in Nat /\ DOMAIN data = 1..Len(data)
        /\ DOMAIN data' = 1..(Len(data) + 1)
        /\ \A n \in 1..Len(data) : data'[n] = data[n] /\ data[n] \in Validas
        /\ data'[Len(data) + 1] = leidas'
    BY <1>1, <2>1
  <2>5. \A n, m \in DOMAIN data' : data'[n] = data'[m] => n = m
    <3> SUFFICES ASSUME NEW n \in DOMAIN data', NEW m \in DOMAIN data', data'[n] = data'[m]
                 PROVE  n = m
      OBVIOUS
    <3>1. n \in 1..Len(data) \/ n = Len(data) + 1
      BY <2>4
    <3>2. m \in 1..Len(data) \/ m = Len(data) + 1
      BY <2>4
    <3>3. \A k \in 1..Len(data) : data'[k] # leidas'
      BY <1>3, <2>4
    <3> QED BY <2>4, <3>1, <3>2, <3>3 DEF IInv, InvDatos
  <2>6. \A x \in Validas' : \E n \in DOMAIN data' : data'[n] = x
    <3> SUFFICES ASSUME NEW x \in Validas' PROVE \E n \in DOMAIN data' : data'[n] = x
      OBVIOUS
    <3>1. CASE x = leidas'
      BY <2>4, <3>1
    <3>2. CASE x \in Validas
      <4>1. PICK n \in DOMAIN data : data[n] = x
        BY <3>2 DEF IInv, InvDatos
      <4>2. n \in DOMAIN data' /\ data'[n] = x
        BY <2>4, <4>1
      <4> QED BY <4>2
    <3> QED BY <2>2, <3>1, <3>2
  <2>7. InvDatos'
    BY <1>1, <1>2, <2>3, <2>5, <2>6 DEF InvDatos
  <2> QED BY <1>1, <2>7 DEF IInv, InvModelo, InvCruzada, LeerLinea, cruzada
<1>5. CASE ~Muestra(lineas[leidas'])
  <2>1. data' = data
    BY <1>5 DEF LeerLinea
  <2>2. Validas' = Validas
    <3>1. 1..leidas' = (1..leidas) \cup {leidas'}
      BY <1>1
    <3> QED BY <1>1, <1>5, <3>1 DEF Validas, Muestra
  <2>3. InvDatos'
    BY <1>1, <1>2, <2>1, <2>2 DEF IInv, InvDatos
  <2> QED BY <1>1, <2>3 DEF IInv, InvModelo, InvCruzada, LeerLinea, cruzada
<1> QED BY <1>4, <1>5

\* shuffle starts at the last sample (naive_bayes.c:138).
LEMMA FinDeCargaInv ==
    ASSUME IInv, FinDeCarga
    PROVE  IInv'
<1>1. /\ lineas' = lineas /\ leidas' = leidas /\ data' = data /\ Validas' = Validas
      /\ fase = "carga" /\ fase' # "pliegues" /\ vuelta' = vuelta
  BY DEF FinDeCarga, carga, cruzada, Validas, Muestra
<1>2. fase' = "baraja" => i' \in 0..(Len(data) - 1)
  <2> SUFFICES ASSUME fase' = "baraja" PROVE i' \in 0..(Len(data) - 1)
    OBVIOUS
  <2>1. data # <<>> /\ i' = Len(data) - 1
    BY DEF FinDeCarga
  <2>2. data \in Seq(Validas)
    BY DEF IInv, InvDatos
  <2>3. Len(data) \in Nat /\ Len(data) # 0
    BY <2>1, <2>2
  <2> QED BY <2>1, <2>3
<1>3. InvDatos'
  BY <1>1, <1>2 DEF IInv, InvDatos, FinDeCarga
<1> QED BY <1>1, <1>3 DEF IInv, InvModelo, InvCruzada

\* A swap keeps every sample, once.
LEMMA BarajarInv ==
    ASSUME IInv, Barajar
    PROVE  IInv'
<1>1. /\ lineas' = lineas /\ leidas' = leidas /\ Validas' = Validas /\ vuelta' = vuelta
      /\ fase = "baraja" /\ fase' = "baraja" /\ i > 0 /\ i' = i - 1
  BY DEF Barajar, carga, cruzada, Validas, Muestra
<1>2. PICK j \in 0..i : data' = [data EXCEPT ![i + 1] = data[j + 1], ![j + 1] = data[i + 1]]
  BY DEF Barajar
<1>3. /\ Len(data) \in Nat /\ i \in 0..(Len(data) - 1) /\ DOMAIN data = 1..Len(data)
      /\ data \in [1..Len(data) -> Validas]
  BY <1>1 DEF IInv, InvDatos
<1>4. i + 1 \in DOMAIN data /\ j + 1 \in DOMAIN data /\ i' \in 0..(Len(data) - 1)
  BY <1>1, <1>2, <1>3
<1>5. /\ DOMAIN data' = DOMAIN data /\ data' \in Seq(Validas) /\ Len(data') = Len(data)
      /\ data'[i + 1] = data[j + 1] /\ data'[j + 1] = data[i + 1]
      /\ \A n \in DOMAIN data : n # i + 1 /\ n # j + 1 => data'[n] = data[n]
  BY <1>2, <1>3, <1>4
<1>6. \A n, m \in DOMAIN data' : data'[n] = data'[m] => n = m
  BY <1>4, <1>5 DEF IInv, InvDatos
<1>7. \A x \in Validas : \E n \in DOMAIN data' : data'[n] = x
  <2> SUFFICES ASSUME NEW x \in Validas PROVE \E n \in DOMAIN data' : data'[n] = x
    OBVIOUS
  <2>1. PICK n \in DOMAIN data : data[n] = x
    BY DEF IInv, InvDatos
  <2>2. data'[n] = x \/ data'[i + 1] = x \/ data'[j + 1] = x
    BY <1>5, <2>1
  <2> QED BY <1>4, <1>5, <2>2
<1>8. InvDatos'
  BY <1>1, <1>4, <1>5, <1>6, <1>7 DEF IInv, InvDatos
<1> QED BY <1>1, <1>8 DEF IInv, InvModelo, InvCruzada

\* Training with a and testing with b keeps what is said of the sets in use.
LEMMA ModeloInv ==
    ASSUME UNCHANGED <<lineas, data>>, NEW a, NEW b, Modelo(a, b),
           a \cup b = Posiciones, a \cap b = {}
    PROVE  InvModelo'
<1>1. train' = a /\ test' = b /\ counts' = Entrenado(a)
  BY DEF Modelo
<1>2. PICK pred \in Predichas(a, b) : conf' = Evaluar(b, pred)
  BY DEF Modelo
<1>3. pred \in Predichas(a, b)'
  BY MismasMuestras
<1>4. train' \cup test' = Posiciones' /\ train' \cap test' = {}
  BY <1>1, MismasMuestras
<1>5. counts' = Entrenado(a)' /\ conf' = Evaluar(b, pred)'
  BY <1>1, <1>2, MismasMuestras
<1> QED BY <1>1, <1>2, <1>3, <1>4, <1>5 DEF InvModelo

\* idx is a bijection onto the samples of a class and the cut is within it.
LEMMA DividirInv ==
    ASSUME IInv, Dividir
    PROVE  IInv'
<1>1. /\ lineas' = lineas /\ leidas' = leidas /\ data' = data /\ Validas' = Validas
      /\ fase = "baraja" /\ fase' = "pliegues" /\ UNCHANGED cruzada
      /\ UNCHANGED <<carga, data, i>>
  BY DEF Dividir, carga, Validas, Muestra
<1>2. InvDatos /\ InvDatos'
  BY <1>1, MismosDatos DEF IInv
<1> DEFINE Entrena(c) == {idx(c)[r] : r \in 0..(Corte(cnt(c)) - 1)}
           Prueba(c) == {idx(c)[r] : r \in Corte(cnt(c))..(cnt(c) - 1)}
           a == UNION {Entrena(c) : c \in Clases}
           b == UNION {Prueba(c) : c \in Clases}
<1>3. \A c \in Clases : /\ cnt(c) \in Nat /\ Corte(cnt(c)) \in 0..cnt(c)
  BY <1>2, Puestos, CorteDentro
<1>4. ASSUME NEW c \in Clases, NEW n \in Entrena(c)
      PROVE  n \in DeClase(Posiciones, c) /\ Puesto(n) < Corte(cnt(c))
  <2>1. PICK r \in 0..(Corte(cnt(c)) - 1) : n = idx(c)[r]
    BY <1>4
  <2>2. r \in 0..(cnt(c) - 1) /\ r < Corte(cnt(c))
    BY <1>3, <2>1
  <2> QED BY <1>2, <2>1, <2>2, IdxEs
<1>5. ASSUME NEW c \in Clases, NEW n \in Prueba(c)
      PROVE  n \in DeClase(Posiciones, c) /\ Puesto(n) >= Corte(cnt(c))
  <2>1. PICK r \in Corte(cnt(c))..(cnt(c) - 1) : n = idx(c)[r]
    BY <1>5
  <2>2. r \in 0..(cnt(c) - 1) /\ r >= Corte(cnt(c))
    BY <1>3, <2>1
  <2> QED BY <1>2, <2>1, <2>2, IdxEs
<1>6. ASSUME NEW n \in Posiciones PROVE n \in a \cup b
  <2>1. PICK c \in Clases : n \in DeClase(Posiciones, c)
    BY <1>2, PosicionesSon DEF DeClase
  <2>2. Puesto(n) \in 0..(cnt(c) - 1) /\ n = idx(c)[Puesto(n)]
    BY <1>2, <2>1, Puestos, IdxEs
  <2>3. CASE Puesto(n) < Corte(cnt(c))
    <3>1. Puesto(n) \in 0..(Corte(cnt(c)) - 1)
      BY <1>3, <2>2, <2>3
    <3>2. n \in Entrena(c)
      BY <2>2, <3>1
    <3> QED BY <3>2
  <2>4. CASE ~(Puesto(n) < Corte(cnt(c)))
    <3>1. Puesto(n) \in Corte(cnt(c))..(cnt(c) - 1)
      BY <1>3, <2>2, <2>4
    <3>2. n \in Prueba(c)
      BY <2>2, <3>1
    <3> QED BY <3>2
  <2> QED BY <2>3, <2>4
<1>7. a \subseteq Posiciones /\ b \subseteq Posiciones
  BY <1>4, <1>5 DEF DeClase
<1>8. ASSUME NEW n \in a, n \in b PROVE FALSE
  <2>1. PICK c \in Clases : n \in Entrena(c)
    OBVIOUS
  <2>2. PICK d \in Clases : n \in Prueba(d)
    BY <1>8
  <2>3. c = d /\ n \in DeClase(Posiciones, c) /\ Puesto(n) < Corte(cnt(c)) /\ Puesto(n) >= Corte(cnt(c))
    BY <1>4, <1>5, <2>1, <2>2 DEF DeClase
  <2>4. Puesto(n) \in Int /\ Corte(cnt(c)) \in Int
    BY <1>2, <1>3, <2>3, Puestos
  <2> QED BY <2>3, <2>4
<1>9. Modelo(a, b)
  BY DEF Dividir
<1> HIDE DEF a, b
<1>10. InvModelo'
  BY <1>1, <1>6, <1>7, <1>8, <1>9, ModeloInv
<1>11. InvCruzada'
  <2>1. vuelta' = vuelta /\ vuelta \in 0..Len(Ks) /\ vuelta = 0
    BY <1>1 DEF cruzada, IInv, InvCruzada
  <2> QED BY <1>1, <2>1 DEF InvCruzada
<1> QED BY <1>2, <1>10, <1>11 DEF IInv

\* Every k is positive.
LEMMA KsSon == Len(Ks) \in Nat /\ \A v \in 1..Len(Ks) : Ks[v] \in Nat /\ Ks[v] > 0
<1> DEFINE K == 1..32
<1>1. Ks \in Seq(K)
  BY KsAssumption
<1>2. \A k \in K : k \in Nat /\ k > 0
  OBVIOUS
<1> HIDE DEF K
<1> QED BY <1>1, <1>2

\* Every sample is dealt to a fold before the first of them is tested.
LEMMA EmpezarVueltaInv ==
    ASSUME IInv, EmpezarVuelta
    PROVE  IInv'
<1>1. /\ UNCHANGED <<lineas, data>> /\ UNCHANGED <<carga, data, i>> /\ UNCHANGED modelo
      /\ fase = "pliegues" /\ fase' = "pliegues"
  BY DEF EmpezarVuelta, carga
<1>2. InvDatos'
  BY <1>1, MismosDatos DEF IInv
<1>3. InvModelo'
  <2>1. /\ train' = train /\ test' = test /\ counts' = counts /\ conf' = conf
    BY <1>1 DEF modelo
  <2> QED BY <1>1, <2>1, MismasMuestras DEF IInv, InvModelo
<1>4. InvCruzada'
  <2>1. /\ vuelta' = vuelta + 1 /\ f' = 0 /\ fold_of' = Reparto(Ks[vuelta']) /\ accs' = <<>>
        /\ vuelta \in 0..Len(Ks) /\ vuelta < Len(Ks)
    BY DEF EmpezarVuelta, IInv, InvCruzada
  <2>2. vuelta' \in 1..Len(Ks) /\ Ks[vuelta'] \in Nat
    BY <2>1, KsSon
  <2>3. \A k : Reparto(k)' = Reparto(k)
    BY <1>1, MismasMuestras
  <2>4. accs' \in Seq([correct : Nat, total : Nat]) /\ Len(accs') = 0
    BY <2>1
  <2>5. vuelta' \in 0..Len(Ks) /\ f' \in 0..Ks[vuelta'] /\ 1..f' = {}
    BY <2>1, <2>2, KsSon
  <2>6. fase' \notin {"carga", "baraja"}
    BY <1>1
  <2> QED BY <2>1, <2>3, <2>4, <2>5, <2>6 DEF InvCruzada
<1> QED BY <1>2, <1>3, <1>4 DEF IInv

\* The total of a fold is the number of its samples, whatever was predicted.
LEMMA PliegueInv ==
    ASSUME IInv, Pliegue
    PROVE  IInv'
<1>1. /\ UNCHANGED <<lineas, data>> /\ UNCHANGED <<carga, data, i>>
      /\ fase = "pliegues" /\ fase' = "pliegues" /\ vuelta > 0 /\ f < Ks[vuelta]
      /\ f' = f + 1 /\ vuelta' = vuelta /\ fold_of' = fold_of
      /\ accs' = Append(accs, Aciertos(conf'))
  BY DEF Pliegue, carga
<1>2. InvDatos /\ InvDatos'
  BY <1>1, MismosDatos DEF IInv
<1> DEFINE nte == {n \in Posiciones : fold_of[n] = f}
<1>3. Modelo(Posiciones \ nte, nte)
  BY DEF Pliegue, Posiciones
<1>4. nte \subseteq Posiciones
  OBVIOUS
<1>5. InvModelo'
  <2> HIDE DEF nte
  <2>1. (Posiciones \ nte) \cup nte = Posiciones /\ (Posiciones \ nte) \cap nte = {}
    BY <1>4
  <2> QED BY <1>1, <1>3, <2>1, ModeloInv
<1>6. Aciertos(conf') \in [correct : Nat, total : Nat] /\ Aciertos(conf').total = Cardinality(nte)
  <2> HIDE DEF nte
  <2>1. PICK pred \in Predichas(Posiciones \ nte, nte) : conf' = Evaluar(nte, pred)
    BY <1>3 DEF Modelo
  <2>2. \A n \in nte : pred[n] \in Clases
    BY <2>1 DEF Predichas
  <2> QED BY <1>2, <1>4, <2>1, <2>2, EvaluarEs
<1>7. /\ vuelta \in 1..Len(Ks) /\ f \in 0..Ks[vuelta] /\ Ks[vuelta] \in Nat
      /\ accs \in Seq([correct : Nat, total : Nat]) /\ Len(accs) = f
      /\ fold_of = Reparto(Ks[vuelta])
      /\ \A a \in 1..f : accs[a].total = Cardinality({n \in Posiciones : fold_of[n] = a - 1})
  <2>1. vuelta \in 1..Len(Ks)
    BY <1>1, KsSon DEF IInv, InvCruzada
  <2> QED BY <1>1, <2>1, KsSon DEF IInv, InvCruzada
<1>8. (\A k : Reparto(k)' = Reparto(k)) /\ Posiciones' = Posiciones
  BY <1>1, MismasMuestras
<1>9. ASSUME NEW a \in 1..(f + 1)
      PROVE  accs'[a].total = Cardinality({n \in Posiciones : fold_of[n] = a - 1})
  <2>1. CASE a \in 1..f
    <3>1. accs'[a] = accs[a]
      BY <1>1, <1>6, <1>7, <2>1
    <3> QED BY <1>7, <2>1, <3>1
  <2>2. CASE a = f + 1
    <3>1. accs'[a] = Aciertos(conf')
      BY <1>1, <1>6, <1>7, <2>2
    <3>2. a - 1 = f
      BY <1>7, <2>2
    <3> QED BY <1>6, <3>1, <3>2
  <2> QED BY <1>7, <2>1, <2>2
<1>10. accs' \in Seq([correct : Nat, total : Nat]) /\ Len(accs') = f + 1 /\ f + 1 \in 0..Ks[vuelta]
  <2> DEFINE R == [correct : Nat, total : Nat]
             x == Aciertos(conf')
  <2>1. accs \in Seq(R) /\ x \in R /\ accs' = Append(accs, x)
    BY <1>1, <1>6, <1>7
  <2> HIDE DEF R, x
  <2>2. accs' \in Seq(R) /\ Len(accs') = f + 1
    BY <1>7, <2>1
  <2>3. f + 1 \in 0..Ks[vuelta]
    <3>1. f \in Nat /\ Ks[vuelta] \in Nat /\ f < Ks[vuelta]
      BY <1>1, <1>7
    <3> QED BY <3>1
  <2> QED BY <2>2, <2>3 DEF R
<1>11. InvCruzada'
  <2>1. vuelta' \in 0..Len(Ks) /\ fase' \notin {"carga", "baraja"}
    BY <1>1, <1>7, KsSon
  <2>2. f' \in 0..Ks[vuelta'] /\ accs' \in Seq([correct : Nat, total : Nat]) /\ Len(accs') = f'
    BY <1>1, <1>10
  <2>3. fold_of' = Reparto(Ks[vuelta])'
    BY <1>1, <1>7, <1>8
  <2>4. \A a \in 1..f' : accs'[a].total = Cardinality({n \in Posiciones' : fold_of'[n] = a - 1})
    BY <1>1, <1>8, <1>9
  <2> QED BY <2>1, <2>2, <2>3, <2>4 DEF InvCruzada
<1> QED BY <1>2, <1>5, <1>11 DEF IInv

\* Every step keeps the invariant.
LEMMA PasoInv == IInv /\ [Next]_vars => IInv'
<1> SUFFICES ASSUME IInv, [Next]_vars PROVE IInv'
  OBVIOUS
<1>1. CASE UNCHANGED vars
  <2>1. /\ fase' = fase /\ UNCHANGED <<lineas, leidas, data, i, train, test, counts, conf>>
        /\ UNCHANGED <<vuelta, f, fold_of, accs>>
    BY <1>1 DEF vars, carga, modelo, cruzada
  <2>2. InvDatos'
    BY <2>1 DEF IInv, InvDatos, Validas, Muestra
  <2>4. InvModelo'
    BY <2>1, MismasMuestras DEF IInv, InvModelo
  <2>5. InvCruzada'
    BY <2>1, MismasMuestras DEF IInv, InvCruzada
  <2> QED BY <2>2, <2>4, <2>5 DEF IInv
<1>2. CASE Terminar
  <2>1. /\ UNCHANGED <<carga, data, i>> /\ UNCHANGED <<lineas, data>> /\ fase = "pliegues" /\ fase' = "fin"
        /\ vuelta' = vuelta
    BY <1>2 DEF Terminar, carga, cruzada
  <2>2. InvDatos'
    BY <2>1, MismosDatos DEF IInv
  <2> QED BY <2>1, <2>2 DEF IInv, InvModelo, InvCruzada
<1> QED
  BY <1>1, <1>2, LeerLineaInv, FinDeCargaInv, BarajarInv, DividirInv, EmpezarVueltaInv, PliegueInv
     DEF Next, Terminado

-----------------------------------------------------------------------------
(* Remainders *)

\* What the remainder is.
LEMMA Division ==
    ASSUME NEW k \in Int, k > 0, NEW n \in Int
    PROVE  n % k = n - k * (n \div k) /\ n \div k \in Int /\ n % k \in 0..(k - 1)
<1>1. n % k = n - k * (n \div k)
  OBVIOUS
<1>2. n \div k \in Int
  OBVIOUS
<1>3. n % k \in 0..(k - 1)
  OBVIOUS
<1> QED BY <1>1, <1>2, <1>3

LEMMA ProductoNatural ==
    ASSUME NEW k \in Nat, NEW x \in Nat
    PROVE  k * x \in Nat
OBVIOUS

\* A multiple of k nearer to 0 than k is 0.
LEMMA MultiploCorto ==
    ASSUME NEW k \in Int, k > 0, NEW x \in Int, k * x < k, -k < k * x
    PROVE  x = 0
<1>1. ASSUME x >= 1 PROVE FALSE
  <2>1. k * (x - 1) \in Nat
    BY <1>1, ProductoNatural
  <2>2. k * (x - 1) = k * x - k
    OBVIOUS
  <2> QED BY <2>1, <2>2
<1>2. ASSUME x <= -1 PROVE FALSE
  <2>1. k * (-x - 1) \in Nat
    BY <1>2, ProductoNatural
  <2>2. k * (-x - 1) = -(k * x) - k
    OBVIOUS
  <2> QED BY <2>1, <2>2
<1> QED BY <1>1, <1>2

\* Moving n by d moves its remainder by d, if there is room for it.
LEMMA RestoMovido ==
    ASSUME NEW k \in Int, k > 0, NEW n \in Int, NEW d \in Int, (n % k) + d \in 0..(k - 1)
    PROVE  (n + d) % k = (n % k) + d
<1> DEFINE a == n % k
           b == (n + d) % k
           q == n \div k
           p == (n + d) \div k
<1>1. a = n - k * q /\ q \in Int /\ a \in Int
  BY Division
<1>2. b = (n + d) - k * p /\ p \in Int /\ b \in 0..(k - 1)
  <2>1. n + d \in Int
    OBVIOUS
  <2> QED BY <2>1, Division
<1>3. a + d \in 0..(k - 1)
  OBVIOUS
<1> HIDE DEF a, b, p, q
<1>4. k * (p - q) = k * p - k * q
  BY <1>1, <1>2
<1>5. k * (p - q) = a + d - b
  BY <1>1, <1>2, <1>4
<1>6. p - q = 0
  <2>1. k * (p - q) < k /\ -k < k * (p - q)
    BY <1>1, <1>2, <1>3, <1>5
  <2>2. p - q \in Int
    BY <1>1, <1>2
  <2> QED BY <2>1, <2>2, MultiploCorto
<1>7. a + d - b = 0
  BY <1>5, <1>6
<1>8. b = a + d
  BY <1>1, <1>2, <1>7
<1> QED BY <1>8 DEF a, b

\* Taking k away leaves the remainder as it was.
LEMMA RestoSinVuelta ==
    ASSUME NEW k \in Int, k > 0, NEW n \in Int
    PROVE  (n - k) % k = n % k
<1> DEFINE a == n % k
           b == (n - k) % k
           q == n \div k
           p == (n - k) \div k
<1>1. a = n - k * q /\ q \in Int /\ a \in 0..(k - 1)
  BY Division
<1>2. b = (n - k) - k * p /\ p \in Int /\ b \in 0..(k - 1)
  <2>1. n - k \in Int
    OBVIOUS
  <2> QED BY <2>1, Division
<1> HIDE DEF a, b, p, q
<1>3. k * (p - q + 1) = k * p - k * q + k
  BY <1>1, <1>2
<1>4. k * (p - q + 1) = a - b
  BY <1>1, <1>2, <1>3
<1>5. p - q + 1 = 0
  <2>1. k * (p - q + 1) < k /\ -k < k * (p - q + 1)
    BY <1>1, <1>2, <1>4
  <2>2. p - q + 1 \in Int
    BY <1>1, <1>2
  <2> QED BY <2>1, <2>2, MultiploCorto
<1>6. a = b
  BY <1>1, <1>2, <1>4, <1>5
<1> QED BY <1>6 DEF a, b

LEMMA RestoDePequeno ==
    ASSUME NEW k \in Int, k > 0, NEW n \in 0..(k - 1)
    PROVE  n % k = n
OBVIOUS

\* Of the numbers below t, those that leave b are at most one fewer than those that leave a.
LEMMA RestosNivelados ==
    ASSUME NEW k \in Int, k > 0, NEW t \in Nat, NEW a \in 0..(k - 1), NEW b \in 0..(k - 1),
           NEW Ra, Ra = {r \in 0..(t - 1) : r % k = a},
           NEW Rb, Rb = {r \in 0..(t - 1) : r % k = b}
    PROVE  /\ IsFiniteSet(Ra) /\ IsFiniteSet(Rb)
           /\ Cardinality(Ra) <= Cardinality(Rb) + 1
<1>0. IsFiniteSet(Ra) /\ IsFiniteSet(Rb) /\ Cardinality(Ra) \in Nat /\ Cardinality(Rb) \in Nat
  <2>1. 0 \in Int /\ t - 1 \in Int
    OBVIOUS
  <2>2. IsFiniteSet(0..(t - 1))
    BY <2>1, FS_Interval
  <2>3. Ra \subseteq 0..(t - 1) /\ Rb \subseteq 0..(t - 1)
    OBVIOUS
  <2> QED BY <2>2, <2>3, FS_Subset, FS_CardinalityType
<1>1. CASE b <= a
  <2> DEFINE g == [r \in Ra |-> r + (b - a)]
  <2>1. ASSUME NEW r \in Ra PROVE r + (b - a) \in Rb
    <3>1. r \in Int /\ b - a \in Int /\ (r % k) + (b - a) \in 0..(k - 1)
      OBVIOUS
    <3>2. (r + (b - a)) % k = (r % k) + (b - a)
      BY <3>1, RestoMovido
    <3>3. r >= a
      <4>1. CASE r < k
        <5>1. r \in 0..(k - 1)
          BY <4>1
        <5>2. r % k = r
          BY <5>1, RestoDePequeno
        <5> QED BY <5>2
      <4>2. CASE r >= k
        BY <4>2
      <4> QED BY <4>1, <4>2
    <3>4. r + (b - a) \in 0..(t - 1)
      BY <1>1, <3>3
    <3>5. (r + (b - a)) % k = b
      BY <3>2
    <3> QED BY <3>4, <3>5
  <2>2. g \in Injection(Ra, Rb)
    <3>1. g \in [Ra -> Rb]
      BY <2>1
    <3>2. \A r, s \in Ra : g[r] = g[s] => r = s
      OBVIOUS
    <3> QED BY <3>1, <3>2 DEF Injection, IsInjective
  <2> HIDE DEF g
  <2>3. Cardinality(Ra) <= Cardinality(Rb)
    BY <1>0, <2>2, FS_Injection
  <2> QED BY <1>0, <2>3
<1>2. CASE b > a
  <2> DEFINE S == Ra \ {a}
             g == [r \in S |-> r - k + (b - a)]
  <2>0. IsFiniteSet(S) /\ Cardinality(Ra) <= Cardinality(S) + 1
    <3> HIDE DEF S
    <3>1. S = Ra \ {a}
      BY DEF S
    <3>2. Cardinality(S) = Cardinality(Ra) - 1 \/ Cardinality(S) = Cardinality(Ra)
      BY <1>0, <3>1, FS_RemoveElement
    <3>3. IsFiniteSet(S)
      BY <1>0, <3>1, FS_RemoveElement
    <3> QED BY <1>0, <3>2, <3>3
  <2>1. ASSUME NEW r \in S PROVE r - k + (b - a) \in Rb
    <3>1. r - k \in Int /\ b - a \in Int
      OBVIOUS
    <3>2. (r - k) % k = a
      <4>1. r \in Int /\ r % k = a
        OBVIOUS
      <4> QED BY <4>1, RestoSinVuelta
    <3>3. ((r - k) % k) + (b - a) \in 0..(k - 1)
      BY <3>2
    <3>4. (r - k + (b - a)) % k = ((r - k) % k) + (b - a)
      BY <3>1, <3>3, RestoMovido
    <3>5. r >= k
      <4>1. CASE r < k
        <5>1. r \in 0..(k - 1) /\ r % k = a /\ r # a
          BY <4>1
        <5>2. r % k = r
          BY <5>1, RestoDePequeno
        <5> QED BY <5>1, <5>2
      <4>2. CASE r >= k
        BY <4>2
      <4> QED BY <4>1, <4>2
    <3>6. r - k + (b - a) \in 0..(t - 1)
      BY <1>2, <3>5
    <3>7. (r - k + (b - a)) % k = b
      BY <3>2, <3>4
    <3> QED BY <3>6, <3>7
  <2>2. g \in Injection(S, Rb)
    <3>1. g \in [S -> Rb]
      BY <2>1
    <3>2. \A r, s \in S : g[r] = g[s] => r = s
      OBVIOUS
    <3> QED BY <3>1, <3>2 DEF Injection, IsInjective
  <2> HIDE DEF g, S
  <2>3. Cardinality(S) <= Cardinality(Rb)
    BY <1>0, <2>0, <2>2, FS_Injection
  <2>4. Cardinality(S) \in Nat
    BY <2>0, FS_CardinalityType
  <2> QED BY <1>0, <2>0, <2>3, <2>4
<1> QED BY <1>0, <1>1, <1>2

\* A fold has as many samples of a class as places of the class leave its number.
LEMMA PlieguePorPuestos ==
    ASSUME InvDatos, NEW c \in Clases, NEW k \in Int, k > 0, fold_of = Reparto(k), NEW a,
           NEW R, R = {r \in 0..(cnt(c) - 1) : r % k = a}, IsFiniteSet(R)
    PROVE  Cardinality(DelPliegue(a, c)) = Cardinality(R)
<1> DEFINE D == DelPliegue(a, c)
           g == [n \in D |-> Puesto(n)]
<1>1. D = {n \in DeClase(Posiciones, c) : Puesto(n) % k = a}
  BY DEF DelPliegue, Reparto, Posiciones, DeClase
<1>2. g \in [D -> R]
  BY <1>1, Puestos
<1>3. g \in Bijection(D, R)
  <2>1. \A n, m \in D : g[n] = g[m] => n = m
    BY <1>1, Puestos
  <2>2. ASSUME NEW r \in R PROVE \E n \in D : g[n] = r
    <3>1. PICK n \in DeClase(Posiciones, c) : Puesto(n) = r
      BY Puestos
    <3>2. n \in D
      BY <1>1, <3>1
    <3> QED BY <3>1, <3>2
  <2> QED BY <1>2, <2>1, <2>2 DEF Bijection, Injection, Surjection, IsInjective
<1> HIDE DEF D, g
<1>4. IsFiniteSet(D)
  <2>1. g \in Injection(D, R)
    BY <1>3 DEF Bijection
  <2> QED BY <2>1, FS_Injection
<1>5. Cardinality(D) = Cardinality(R)
  BY <1>3, <1>4, FS_Bijection DEF ExistsBijection
<1> QED BY <1>5 DEF D

-----------------------------------------------------------------------------
(* The theorems *)

\* Every valid line is a sample once, and every sample is in the training or the test set,
\* and in one of them only, in the split and in every fold (naive_bayes.c:89-129, 137-142,
\* 271-286, 302-311).
THEOREM CadaMuestraUnaVez == Spec => []ParticionExacta
<1>1. IInv => ParticionExacta
  <2> SUFFICES ASSUME IInv PROVE ParticionExacta
    OBVIOUS
  <2>0. InvDatos
    BY DEF IInv
  <2>1. ASSUME NEW x \in Validas PROVE Veces(data, x) = 1
    <3>1. PICK n \in DOMAIN data : data[n] = x
      BY <2>0 DEF InvDatos
    <3>2. {m \in DOMAIN data : data[m] = x} = {n}
      BY <2>0, <3>1 DEF InvDatos
    <3>3. Cardinality({n}) = 1
      BY FS_Singleton
    <3> QED BY <3>2, <3>3 DEF Veces
  <2>2. Len(data) = Cardinality(Validas)
    <3> DEFINE V == Validas
    <3>1. IsFiniteSet(Posiciones) /\ Cardinality(Posiciones) = Len(data) /\ Posiciones = 1..Len(data)
      BY <2>0, PosicionesSon
    <3>2. data \in [Posiciones -> V]
      BY <2>0, <3>1 DEF InvDatos
    <3>3. data \in Bijection(Posiciones, V)
      BY <2>0, <3>2 DEF InvDatos, Posiciones, Bijection, Injection, Surjection, IsInjective
    <3> HIDE DEF V
    <3>4. Cardinality(Posiciones) = Cardinality(V)
      BY <3>1, <3>3, FS_Bijection DEF ExistsBijection
    <3> QED BY <3>1, <3>4 DEF V
  <2> QED BY <2>1, <2>2 DEF IInv, InvDatos, InvModelo, Posiciones, ParticionExacta
<1> QED BY <1>1, InicioInv, PasoInv, PTL DEF Spec

\* Two folds differ by one sample of a class at most, and one that tests nothing comes only
\* of classes that are all smaller than the number of folds (naive_bayes.c:290-316).
THEOREM PlieguesNivelados == Spec => []PlieguesEquilibrados
<1>1. IInv => PlieguesEquilibrados
  <2> SUFFICES ASSUME IInv, fase = "pliegues", vuelta > 0
               PROVE  /\ \A c \in Clases : \A a, b \in 0..(Ks[vuelta] - 1) :
                            Cardinality(DelPliegue(a, c)) <= Cardinality(DelPliegue(b, c)) + 1
                      /\ \A a \in DOMAIN accs : accs[a].total = 0 =>
                            \A c \in Clases : cnt(c) < Ks[vuelta]
    BY DEF PlieguesEquilibrados
  <2> DEFINE k == Ks[vuelta]
  <2>0. /\ InvDatos /\ k \in Int /\ k > 0 /\ fold_of = Reparto(k)
        /\ f \in 0..k /\ DOMAIN accs = 1..f
        /\ \A a \in 1..f : accs[a].total = Cardinality({n \in Posiciones : fold_of[n] = a - 1})
    <3>1. vuelta \in 1..Len(Ks)
      BY KsSon DEF IInv, InvCruzada
    <3>2. f \in Nat
      BY <3>1, KsSon DEF IInv, InvCruzada
    <3>3. DOMAIN accs = 1..f
      BY <3>2 DEF IInv, InvCruzada
    <3> QED BY <3>1, <3>3, KsSon DEF IInv, InvCruzada
  <2> HIDE DEF k
  <2>1. ASSUME NEW c \in Clases, NEW a \in 0..(k - 1), NEW b \in 0..(k - 1)
        PROVE  Cardinality(DelPliegue(a, c)) <= Cardinality(DelPliegue(b, c)) + 1
    <3> DEFINE Ra == {r \in 0..(cnt(c) - 1) : r % k = a}
               Rb == {r \in 0..(cnt(c) - 1) : r % k = b}
    <3>1. cnt(c) \in Nat
      BY <2>0, Puestos
    <3>2. IsFiniteSet(Ra) /\ IsFiniteSet(Rb) /\ Cardinality(Ra) <= Cardinality(Rb) + 1
      BY <2>0, <3>1, RestosNivelados
    <3>3. Cardinality(DelPliegue(a, c)) = Cardinality(Ra)
      BY <2>0, <3>2, PlieguePorPuestos
    <3>4. Cardinality(DelPliegue(b, c)) = Cardinality(Rb)
      BY <2>0, <3>2, PlieguePorPuestos
    <3> QED BY <3>2, <3>3, <3>4
  <2>2. ASSUME NEW a \in DOMAIN accs, accs[a].total = 0, NEW c \in Clases PROVE cnt(c) < k
    <3> DEFINE P == {n \in Posiciones : fold_of[n] = a - 1}
    <3>1. IsFiniteSet(P) /\ Cardinality(P) = 0 /\ a \in 1..f
      BY <2>0, <2>2, PosicionesSon, FS_Subset
    <3>2. P = {}
      BY <3>1, FS_EmptySet
    <3>3. cnt(c) \in Nat
      BY <2>0, Puestos
    <3> SUFFICES ASSUME cnt(c) >= k PROVE FALSE
      BY <2>0, <3>3
    <3>4. a - 1 \in 0..(k - 1) /\ a - 1 \in 0..(cnt(c) - 1)
      BY <2>0, <3>1, <3>3
    <3>5. PICK n \in DeClase(Posiciones, c) : Puesto(n) = a - 1
      BY <2>0, <3>4, Puestos
    <3>6. n \in Posiciones /\ fold_of[n] = Puesto(n) % k
      BY <2>0, <3>5 DEF DeClase, Reparto, Posiciones
    <3>7. (a - 1) % k = a - 1
      BY <2>0, <3>4, RestoDePequeno
    <3> QED BY <3>2, <3>5, <3>6, <3>7
  <2> QED BY <2>1, <2>2 DEF k
<1> QED BY <1>1, InicioInv, PasoInv, PTL DEF Spec

\* Every test sample is counted once in the row of its class; no sample is predicted as a
\* class without training samples, except as the first one, and then only those samples for
\* which every posterior may be NaN (naive_bayes.c:182-222, 246-257).
THEOREM MatrizCuadra == Spec => []ConfusionCuadra
<1>1. IInv => ConfusionCuadra
  <2> SUFFICES ASSUME IInv, fase = "pliegues", NEW c \in Clases
               PROVE  /\ Metricas(conf, c).tp + Metricas(conf, c).fn = Cardinality(DeClase(test, c))
                      /\ counts[c] = 0 => Metricas(conf, c).tp + Metricas(conf, c).fp
                                            <= IF c = 0 THEN Cardinality(PorDefecto) ELSE 0
    BY DEF ConfusionCuadra
  <2>0. InvDatos /\ train \cup test = Posiciones /\ counts = Entrenado(train)
    BY DEF IInv, InvModelo
  <2>1. PICK pred \in Predichas(train, test) : conf = Evaluar(test, pred)
    BY DEF IInv, InvModelo
  <2>2. \A n \in test : pred[n] \in Clases /\ \E p \in LogP(train, n) : pred[n] = Mejor(p)
    BY <2>1 DEF Predichas
  <2>3. /\ Metricas(conf, c).tp + Metricas(conf, c).fn = Cardinality(DeClase(test, c))
        /\ Metricas(conf, c).tp + Metricas(conf, c).fp = Cardinality(Con(test, pred, c))
    BY <2>0, <2>1, <2>2, EvaluarEs
  <2>4. ASSUME counts[c] = 0
        PROVE  Cardinality(Con(test, pred, c)) <= IF c = 0 THEN Cardinality(PorDefecto) ELSE 0
    <3>1. DeClase(train, c) = {}
      <4>1. Cardinality(DeClase(train, c)) = 0 /\ IsFiniteSet(DeClase(train, c))
        BY <2>0, <2>4, DeClaseFinito DEF Entrenado
      <4> QED BY <4>1, FS_EmptySet
    <3>2. ASSUME NEW n \in Con(test, pred, c) PROVE c = 0 /\ n \in PorDefecto
      <4>1. n \in test /\ pred[n] = c
        BY DEF Con
      <4>2. PICK p \in LogP(train, n) : c = Mejor(p)
        BY <2>2, <4>1
      <4>3. /\ c = 0
            /\ (\A d \in Clases : DeClase(train, d) = {}) \/ \E m \in train \cup {n} : Desmedida(m)
        BY <3>1, <4>2, MejorEs
      <4>4. (\A d \in Clases : DeClase(train, d) = {}) => train = {}
        BY <2>0, PosicionesSon DEF DeClase
      <4> QED BY <4>1, <4>3, <4>4 DEF PorDefecto
    <3>3. IsFiniteSet(PorDefecto)
      <4>1. PorDefecto \subseteq test /\ IsFiniteSet(test)
        BY <2>0, DeClaseFinito DEF PorDefecto
      <4> QED BY <4>1, FS_Subset
    <3>4. CASE c = 0
      <4>1. Con(test, pred, c) \subseteq PorDefecto
        BY <3>2
      <4> QED BY <3>3, <3>4, <4>1, FS_Subset
    <3>5. CASE c # 0
      <4>1. Con(test, pred, c) = {}
        BY <3>2, <3>5
      <4> QED BY <3>5, <4>1, FS_EmptySet
    <3> QED BY <3>4, <3>5
  <2> QED BY <2>3, <2>4
<1> QED BY <1>1, InicioInv, PasoInv, PTL DEF Spec
=============================================================================
