------------------------------ MODULE NaiveBayes ------------------------------
(***************************************************************************)
(* master/sistemas-inteligentes/BAYES/naive_bayes.c: the classifier's work *)
(* on its samples: which lines of the file become samples, how they are    *)
(* shuffled, split into training and test, dealt into folds, and how the   *)
(* predictions are counted.                                                *)
(*                                                                         *)
(* A sample is the number of its line; features, means and variances are   *)
(* left out.  What they decide is the order of the classes' log_p for the  *)
(* sample at hand, and that is any order here; what the code fixes is the  *)
(* class that has no prior, the one that wins a tie, and what comes of a   *)
(* feature that is not finite or is so large that its square is not.       *)
(***************************************************************************)
EXTENDS Integers, Sequences, FiniteSets, Functions

CONSTANTS
    N_CLASSES,       \* 3
    MAX_SAMPLES,     \* 400
    Ks,              \* the k of each call of kfold_cv, in order: <<5, 10>>
    MaxLineas        \* bound: lines of the file

ASSUME ClasesAssumption == N_CLASSES \in Nat \ {0}
ASSUME SamplesAssumption == MAX_SAMPLES \in Nat
ASSUME KsAssumption == Ks \in Seq(1..32)   \* accs is double[32]
ASSUME LineasAssumption == MaxLineas \in Nat

Clases == 0..(N_CLASSES - 1)

\* What load_csv can make of a line: nothing (blank, or less than 11 fields), a line with
\* NA among its features, or a line with them all, whose last field names a class or none.
\* atof takes "nan", "inf" and 1e300 as numbers: such a line is a sample, of a kind of its own.
SinClase == -1
Linea == [campos : {"faltan", "NA"}, especie : {SinClase}]
         \cup [campos : {"completos"}, especie : Clases \cup {SinClase}]
         \cup [campos : {"desmedidos"}, especie : Clases]

VARIABLES
    fase,        \* where main is
    lineas,      \* the file, after its header
    leidas, na,  \* load_csv: lines read; lines with NA among them
    data,        \* the samples, in order
    i,           \* the loop of shuffle
    train, test, \* the sets in use, as the positions in data of their samples
    counts,      \* the model: training samples of each class (its prior, times ntrain)
    conf,        \* the confusion matrix
    vuelta, f, fold_of, accs   \* kfold_cv: which call; next fold; fold of each sample;
                               \* hits and tests of each fold so far

carga == <<lineas, leidas, na>>
modelo == <<train, test, counts, conf>>
cruzada == <<vuelta, f, fold_of, accs>>
vars == <<fase, carga, data, i, modelo, cruzada>>

Nada == [c \in Clases |-> 0]

Init ==
    /\ fase = "carga"
    /\ \E n \in 0..MaxLineas : lineas \in [1..n -> Linea]
    /\ leidas = 0 /\ na = 0 /\ data = <<>>
    /\ i = 0
    /\ train = {} /\ test = {} /\ counts = Nada /\ conf = [c \in Clases |-> Nada]
    /\ vuelta = 0 /\ f = 0 /\ fold_of = <<>> /\ accs = <<>>

\* The class of the sample at n, and whether it has a feature no finite arithmetic takes.
class_id(n) == lineas[data[n]].especie
Desmedida(n) == lineas[data[n]].campos = "desmedidos"

-----------------------------------------------------------------------------
(* load_csv *)

Muestra(l) == l.campos \in {"completos", "desmedidos"} /\ l.especie # SinClase

\* One turn of the loop: the line is skipped, counted as NA, or a sample.
LeerLinea ==
    /\ fase = "carga" /\ leidas < Len(lineas) /\ Len(data) < MAX_SAMPLES
    /\ leidas' = leidas + 1
    /\ na' = IF lineas[leidas'].campos = "NA" THEN na + 1 ELSE na
    /\ data' = IF Muestra(lineas[leidas']) THEN Append(data, leidas') ELSE data
    /\ UNCHANGED <<fase, lineas, i, modelo, cruzada>>

\* The end of the file, or of the array; without samples main returns.
FinDeCarga ==
    /\ fase = "carga" /\ (leidas = Len(lineas) \/ Len(data) = MAX_SAMPLES)
    /\ fase' = IF data = <<>> THEN "fin" ELSE "baraja"
    /\ i' = IF data = <<>> THEN i ELSE Len(data) - 1
    /\ UNCHANGED <<carga, data, modelo, cruzada>>

-----------------------------------------------------------------------------
(* shuffle *)

\* Fault: data[j] is written before it is kept.
BarajarSinGuardar ==
    /\ fase = "baraja" /\ i > 0
    /\ \E j \in 0..i : data' = [data EXCEPT ![j + 1] = data[i + 1]]
    /\ i' = i - 1
    /\ UNCHANGED <<fase, carga, modelo, cruzada>>

\* data[i] changes places with any data[j] up to it (C's indices start at 0).
Barajar ==
    /\ fase = "baraja" /\ i > 0
    /\ \E j \in 0..i : data' = [data EXCEPT ![i + 1] = data[j + 1], ![j + 1] = data[i + 1]]
    /\ i' = i - 1
    /\ UNCHANGED <<fase, carga, modelo, cruzada>>

-----------------------------------------------------------------------------
(* train_nb, predict, evaluate *)

\* Those of class c among the samples at s.
DeClase(s, c) == {n \in s : class_id(n) = c}

\* counts[c] of train_nb.
Entrenado(s) == [c \in Clases |-> Cardinality(DeClase(s, c))]

NaN == -1

\* Fault: a class without prior starts from 0 and competes with the rest.
LogPSinPrior(s, n) == [Clases -> 1..N_CLASSES]

\* What log_p may be for the sample at n after training with s, as an order: 0 stands for
\* -INFINITY, which a class without prior has.  A class with one has a finite log_p, unless
\* n or a sample of the class is out of measure: a mean, a variance or a square then is.
LogP(s, n) ==
    {p \in [Clases -> NaN..N_CLASSES] : \A c \in Clases :
        p[c] \in (IF DeClase(s, c) = {} THEN {0} ELSE 1..N_CLASSES)
                 \cup (IF \E m \in DeClase(s, c) \cup {n} : Desmedida(m) THEN {NaN, 0} ELSE {})}

\* best: the first of the largest.  One NaN makes every posterior NaN, and so does -INFINITY
\* for all; nothing is larger than posterior[0] then.
Mejor(p) == IF \E c \in Clases : p[c] = NaN THEN 0
            ELSE CHOOSE c \in Clases : \A d \in Clases : p[d] <= p[c] /\ (d < c => p[d] < p[c])

\* evaluate, when the sample at n is predicted as pred[n].
Evaluar(s, pred) ==
    [c \in Clases |-> [d \in Clases |-> Cardinality({n \in DeClase(s, c) : pred[n] = d})]]

\* What predict may say of each sample at b after training with a.
Predichas(a, b) == {pred \in [b -> Clases] : \A n \in b : \E p \in LogP(a, n) : pred[n] = Mejor(p)}

\* Train with a, test with b.
Modelo(a, b) ==
    /\ train' = a
    /\ test' = b
    /\ counts' = Entrenado(a)
    /\ \E pred \in Predichas(a, b) : conf' = Evaluar(b, pred)

\* print_metrics, of which precision, recall and F1 are quotients.
Metricas(m, c) ==
    [tp |-> m[c][c],
     fp |-> SumFunction([d \in Clases \ {c} |-> m[d][c]]),
     fn |-> SumFunction([d \in Clases \ {c} |-> m[c][d]])]

-----------------------------------------------------------------------------
(* stratified_split *)

\* i such that idx[c][i] = n: samples of its class before the one at n.
Puesto(n) == Cardinality(DeClase(1..(n - 1), class_id(n)))

cnt(c) == Cardinality(DeClase(DOMAIN data, c))
idx(c) == [r \in 0..(cnt(c) - 1) |-> CHOOSE n \in DeClase(DOMAIN data, c) : Puesto(n) = r]

\* (int)(n * 0.7) with doubles: 7n/10 rounded down, and one less when 7n/10 is whole and
\* its mantissa, over 7/4, leaves no room for the error of 0.7: 90 gives 62.
Corte(n) ==
    LET v == (7 * n) \div 10
        mantisaAlta == \E e \in 0..20 : 7 * 2 ^ e < 4 * v /\ v < 2 ^ (e + 1)
    IN  IF n > 0 /\ n % 10 = 0 /\ mantisaAlta THEN v - 1 ELSE v

\* Of each class, the first 70% train and the rest test.
Dividir ==
    /\ fase = "baraja" /\ i = 0
    /\ Modelo(UNION {{idx(c)[r] : r \in 0..(Corte(cnt(c)) - 1)} : c \in Clases},
              UNION {{idx(c)[r] : r \in Corte(cnt(c))..(cnt(c) - 1)} : c \in Clases})
    /\ fase' = "pliegues"
    /\ UNCHANGED <<carga, data, i, cruzada>>

-----------------------------------------------------------------------------
(* kfold_cv *)

\* Fault: the samples are dealt without looking at their class.
RepartoSinClase(k) == [n \in DOMAIN data |-> (n - 1) % k]

\* fold_of: the samples of each class are dealt in turn.
Reparto(k) == [n \in DOMAIN data |-> Puesto(n) % k]

VueltaHecha == f = IF vuelta = 0 THEN 0 ELSE Ks[vuelta]

\* kfold_cv, up to its loop over the folds.
EmpezarVuelta ==
    /\ fase = "pliegues" /\ vuelta < Len(Ks)
    /\ VueltaHecha
    /\ vuelta' = vuelta + 1
    /\ f' = 0
    /\ fold_of' = Reparto(Ks[vuelta'])
    /\ accs' = <<>>
    /\ UNCHANGED <<fase, carga, data, i, modelo>>

\* accuracy_from_conf, as hits and total; its quotient is 0 when nothing was tested.
Aciertos(m) ==
    [correct |-> SumFunction([c \in Clases |-> m[c][c]]),
     total |-> SumFunction([c \in Clases |-> SumFunction(m[c])])]

\* Train with all folds but f, test with f.
Pliegue ==
    /\ fase = "pliegues" /\ vuelta > 0 /\ f < Ks[vuelta]
    /\ LET nte == {n \in DOMAIN data : fold_of[n] = f}
       IN  Modelo(DOMAIN data \ nte, nte)
    /\ accs' = Append(accs, Aciertos(conf'))
    /\ f' = f + 1
    /\ UNCHANGED <<fase, carga, data, i, vuelta, fold_of>>

\* Both validations are done.
Terminar ==
    /\ fase = "pliegues" /\ vuelta = Len(Ks) /\ VueltaHecha
    /\ fase' = "fin"
    /\ UNCHANGED <<carga, data, i, modelo, cruzada>>

-----------------------------------------------------------------------------
Terminado == fase = "fin" /\ UNCHANGED vars

Next == \/ LeerLinea \/ FinDeCarga \/ Barajar \/ Dividir
        \/ EmpezarVuelta \/ Pliegue \/ Terminar \/ Terminado

Spec == Init /\ [][Next]_vars

-----------------------------------------------------------------------------
(* Properties *)

Validas == {n \in 1..leidas : Muestra(lineas[n])}
Veces(s, x) == Cardinality({n \in DOMAIN s : s[n] = x})

\* The lines of the file that have every feature and a known class, and no other, are the
\* samples, each once; and every sample is in the training set or the test set, and in one
\* of them only, in the split and in every fold.
ParticionExacta ==
    /\ \A n \in Validas : Veces(data, n) = 1
    /\ Len(data) = Cardinality(Validas)
    /\ fase # "carga" => leidas = Len(lineas) \/ Len(data) = MAX_SAMPLES
    /\ fase = "pliegues" => train \cup test = DOMAIN data /\ train \cap test = {}

DelPliegue(a, c) == {n \in DeClase(DOMAIN data, c) : fold_of[n] = a}

\* The folds are stratified: any two differ by one sample of each class at most.  So a
\* fold tests nothing, and counts as an accuracy of 0 in the mean, only when every class
\* has fewer samples than there are folds.
PlieguesEquilibrados ==
    fase = "pliegues" /\ vuelta > 0 =>
        /\ \A c \in Clases : \A a, b \in 0..(Ks[vuelta] - 1) :
              Cardinality(DelPliegue(a, c)) <= Cardinality(DelPliegue(b, c)) + 1
        /\ \A a \in DOMAIN accs : accs[a].total = 0 => \A c \in Clases : cnt(c) < Ks[vuelta]

\* Test samples for which best may be left at 0 with no class to blame: all of them when
\* there is no training sample, or one out of measure; else those out of measure.
PorDefecto ==
    IF train = {} \/ (\E n \in train : Desmedida(n)) THEN test ELSE {n \in test : Desmedida(n)}

\* The matrix counts every test sample once, in the row of its class.  The column of a class
\* without training samples is empty; that of the first class, which predict answers when
\* every posterior is NaN, has no more samples than those that can bring that about.
ConfusionCuadra ==
    fase = "pliegues" => \A c \in Clases :
        LET m == Metricas(conf, c)
        IN  /\ m.tp + m.fn = Cardinality(DeClase(test, c))
            /\ counts[c] = 0 => m.tp + m.fp <= IF c = 0 THEN Cardinality(PorDefecto) ELSE 0
=============================================================================
