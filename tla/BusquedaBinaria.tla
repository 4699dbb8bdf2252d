--------------------------- MODULE BusquedaBinaria ---------------------------
(***************************************************************************)
(* The arithmetic of one guessing session of adivinacion_distribuida_mpi.c:*)
(* process_pa proposes, process_pg compares.                               *)
(***************************************************************************)
EXTENDS Integers

CONSTANTS
    NumMax,     \* numMax of a new session: 999999
    Aleatorios  \* the values arrayNumeros may hold: rand() % 100000

ASSUME NumMaxAssumption == NumMax \in Nat \ {0}
ASSUME AleatoriosAssumption == Aleatorios \subseteq 0..(NumMax - 1)

MENOR == 1
MAYOR == 2
IGUAL == 3

\* numMedio of process_pa; C's / truncates, \div agrees with it on naturals.
Medio(numMin, numMax) == numMin + ((numMax - numMin) \div 2)

\* Fault: the comparison is the wrong way round.
CaracterInvertido(numAAdivinar, numMedio) ==
    IF numAAdivinar > numMedio THEN MENOR
    ELSE IF numAAdivinar < numMedio THEN MAYOR ELSE IGUAL

\* process_pg compares its number with the proposal.
Caracter(numAAdivinar, numMedio) ==
    IF numAAdivinar > numMedio THEN MAYOR
    ELSE IF numAAdivinar < numMedio THEN MENOR ELSE IGUAL

\* process_pa narrows its range.
NuevoMin(caracter, numMin, numMedio) == IF caracter = MAYOR THEN numMedio ELSE numMin

\* Fault: the upper bound moves one value at a time.
NuevoMaxLento(caracter, numMax, numMedio) == IF caracter = MENOR THEN numMax - 1 ELSE numMax

NuevoMax(caracter, numMax, numMedio) == IF caracter = MENOR THEN numMedio ELSE numMax

-----------------------------------------------------------------------------
(* How many answers a session takes *)

DosALa[n \in Nat] == IF n = 0 THEN 1 ELSE 2 * DosALa[n - 1]
Logaritmica(respuestas) == respuestas > 1 => DosALa[respuestas - 2] < NumMax

\* After c answers other than IGUAL the range has halved c times.
Mengua(ancho, c) ==
    /\ c \in Nat
    /\ (ancho - 1) * DosALa[c] < NumMax
    /\ c > 0 => DosALa[c - 1] < NumMax
=============================================================================
