----------------------------- MODULE MCNaiveBayes -----------------------------
(* Small instances of the classifier for TLC. *)
EXTENDS NaiveBayes

\* stratified_split with doubles: for the 400 sizes a class may have, never more than 70%
\* and never a whole sample less, except where the product falls short of 70%.
ASSUME CorteAssumption == \A n \in 0..400 :
    LET falta == 7 * n - 10 * Corte(n)
    IN  falta \in 0..10 /\ (falta = 10 <=> n \in {90, 170, 180, 330, 340, 350, 360})

KsMC == <<2, 3>>
=============================================================================
