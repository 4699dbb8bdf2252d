------------------------------- MODULE MCTrenes -------------------------------
(* Small maps for TLC: a side track per train that leads to a shared loop. *)
EXTENDS Trenes, TLC

CONSTANTS t1, t2

\* Cells 1..4 are the loop, run in both directions; 5 and 6 the ways in.
CasillasMC == 1..6
EntradaMC == (t1 :> 5 @@ t2 :> 6)
VecinasMC == [c \in CasillasMC |->
                CASE c = 1 -> {2, 4}
                  [] c = 2 -> {1, 3}
                  [] c = 3 -> {2, 4}
                  [] c = 4 -> {1, 3}
                  [] c = 5 -> {1}
                  [] c = 6 -> {2}]
=============================================================================
