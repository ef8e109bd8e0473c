----------------------------- MODULE MCRegtest -----------------------------
(* Eras of two heights and three halvings, the first of which rounds down; *)
(* a maximum of just 2 * 2 * 5; two runs of the tool.                      *)
EXTENDS Regtest, TLC
MCShifted == [n \in 0..2 |-> 5 \div 2^n]
Symmetry == Permutations(Runs)
=============================================================================
