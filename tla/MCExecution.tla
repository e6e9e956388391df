---- MODULE MCExecution ----
EXTENDS Execution, TLC
MCSymmetry == Permutations(Runs) \cup Permutations(Workers)
====
