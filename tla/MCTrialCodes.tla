------------------------------ MODULE MCTrialCodes ------------------------------
EXTENDS TrialCodes, TLC

CONSTANTS k1, k2, k3, c1, c2, p1, p2, p3

\* One use left on the first code, two on the second.
MCMaxUses == [c \in Codes |-> IF c = c1 THEN 1 ELSE 2]

OneUse == [c \in Codes |-> 1]

Symmetry == Permutations(Companies) \cup Permutations(Procs)
=================================================================================
