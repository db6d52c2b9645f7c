------------------------------ MODULE MCAssessments ------------------------------
EXTENDS Assessments, TLC

CONSTANTS a1, a2, t1, t2, p1, p2

Symmetry == Permutations(Procs) \cup Permutations(Attempts)
=================================================================================
