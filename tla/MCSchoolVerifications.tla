-------------------------- MODULE MCSchoolVerifications --------------------------
(* Instances of SchoolVerifications for TLC.                                      *)
EXTENDS SchoolVerifications, TLC

CONSTANTS p1, p2

Symmetry == Permutations(Requests)
=================================================================================
