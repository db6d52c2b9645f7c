------------------------------ MODULE MCRecruiters ------------------------------
(* Instances of Recruiters for TLC.                                               *)
EXTENDS Recruiters, TLC

CONSTANTS u1, u2, u3, k1, k2, p1, p2

Symmetry == Permutations(Users) \cup Permutations(Companies) \cup Permutations(Requests)
=================================================================================
