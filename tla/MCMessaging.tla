------------------------------ MODULE MCMessaging ------------------------------
(* Instances of Messaging for TLC: two recruiters of one company and one of       *)
(* another, two candidates, quotas of one contact between renewals.               *)
EXTENDS Messaging, TLC

CONSTANTS c1, c2, r1, r2, r3, k1, k2, i1, p1, p2

MCCompanyOf == [r \in Recruiters |-> IF r = r3 THEN k2 ELSE k1]

OneContact == [k \in Companies |-> 1]

Symmetry == Permutations(Candidates) \cup Permutations({r1, r2}) \cup Permutations(Requests)
================================================================================
