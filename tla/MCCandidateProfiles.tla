--------------------------- MODULE MCCandidateProfiles ---------------------------
(* Instances of CandidateProfiles for TLC.                                        *)
EXTENDS CandidateProfiles, TLC

CONSTANTS p1, p2

Symmetry == Permutations(Requests)
=================================================================================
