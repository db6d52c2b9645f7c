--------------------------- MODULE MCSavedSearchAlerts ---------------------------
(* Instances of SavedSearchAlerts for TLC.                                        *)
EXTENDS SavedSearchAlerts

CONSTANTS s1, s2, o1, o2, m1, m2
=================================================================================
