------------------------------ MODULE ContactLedger ------------------------------
(***************************************************************************)
(* What messaging promises about contacts: a company has at most one       *)
(* thread with a candidate, opening it spends one contact of the quota,    *)
(* nothing else spends one, and only a renewal gives contacts back.        *)
(***************************************************************************)
EXTENDS Naturals

CONSTANTS Candidates, Companies, contactQuota

VARIABLES
    opened,   \* the <<candidate, company>> pairs that have a thread
    spent     \* spent[k]: contacts company k has used since its last renewal

Init == opened = {} /\ spent = [k \in Companies |-> 0]

Open(c, k) ==
    /\ <<c, k>> \notin opened
    /\ spent[k] < contactQuota[k]
    /\ opened' = opened \cup {<<c, k>>}
    /\ spent' = [spent EXCEPT ![k] = @ + 1]

Renew(k) == spent' = [spent EXCEPT ![k] = 0] /\ UNCHANGED opened

Next == \E k \in Companies : Renew(k) \/ \E c \in Candidates : Open(c, k)

Spec == Init /\ [][Next]_<<opened, spent>>
==================================================================================
