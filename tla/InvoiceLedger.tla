------------------------------ MODULE InvoiceLedger ------------------------------
(***************************************************************************)
(* What invoice emission promises, without transactions, locks or retries: *)
(* one book per calendar year, in which every paid Stripe event is entered *)
(* at most once and always at the end.  Position n of book y is invoice    *)
(* "y-000n", so a book that is a sequence has no gap and no duplicate.     *)
(***************************************************************************)
EXTENDS Sequences

CONSTANTS Events,   \* Stripe events that record a payment
          Years     \* calendar years

VARIABLE ledger     \* ledger[y] is the sequence of events invoiced in year y

\* The events that already have an invoice, in any year.
Invoiced == {e \in Events : \E y \in Years : \E n \in DOMAIN ledger[y] : ledger[y][n] = e}

Init == ledger = [y \in Years |-> <<>>]

Issue(e, y) ==
    /\ e \notin Invoiced
    /\ ledger' = [ledger EXCEPT ![y] = Append(@, e)]

Next == \E e \in Events, y \in Years : Issue(e, y)

Spec == Init /\ [][Next]_ledger
=================================================================================
