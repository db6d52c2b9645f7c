------------------------------- MODULE TrialCodes -------------------------------
(***************************************************************************)
(* Promotional trial codes: their back office, their redemption by a       *)
(* company still on its signup trial, and the conversion to a paid         *)
(* subscription by the payment webhook.                                    *)
(*                                                                         *)
(* A process is one request or delivery.  A redemption is one transaction  *)
(* of four statements: the reads, the insert that UNIQUE(company_id)       *)
(* guards, the conditional UPDATE that claims a use and locks the code's   *)
(* row until commit, and repository.save of the TRIAL subscription that    *)
(* was read first.  save() compares the entity with the row as it is now   *)
(* and writes the columns that differ, so it also writes back what others  *)
(* have changed since the read.                                            *)
(***************************************************************************)
EXTENDS Naturals, FiniteSets

CONSTANTS
    Companies,
    Codes,
    Nobody, NoCode,   \* not a company, not a code
    maxUses,          \* trial_codes.max_uses
    Procs             \* requests and deliveries in flight at once

ASSUME TrialCodeAssumption ==
    /\ Nobody \notin Companies
    /\ NoCode \notin Codes
    /\ maxUses \in [Codes -> Nat]

VARIABLES
    code,          \* code[c]: the row of trial_codes
    redemptions,   \* committed rows of trial_code_redemptions
    converted,     \* companies whose redemption has converted_at set
    trial,         \* trial[k]: the company's subscription row
    tx             \* tx[p]: what the handler p has read and where it stands

vars == <<code, redemptions, converted, trial, tx>>

Row  == [status : {"trial", "active"}, grant : Codes \cup {NoCode}]
Handler == [pc : {"idle", "revoke", "update", "insert", "claim", "save", "activate"},
            company : Companies \cup {Nobody}, code : Codes \cup {NoCode},
            row : Row, used : Nat, stale : BOOLEAN]

Idle == [pc |-> "idle", company |-> Nobody, code |-> NoCode,
         row |-> [status |-> "trial", grant |-> NoCode], used |-> 0, stale |-> FALSE]

\* createCompany has left every company on a TRIAL row that no code has extended.
Init ==
    /\ code = [c \in Codes |-> [status |-> "none", usedCount |-> 0, expired |-> FALSE]]
    /\ redemptions = {}
    /\ converted = {}
    /\ trial = [k \in Companies |-> [status |-> "trial", grant |-> NoCode]]
    /\ tx = [p \in Procs |-> Idle]

\* A claimed use keeps the code's row locked until its transaction ends.
CodeFree(c) == \A p \in Procs : tx[p].pc = "save" => tx[p].code # c

---------------------------------------------------------------------------------
\* trial-code-admin.service.ts: create
create(c) ==
    /\ code[c].status = "none"
    /\ code' = [code EXCEPT ![c].status = "active"]
    /\ UNCHANGED <<redemptions, converted, trial, tx>>

\* expires_at passes.
Expire(c) ==
    /\ code[c].status # "none" /\ ~ code[c].expired
    /\ code' = [code EXCEPT ![c].expired = TRUE]
    /\ UNCHANGED <<redemptions, converted, trial, tx>>

\* revoke: the row is read ...
revoke(p, c) ==
    /\ tx[p].pc = "idle"
    /\ code[c].status = "active"
    /\ tx' = [tx EXCEPT ![p] = [Idle EXCEPT !.pc = "revoke", !.code = c,
                                            !.used = code[c].usedCount]]
    /\ UNCHANGED <<code, redemptions, converted, trial>>

\* ... save() reads it again to find the columns that differ ...
revokeCompare(p) ==
    /\ tx[p].pc = "revoke"
    /\ tx' = [tx EXCEPT ![p] = [@ EXCEPT !.pc = "update",
                                         !.stale = code[tx[p].code].usedCount # tx[p].used]]
    /\ UNCHANGED <<code, redemptions, converted, trial>>

\* ... and writes them, once no claim holds the row.
revokeSave(p) ==
    LET c == tx[p].code
    IN  /\ tx[p].pc = "update"
        /\ CodeFree(c)
        /\ code' = [code EXCEPT ![c].status = "revoked",
                                ![c].usedCount = IF tx[p].stale THEN tx[p].used ELSE @]
        /\ tx' = [tx EXCEPT ![p] = Idle]
        /\ UNCHANGED <<redemptions, converted, trial>>

---------------------------------------------------------------------------------
isCurrentlyRedeemable(c) ==
    code[c].status = "active" /\ ~ code[c].expired /\ code[c].usedCount < maxUses[c]

\* redeem: the company's TRIAL row and the code are read and judged.
redeem(p, k, c) ==
    /\ tx[p].pc = "idle"
    /\ trial[k].status = "trial"
    /\ isCurrentlyRedeemable(c)
    /\ tx' = [tx EXCEPT ![p] = [Idle EXCEPT !.pc = "insert", !.company = k, !.code = c,
                                            !.row = trial[k]]]
    /\ UNCHANGED <<code, redemptions, converted, trial>>

\* UQ_trial_code_redemptions_company_id: a committed row refuses the insert, an
\* uncommitted one makes it wait.
UniqueCompany(k) ==
    /\ \A x \in redemptions : x.company # k
    /\ \A p \in Procs : tx[p].pc \in {"claim", "save"} => tx[p].company # k

insertRedemption(p) ==
    /\ tx[p].pc = "insert"
    /\ UniqueCompany(tx[p].company)
    /\ tx' = [tx EXCEPT ![p].pc = "claim"]
    /\ UNCHANGED <<code, redemptions, converted, trial>>

\* Mutant: the claim does not look at the code's status again.
claimRevoked(p) ==
    /\ tx[p].pc = "claim"
    /\ CodeFree(tx[p].code)
    /\ code[tx[p].code].usedCount < maxUses[tx[p].code]
    /\ tx' = [tx EXCEPT ![p].pc = "save"]
    /\ UNCHANGED <<code, redemptions, converted, trial>>

\* UPDATE trial_codes SET used_count = used_count + 1 WHERE used_count < max_uses AND
\* status = ACTIVE; others see the increment at commit.
claim(p) ==
    /\ tx[p].pc = "claim"
    /\ CodeFree(tx[p].code)
    /\ code[tx[p].code].usedCount < maxUses[tx[p].code]
    /\ code[tx[p].code].status = "active"
    /\ tx' = [tx EXCEPT ![p].pc = "save"]
    /\ UNCHANGED <<code, redemptions, converted, trial>>

\* Mutant: the use is not counted.
saveTrialUncounted(p) ==
    /\ tx[p].pc = "save"
    /\ redemptions' = redemptions \cup {[company |-> tx[p].company, code |-> tx[p].code]}
    /\ trial' = [trial EXCEPT ![tx[p].company] = [tx[p].row EXCEPT !.grant = tx[p].code]]
    /\ tx' = [tx EXCEPT ![p] = Idle]
    /\ UNCHANGED <<code, converted>>

\* The entity read at the start is saved with the code's plan, quota and end, and the
\* transaction commits.  Compare and write of this save() are one step.
saveTrial(p) ==
    LET k == tx[p].company
        c == tx[p].code
    IN  /\ tx[p].pc = "save"
        /\ redemptions' = redemptions \cup {[company |-> k, code |-> c]}
        /\ code' = [code EXCEPT ![c].usedCount = @ + 1]
        /\ trial' = [trial EXCEPT ![k] = [tx[p].row EXCEPT !.grant = c]]
        /\ tx' = [tx EXCEPT ![p] = Idle]
        /\ UNCHANGED converted

---------------------------------------------------------------------------------
\* activateSubscription of the payment webhook, as far as it meets a redemption: it
\* reads the TRIAL row ...
activateLoad(p, k) ==
    /\ tx[p].pc = "idle"
    /\ trial[k].status = "trial"
    /\ tx' = [tx EXCEPT ![p] = [Idle EXCEPT !.pc = "activate", !.company = k,
                                            !.row = trial[k]]]
    /\ UNCHANGED <<code, redemptions, converted, trial>>

\* trial-conversion.service.ts: markConvertedIfApplicable, a conditional UPDATE.
markConvertedIfApplicable(k) ==
    converted' = converted \cup {x.company : x \in {y \in redemptions : y.company = k}}

\* Mutant: conversion is recorded only for a row that shows the code it was granted.
activateSaveUnconverted(p) ==
    LET k == tx[p].company
    IN  /\ tx[p].pc = "activate"
        /\ trial' = [trial EXCEPT ![k] = [status |-> "active", grant |-> NoCode]]
        /\ converted' = IF tx[p].row.grant # NoCode THEN converted \cup {k} ELSE converted
        /\ tx' = [tx EXCEPT ![p] = Idle]
        /\ UNCHANGED <<code, redemptions>>

\* ... and, in one transaction, overwrites plan, quota and end and marks the conversion.
activateSave(p) ==
    LET k == tx[p].company
    IN  /\ tx[p].pc = "activate"
        /\ trial' = [trial EXCEPT ![k] = [status |-> "active", grant |-> NoCode]]
        /\ markConvertedIfApplicable(k)
        /\ tx' = [tx EXCEPT ![p] = Idle]
        /\ UNCHANGED <<code, redemptions>>

\* A refused statement, any exception or a dead process: everything is rolled back.
Abort(p) ==
    /\ tx[p].pc # "idle"
    /\ tx' = [tx EXCEPT ![p] = Idle]
    /\ UNCHANGED <<code, redemptions, converted, trial>>

Next ==
    \/ \E c \in Codes : create(c) \/ Expire(c)
    \/ \E p \in Procs :
        \/ \E c \in Codes : revoke(p, c) \/ \E k \in Companies : redeem(p, k, c)
        \/ \E k \in Companies : activateLoad(p, k)
        \/ revokeCompare(p) \/ revokeSave(p)
        \/ insertRedemption(p) \/ claim(p) \/ saveTrial(p)
        \/ activateSave(p) \/ Abort(p)

Spec == Init /\ [][Next]_vars

---------------------------------------------------------------------------------
Of(c) == {x \in redemptions : x.code = c}

\* Every variable keeps its type; used_count never passes max_uses.
TypeOK ==
    /\ code \in [Codes -> [status : {"none", "active", "revoked"}, usedCount : Nat,
                          expired : BOOLEAN]]
    /\ \A c \in Codes : code[c].usedCount <= maxUses[c]
    /\ redemptions \subseteq [company : Companies, code : Codes]
    /\ converted \subseteq Companies
    /\ trial \in [Companies -> Row]
    /\ tx \in [Procs -> Handler]

\* A code is never redeemed more often than max_uses, although revoke may set used_count
\* back to a value it read earlier: that same save ends the code.
NotOverRedeemed == \A c \in Codes : Cardinality(Of(c)) <= maxUses[c]

\* used_count, which the back office shows and claims compare with max_uses, counts the
\* committed redemptions while the code is in use and never more than those afterwards,
\* whichever of several stale revocations is saved last.
NeverOvercounted ==
    \A c \in Codes :
        /\ code[c].usedCount <= Cardinality(Of(c))
        /\ code[c].status # "revoked" => code[c].usedCount = Cardinality(Of(c))

\* trial-code-redemption.entity.ts: a company redeems at most one code, ever, however its
\* recruiters' requests interleave and whether or not the first trial was converted.
OneTrialPerCompany == \A x, y \in redemptions : x.company = y.company => x = y

\* A redemption commits only while its code is ACTIVE: a revocation that commits between
\* the code's read and the claim defeats the redemption, one after the claim waits for it.
RedeemedWhileActive ==
    [][\A x \in redemptions' \ redemptions : code[x.code].status = "active"]_vars

\* A company that redeemed a code and is now ACTIVE is counted as converted, although the
\* redemption may commit between the webhook's read and its save.
ConversionRecorded ==
    \A x \in redemptions : trial[x.company].status = "active" => x.company \in converted

---------------------------------------------------------------------------------
(* What comments in the code say and the code does not do (see README).            *)

\* trial-code.entity.ts: "usedCount is incremented via an atomic conditional UPDATE ...,
\* never a read-then-write", so that it counts the redemptions.
UsedCountIsExact == \A c \in Codes : code[c].usedCount = Cardinality(Of(c))

\* trial-code-redemption.service.ts: "there is nothing to transition (TRIAL -> TRIAL is
\* not a status change)".
RedeemKeepsStatus ==
    [][\A k \in Companies : trial[k].status = "active" => trial'[k].status = "active"]_vars
=================================================================================
