------------------------------ MODULE Subscriptions ------------------------------
(***************************************************************************)
(* The subscription rows of one company and everything that writes them:   *)
(* the Stripe webhook, the recruiter's own requests, the back office and   *)
(* contact consumption.                                                    *)
(*                                                                         *)
(* A process is one request or webhook delivery in flight.  Nearly every   *)
(* writer has the same two steps: it loads a row into memory and, after at *)
(* least one await, calls repository.save(entity), which writes back every *)
(* column in which the entity differs from the row, so also the columns    *)
(* the handler never touched if somebody changed them in between.  Load    *)
(* takes the snapshot, Save replaces the row by the edited snapshot.  Only *)
(* contact consumption is a conditional UPDATE on the row as it is.        *)
(*                                                                         *)
(* A webhook delivery also inserts its dedup marker in the transaction of  *)
(* its save; both become visible together, or neither does.                *)
(***************************************************************************)
EXTENDS Naturals, FiniteSets

CONSTANTS
    Procs,        \* requests and deliveries that can be in flight at once
    Subs,         \* Stripe subscription ids
    NoSub,        \* external_subscription_id IS NULL
    Plans,        \* plans with a configured quota
    STARTER,      \* the plan of the trial every company starts with
    Quota,        \* resolveContactQuotaForPlan
    Overrides,    \* contact quotas an administrator may type in assignPlan
    TrialDays, PeriodDays, GraceDays,
    Null,         \* SQL NULL in a timestamp column
    Ops,          \* the operations that occur in this instance
    MaxRows,      \* bound: rows of the company
    MaxTime,      \* bound: clock
    MaxCycles     \* bound: renewals per Stripe subscription

ASSUME SubscriptionAssumption ==
    /\ NoSub \notin Subs
    /\ STARTER \in Plans
    /\ Quota \in [Plans -> Nat]
    /\ Overrides \subseteq Nat
    /\ TrialDays \in Nat /\ PeriodDays \in Nat /\ GraceDays \in Nat
    /\ Null \notin Nat
    /\ MaxRows \in Nat \ {0} /\ MaxTime \in Nat /\ MaxCycles \in Nat

Statuses == {"trial", "active", "past_due", "suspended", "cancelled", "expired"}
Ids      == 1..MaxRows

Row == [status : Statuses \cup {"none"}, plan : Plans, quota : Nat, used : Nat,
        ext : Subs \cup {NoSub}, endsAt : Nat \cup {Null},
        pastDueSince : Nat \cup {Null}, cancelAtPeriodEnd : BOOLEAN]

EventTypes == {"activated", "renewed", "past_due", "plan_changed", "unpaid", "deleted", "failed"}
Events     == [type : EventTypes, sub : Subs, n : 0..MaxCycles]
NoEvent    == [type |-> "none", sub |-> NoSub, n |-> 0]

VARIABLES
    now,        \* the clock, in days
    rows,       \* rows[r]: the company's subscriptions in order of creation
    granted,    \* granted[r]: contacts really opened on row r since its quota was last reset
    stripe,     \* stripe[s]: the provider's side of subscription s
    sent,       \* webhook events Stripe has produced; it delivers them in any order, repeatedly
    processed,  \* events whose dedup marker is committed
    proc        \* proc[p]: the handler p is running and the entity it holds in memory

vars == <<now, rows, granted, stripe, sent, processed, proc>>

Absent  == [status |-> "none", plan |-> STARTER, quota |-> 0, used |-> 0, ext |-> NoSub,
            endsAt |-> Null, pastDueSince |-> Null, cancelAtPeriodEnd |-> FALSE]
Idle    == [op |-> "idle", event |-> NoEvent, row |-> 0, snap |-> Absent,
            plan |-> STARTER, quota |-> 0]

\* createCompany leaves the company with a STARTER trial.
Trial == [Absent EXCEPT !.status = "trial", !.quota = Quota[STARTER], !.endsAt = TrialDays]

Init ==
    /\ now = 0
    /\ rows = [r \in Ids |-> IF r = 1 THEN Trial ELSE Absent]
    /\ granted = [r \in Ids |-> 0]
    /\ stripe = [s \in Subs |-> [state |-> "none", plan |-> STARTER, n |-> 0]]
    /\ sent = {}
    /\ processed = {}
    /\ proc = [p \in Procs |-> Idle]

---------------------------------------------------------------------------------
\* SUBSCRIPTION_STATUS_TRANSITIONS
Transitions ==
    [trial     |-> {"active", "expired", "cancelled", "suspended"},
     active    |-> {"past_due", "cancelled", "suspended"},
     past_due  |-> {"active", "cancelled", "suspended"},
     suspended |-> {"active", "cancelled", "expired"},
     cancelled |-> {},
     expired   |-> {}]

With(S)      == {r \in Ids : rows[r].status \in S}
WithExt(s)   == {r \in Ids : rows[r].ext = s}
Newest(r, S) == r \in S /\ \A q \in S : q <= r

\* isSubscriptionWithinAccess
WithinAccess(row) ==
    \/ row.status = "active"
    \/ row.status = "trial" /\ (row.endsAt # Null => row.endsAt > now)
    \/ row.status = "past_due" /\ (row.pastDueSince # Null => row.pastDueSince + GraceDays > now)

\* assertActiveSubscription judges the newest row, whatever its status.
HasAccess == \E r \in Ids : Newest(r, With(Statuses)) /\ WithinAccess(rows[r])

\* resolveActiveSubscriptionId: the one TRIAL or ACTIVE row that has not ended.
Consumable == {r \in With({"trial", "active"}) : rows[r].endsAt # Null => rows[r].endsAt > now}

\* Mutant: the partial unique index is missing.
NoUniqueIndex(r, new) == TRUE

\* UQ_subscriptions_company_active, a partial unique index on company_id.
UniqueIndexAllows(r, new) ==
    new.status \in {"trial", "active"} => With({"trial", "active"}) \subseteq {r}

---------------------------------------------------------------------------------
\* First step of a handler: p keeps row r (0: none found) in memory.
Load(p, op, e, r, plan, quota) ==
    /\ op \in Ops
    /\ proc[p].op = "idle"
    /\ proc' = [proc EXCEPT ![p] =
                  [op |-> op, event |-> e, row |-> r,
                   snap |-> IF r = 0 THEN Absent ELSE rows[r], plan |-> plan, quota |-> quota]]

\* Commit of an UPDATE (row loaded) or an INSERT (none), with the delivery's marker.
Save(p, new) ==
    /\ \E r \in Ids :
        /\ IF proc[p].row = 0
             THEN rows[r].status = "none" /\ \A q \in Ids : q < r => rows[q].status # "none"
             ELSE r = proc[p].row
        /\ UniqueIndexAllows(r, new)
        /\ rows' = [rows EXCEPT ![r] = new]
        /\ granted' = IF proc[p].op \in {"activate", "renew"}
                        THEN [granted EXCEPT ![r] = 0] ELSE granted
    /\ processed' = processed \cup ({proc[p].event} \ {NoEvent})
    /\ proc' = [proc EXCEPT ![p] = Idle]
    /\ UNCHANGED <<now, stripe, sent>>

\* Any exception, a 23505 on the partial index or a dead process: the request ends
\* and what it wrote is rolled back; a webhook event will be delivered again.
Abort(p) ==
    /\ proc[p].op # "idle"
    /\ proc' = [proc EXCEPT ![p] = Idle]
    /\ UNCHANGED <<now, rows, granted, stripe, sent, processed>>

\* Mutant: no dedup marker, every delivery is handled.
DeliverableAgain(e) == e \in sent /\ \A q \in Procs : proc[q].event # e

\* handleWebhook inserts the marker first: a processed event stops here, and one
\* that another open transaction has marked waits for that transaction.
Deliverable(e) == e \in sent \ processed /\ \A q \in Procs : proc[q].event # e

Mark(e) == /\ "webhook" \in Ops
           /\ processed' = processed \cup {e}
           /\ UNCHANGED <<now, rows, granted, stripe, sent, proc>>

---------------------------------------------------------------------------------
\* Mutant: only a TRIAL row is reused, a PAST_DUE one is left behind.
activateLoadTrialOnly(p, e) ==
    /\ e.type = "activated" /\ Deliverable(e)
    /\ \E r \in Ids \cup {0} :
        /\ IF With({"trial"}) = {} THEN r = 0 ELSE Newest(r, With({"trial"}))
        /\ Load(p, "activate", e, r, stripe[e.sub].plan, Quota[stripe[e.sub].plan])
    /\ UNCHANGED <<now, rows, granted, stripe, sent, processed>>

\* payment-webhook.service.ts: activateSubscription
activateLoad(p, e) ==
    /\ e.type = "activated" /\ Deliverable(e)
    /\ \E r \in Ids \cup {0} :
        /\ IF With({"trial", "past_due"}) = {} THEN r = 0 ELSE Newest(r, With({"trial", "past_due"}))
        /\ Load(p, "activate", e, r, stripe[e.sub].plan, Quota[stripe[e.sub].plan])
    /\ UNCHANGED <<now, rows, granted, stripe, sent, processed>>

activateSave(p) ==
    /\ proc[p].op = "activate"
    /\ Save(p, [proc[p].snap EXCEPT
                  !.status = "active", !.plan = proc[p].plan, !.quota = proc[p].quota,
                  !.used = 0, !.ext = proc[p].event.sub, !.endsAt = now + PeriodDays])

\* renewSubscription: no such row is an error, and the event comes back later.
renewLoad(p, e) ==
    /\ e.type = "renewed" /\ Deliverable(e)
    /\ \E r \in WithExt(e.sub) \cap With({"active", "past_due"}) :
        Load(p, "renew", e, r, STARTER, 0)
    /\ UNCHANGED <<now, rows, granted, stripe, sent, processed>>

renewSave(p) ==
    LET snap == proc[p].snap
    IN  /\ proc[p].op = "renew"
        /\ Save(p, [snap EXCEPT
                      !.status = "active", !.used = 0,
                      !.pastDueSince = IF snap.status = "past_due" THEN Null ELSE @,
                      !.endsAt = (IF @ = Null THEN now ELSE @) + PeriodDays])

\* Mutant: a failed checkout also demotes a TRIAL row.
failedLoadTrial(p, e) ==
    /\ e.type = "failed" /\ Deliverable(e)
    /\ \E r \in With({"trial", "active"}) : Load(p, "failed", e, r, STARTER, 0)
    /\ UNCHANGED <<now, rows, granted, stripe, sent, processed>>

\* markPastDue: a checkout session of the company failed or expired.
failedLoad(p, e) ==
    /\ e.type = "failed" /\ Deliverable(e)
    /\ \E r \in With({"active"}) : Load(p, "failed", e, r, STARTER, 0)
    /\ UNCHANGED <<now, rows, granted, stripe, sent, processed>>

failedSave(p) ==
    /\ proc[p].op = "failed"
    /\ Save(p, [proc[p].snap EXCEPT !.status = "past_due"])

\* Mutant: the failed payment looks the row up by its Stripe id only, whatever its status.
pastDueLoadAnyStatus(p, e) ==
    /\ e.type = "past_due" /\ Deliverable(e)
    /\ \E r \in WithExt(e.sub) : Load(p, "past_due", e, r, STARTER, 0)
    /\ UNCHANGED <<now, rows, granted, stripe, sent, processed>>

\* markSubscriptionPastDue: the first failed payment dates the grace period.
pastDueLoad(p, e) ==
    /\ e.type = "past_due" /\ Deliverable(e)
    /\ \E r \in WithExt(e.sub) \cap With({"active"}) : Load(p, "past_due", e, r, STARTER, 0)
    /\ UNCHANGED <<now, rows, granted, stripe, sent, processed>>

pastDueSave(p) ==
    /\ proc[p].op = "past_due"
    /\ Save(p, [proc[p].snap EXCEPT !.status = "past_due", !.pastDueSince = now])

\* cancelSubscription: the retries are exhausted, or Stripe has deleted the subscription.
cancelledLoad(p, e) ==
    /\ e.type \in {"unpaid", "deleted"} /\ Deliverable(e)
    /\ \E r \in WithExt(e.sub) :
        /\ "cancelled" \in Transitions[rows[r].status]
        /\ Load(p, "cancelled", e, r, STARTER, 0)
    /\ UNCHANGED <<now, rows, granted, stripe, sent, processed>>

cancelledSave(p) ==
    /\ proc[p].op = "cancelled"
    /\ Save(p, [proc[p].snap EXCEPT !.status = "cancelled", !.pastDueSince = Null])

\* Mutant: an event about an unknown Stripe subscription is answered with a 2xx.
recordUnknown(e) ==
    /\ Deliverable(e)
    /\ \/ e.type \in {"plan_changed", "unpaid", "deleted"} /\ WithExt(e.sub) = {}
       \/ e.type = "past_due" /\ WithExt(e.sub) \ With({"active"}) # {}
       \/ e.type = "failed" /\ With({"active"}) = {}
    /\ Mark(e)

\* Handlers that find nothing to change in the row commit their marker only: the
\* proration invoice of handlePlanChangeInvoice, a retry failure on a row that is
\* not ACTIVE, a cancellation of a CANCELLED row, a failed checkout without an
\* ACTIVE row.
recordOnly(e) ==
    /\ Deliverable(e)
    /\ \/ e.type = "plan_changed" /\ WithExt(e.sub) # {}
       \/ e.type = "past_due" /\ WithExt(e.sub) \ With({"active"}) # {}
       \/ e.type \in {"unpaid", "deleted"} /\ WithExt(e.sub) \cap With({"cancelled"}) # {}
       \/ e.type = "failed" /\ With({"active"}) = {}
    /\ Mark(e)

\* One delivery of e.  Where no disjunct applies the handler throws, nothing is
\* committed and Stripe delivers e again.
Deliver(e) ==
    \/ recordOnly(e)
    \/ \E p \in Procs :
        \/ activateLoad(p, e) \/ renewLoad(p, e) \/ failedLoad(p, e)
        \/ pastDueLoad(p, e) \/ cancelledLoad(p, e)

WebhookSave(p) ==
    activateSave(p) \/ renewSave(p) \/ failedSave(p) \/ pastDueSave(p) \/ cancelledSave(p)

---------------------------------------------------------------------------------
\* Stripe moves to a state and produces an event of cycle n (external).
Emit(s, type, state, n) ==
    /\ stripe' = [stripe EXCEPT ![s].state = state, ![s].n = n]
    /\ sent' = sent \cup {[type |-> type, sub |-> s, n |-> n]}

\* subscription-checkout.service.ts: createCheckoutSession.  Only an ACTIVE row
\* refuses; no row is written.
createCheckoutSession(s, plan) ==
    /\ "checkout" \in Ops
    /\ With({"active"}) = {}
    /\ stripe[s].state = "none"
    /\ stripe' = [stripe EXCEPT ![s].state = "session", ![s].plan = plan]
    /\ UNCHANGED <<now, rows, granted, sent, processed, proc>>

\* cancelSubscription: the row is read and Stripe is called ...
cancelAtPeriodEndLoad(p) ==
    /\ \E r \in Ids :
        /\ Newest(r, With({"active", "past_due"}))
        /\ rows[r].ext # NoSub /\ ~ rows[r].cancelAtPeriodEnd
        /\ stripe[rows[r].ext].state # "ended"
        /\ Load(p, "cancelAtPeriodEnd", NoEvent, r, STARTER, 0)
    /\ UNCHANGED <<now, rows, granted, stripe, sent, processed>>

\* ... and the flag is saved once Stripe has answered.
cancelAtPeriodEndSave(p) ==
    /\ proc[p].op = "cancelAtPeriodEnd"
    /\ Save(p, [proc[p].snap EXCEPT !.cancelAtPeriodEnd = TRUE])

\* changePlan: the row is read and Stripe changes the plan and charges the
\* proration, which it reports later (all of them one event: it has no effect) ...
changePlanLoad(p, plan) ==
    /\ \E r \in Ids :
        /\ Newest(r, With({"active", "past_due"}))
        /\ rows[r].ext # NoSub /\ rows[r].plan # plan
        /\ stripe[rows[r].ext].state # "ended"
        /\ sent' = sent \cup {[type |-> "plan_changed", sub |-> rows[r].ext, n |-> 0]}
        /\ Load(p, "changePlan", NoEvent, r, plan, Quota[plan])
    /\ UNCHANGED <<now, rows, granted, stripe, processed>>

\* Mutant: a plan change also resets consumption.
changePlanResets(p) ==
    /\ proc[p].op = "changePlan"
    /\ Save(p, [proc[p].snap EXCEPT !.plan = proc[p].plan, !.quota = proc[p].quota, !.used = 0])

\* ... and plan and quota are saved when the Stripe call has returned.
changePlanSave(p) ==
    /\ proc[p].op = "changePlan"
    /\ Save(p, [proc[p].snap EXCEPT !.plan = proc[p].plan, !.quota = proc[p].quota])

Checkout(p) ==
    \/ cancelAtPeriodEndLoad(p) \/ cancelAtPeriodEndSave(p)
    \/ changePlanSave(p) \/ \E plan \in Plans : changePlanLoad(p, plan)

---------------------------------------------------------------------------------
\* subscription-admin.service.ts: cancel, from any status and without a guard.
adminCancelLoad(p) ==
    /\ \E r \in With(Statuses) : Load(p, "adminCancel", NoEvent, r, STARTER, 0)
    /\ UNCHANGED <<now, rows, granted, stripe, sent, processed>>

adminCancelSave(p) ==
    /\ proc[p].op = "adminCancel"
    /\ Save(p, [proc[p].snap EXCEPT !.status = "cancelled", !.endsAt = now,
                                    !.cancelAtPeriodEnd = FALSE])

\* suspend: an administrative hold, refused on a terminal or suspended row.
suspendLoad(p) ==
    /\ \E r \in With(Statuses \ {"cancelled", "expired", "suspended"}) :
        Load(p, "suspend", NoEvent, r, STARTER, 0)
    /\ UNCHANGED <<now, rows, granted, stripe, sent, processed>>

suspendSave(p) ==
    /\ proc[p].op = "suspend"
    /\ Save(p, [proc[p].snap EXCEPT !.status = "suspended", !.cancelAtPeriodEnd = FALSE])

\* reactivate: SUSPENDED -> ACTIVE, refused while another row is ACTIVE or TRIAL.
reactivateLoad(p) ==
    /\ \E r \in With({"suspended"}) :
        /\ With({"trial", "active"}) \subseteq {r}
        /\ Load(p, "reactivate", NoEvent, r, STARTER, 0)
    /\ UNCHANGED <<now, rows, granted, stripe, sent, processed>>

reactivateSave(p) ==
    /\ proc[p].op = "reactivate"
    /\ Save(p, [proc[p].snap EXCEPT !.status = "active"])

LIVE_STATUSES == {"trial", "active", "past_due", "suspended"}

\* assignPlan: the newest live row, or a new one, becomes ACTIVE without an end.
assignPlanLoad(p, plan, quota) ==
    /\ \E r \in Ids \cup {0} :
        /\ IF With(LIVE_STATUSES) = {} THEN r = 0 ELSE Newest(r, With(LIVE_STATUSES))
        /\ Load(p, "assignPlan", NoEvent, r, plan, quota)
    /\ UNCHANGED <<now, rows, granted, stripe, sent, processed>>

assignPlanSave(p) ==
    /\ proc[p].op = "assignPlan"
    /\ Save(p, [proc[p].snap EXCEPT
                  !.status = "active", !.plan = proc[p].plan, !.quota = proc[p].quota,
                  !.cancelAtPeriodEnd = FALSE, !.pastDueSince = Null, !.endsAt = Null])

Admin(p) ==
    \/ adminCancelLoad(p) \/ adminCancelSave(p) \/ suspendLoad(p) \/ suspendSave(p)
    \/ reactivateLoad(p) \/ reactivateSave(p) \/ assignPlanSave(p)
    \/ \E plan \in Plans : \E quota \in {Quota[plan]} \cup Overrides : assignPlanLoad(p, plan, quota)

---------------------------------------------------------------------------------
\* contact-quota.service.ts: consumeOneContact, behind assertActiveSubscription.
\* The row's id is resolved first; zero or several candidates are an error ...
consumeLoad(p) ==
    /\ HasAccess
    /\ \E r \in Consumable : Consumable = {r} /\ Load(p, "consume", NoEvent, r, STARTER, 0)
    /\ UNCHANGED <<now, rows, granted, stripe, sent, processed>>

\* ... then UPDATE ... SET contacts_used = contacts_used + 1 WHERE id = :id AND
\* contacts_used < contact_quota.
consumeOneContact(p) ==
    LET r == proc[p].row
    IN  /\ proc[p].op = "consume"
        /\ rows[r].used < rows[r].quota
        /\ rows' = [rows EXCEPT ![r].used = @ + 1]
        /\ granted' = [granted EXCEPT ![r] = @ + 1]
        /\ proc' = [proc EXCEPT ![p] = Idle]
        /\ UNCHANGED <<now, stripe, sent, processed>>

---------------------------------------------------------------------------------
\* Stripe (external), as far as the adapter's events tell it apart.
Billing == {"live", "dunning"}

CompleteCheckout(s) == stripe[s].state = "session" /\ Emit(s, "activated", "live", 0)

ExpireCheckout(s) == stripe[s].state = "session" /\ Emit(s, "failed", "ended", 0)

PaymentSucceeds(s) ==
    stripe[s].state \in Billing /\ stripe[s].n < MaxCycles /\ Emit(s, "renewed", "live", stripe[s].n + 1)

PaymentFails(s) ==
    stripe[s].state \in Billing /\ Emit(s, "past_due", "dunning", stripe[s].n)

RetriesExhausted(s) == stripe[s].state = "dunning" /\ Emit(s, "unpaid", "unpaid", stripe[s].n)

\* The period ends after a cancellation, or the subscription is removed outright.
Deleted(s) == stripe[s].state \in Billing \cup {"unpaid"} /\ Emit(s, "deleted", "ended", stripe[s].n)

Stripe ==
    /\ \E s \in Subs :
        \/ CompleteCheckout(s) \/ ExpireCheckout(s)
        \/ PaymentSucceeds(s) \/ PaymentFails(s) \/ RetriesExhausted(s) \/ Deleted(s)
    /\ UNCHANGED <<now, rows, granted, processed, proc>>

Tick == now < MaxTime /\ now' = now + 1 /\ UNCHANGED <<rows, granted, stripe, sent, processed, proc>>

Next ==
    \/ Stripe \/ Tick
    \/ \E e \in sent : Deliver(e)
    \/ \E s \in Subs, plan \in Plans : createCheckoutSession(s, plan)
    \/ \E p \in Procs :
        \/ WebhookSave(p) \/ Checkout(p) \/ Admin(p)
        \/ consumeLoad(p) \/ consumeOneContact(p) \/ Abort(p)

Spec == Init /\ [][Next]_vars

(***************************************************************************)
(* Fairness: Stripe delivers an event again until it is acknowledged, and  *)
(* a handler that has loaded its row goes on to save it: it may abort, but *)
(* not every time (strong fairness of the save).                           *)
(***************************************************************************)
FairSpec ==
    /\ Spec
    /\ \A e \in Events : SF_vars(Deliver(e))
    /\ \A p \in Procs : SF_vars(WebhookSave(p))

---------------------------------------------------------------------------------
\* Every variable keeps its type; a status is always one of the enum.
TypeOK ==
    /\ now \in Nat
    /\ rows \in [Ids -> Row]
    /\ granted \in [Ids -> Nat]
    /\ stripe \in [Subs -> [state : {"none", "session", "live", "dunning", "unpaid", "ended"},
                            plan : Plans, n : 0..MaxCycles]]
    /\ sent \subseteq Events
    /\ processed \subseteq Events
    /\ proc \in [Procs -> [op : Ops \cup {"idle"}, event : Events \cup {NoEvent},
                           row : Ids \cup {0}, snap : Row, plan : Plans, quota : Nat]]

\* At most one row is TRIAL or ACTIVE, so resolveActiveSubscriptionId never finds
\* several, whatever saves of stale entities the handlers race into.
OneLiveRow == \A q, r \in With({"trial", "active"}) : q = r

\* A Stripe subscription id is on at most one row.  renew, past_due and cancel look
\* rows up by it with findOne, no order and no unique constraint behind it.
LookupUnambiguous == \A s \in Subs : \A q, r \in WithExt(s) : q = r

\* One handler at a time, a CANCELLED or EXPIRED row never changes status again
\* (subscription-lifecycle.ts: "CANCELLED and EXPIRED are terminal").
NeverResurrected ==
    [][\A r \in Ids : rows[r].status \in {"cancelled", "expired"} =>
                       rows'[r].status = rows[r].status]_vars

Terminal == {"cancelled", "expired"}

\* The handlers that will save row r as it was before it became terminal.
Stale(r) ==
    {p \in Procs : /\ proc[p].op \notin {"idle", "consume"} /\ proc[p].row = r
                   /\ proc[p].snap.status \notin Terminal}

\* Whatever handlers overlap, a terminal row is revived only by a handler that had loaded
\* it before: no handler takes up a terminal row to revive it, and each revival uses up
\* one of the stale entities in flight.
RevivedByOverlapOnly ==
    [][\A r \in Ids : rows[r].status \in Terminal =>
            /\ Stale(r)' \subseteq Stale(r)
            /\ rows'[r].status # rows[r].status => Stale(r)' # Stale(r)]_vars

\* One handler at a time, every status change is one of the transition table, also
\* those of the handlers that do not consult it (renewals that stay ACTIVE, the
\* back office); rows are created ACTIVE.
LegalMoves ==
    [][\A r \in Ids : rows'[r].status # rows[r].status =>
            IF rows[r].status = "none" THEN rows'[r].status = "active"
            ELSE rows'[r].status \in Transitions[rows[r].status]]_vars

\* One handler at a time, contacts_used is the number of contacts really opened
\* since the quota was last reset: no handler forgives or invents consumption.
ContactsAccounted == \A r \in Ids : rows[r].used = granted[r]

\* Without the back office, the row the guard judges (the newest one) is the row in
\* force: no older row is TRIAL, ACTIVE or PAST_DUE, however activations, renewals
\* and cancellations of two Stripe subscriptions are reordered.
GuardSeesRowInForce ==
    \A r \in With({"trial", "active", "past_due"}) : Newest(r, With(Statuses))

\* A cancellation reported by Stripe is eventually recorded, although it may be
\* delivered before the activation or between two failed attempts.
CancellationApplied ==
    \A s \in Subs :
        (\E e \in sent : e.type \in {"unpaid", "deleted"} /\ e.sub = s)
            ~> (\E r \in WithExt(s) : rows[r].status = "cancelled")

---------------------------------------------------------------------------------
(* What comments in the code say and the code does not do (see README).            *)

\* subscription-checkout.service.ts: "contactsUsed is deliberately left untouched
\* (preserved across a plan change ...)".
PlanChangeKeepsContacts ==
    [][\A p \in Procs : changePlanSave(p) => \A r \in Ids : rows'[r].used = rows[r].used]_vars

\* subscription.entity.ts: pastDueSince is "Set the moment a subscription first goes
\* PAST_DUE".
PastDueIsDated == \A r \in With({"past_due"}) : rows[r].pastDueSince # Null

\* subscription.entity.ts: pastDueSince is "cleared on the next successful payment
\* (back to ACTIVE)".
ActiveHasNoDebt == \A r \in With({"active"}) : rows[r].pastDueSince = Null

\* subscription-guard.service.ts: "PAST_DUE: full access within the grace window".
FullAccessInGrace ==
    \A r \in With({"past_due"}) :
        Newest(r, With(Statuses)) /\ WithinAccess(rows[r]) => Consumable # {}

\* payment-webhook.service.ts: the period end of an ACTIVE row "does NOT gate access
\* on its own".
EndsAtIsInformational == With({"active"}) # {} => Consumable # {}

\* subscription-guard.service.ts: "ACTIVE: authoritative by status alone".
ActiveIsAuthoritative == With({"active"}) # {} => HasAccess
=================================================================================
