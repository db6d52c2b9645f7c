--------------------------- MODULE SubscriptionsProofs ---------------------------
(***************************************************************************)
(* Proofs about Subscriptions for any number of processes, rows, Stripe    *)
(* subscriptions, plans and days, with every operation allowed and every   *)
(* interleaving of loads and saves.                                        *)
(*                                                                         *)
(* OneLiveRow is inductive with the type invariant.  LookupUnambiguous is  *)
(* not: a handler may hold an old copy of a row in memory and write its    *)
(* Stripe id back later.  ExtInv therefore speaks of the rows and of the   *)
(* copies in flight: an id is carried by one row (or copies of it), and    *)
(* only after its activation was processed, which happens once.            *)
(*                                                                         *)
(* The last part is about handlers that do not overlap: Sequential says    *)
(* that what a handler holds is the row as it is, and InOrder why the      *)
(* newest row is the one in force.                                         *)
(***************************************************************************)
EXTENDS Subscriptions, TLAPS

\* Row r, or a copy of it that some handler may still save, has Stripe id s.
Carries(r, s) ==
    \/ rows[r].ext = s
    \/ \E p \in Procs : proc[p].row = r /\ proc[p].snap.ext = s

\* The one event that activates s.
Activation(s) == [type |-> "activated", sub |-> s, n |-> 0]

ExtInv ==
    /\ \A s \in Subs : \A q, r \in Ids : Carries(q, s) /\ Carries(r, s) => q = r
    /\ \A s \in Subs : \A r \in Ids : Carries(r, s) => Activation(s) \in processed
    /\ \A p \in Procs : proc[p].row = 0 => proc[p].snap.ext = NoSub

\* A delivery in flight is of a sent, unprocessed event that nobody else handles,
\* and only an activation event runs the activation handler.
EventInv ==
    /\ \A e \in sent : e.type = "activated" => e = Activation(e.sub)
    /\ \A p \in Procs : proc[p].event # NoEvent =>
        /\ proc[p].event \in sent \ processed
        /\ \A q \in Procs : q # p => proc[q].event # proc[p].event
    /\ \A p \in Procs : proc[p].op = "activate" =>
        proc[p].event # NoEvent /\ proc[p].event.type = "activated"

\* The inductive invariant.
IInv == TypeOK /\ OneLiveRow /\ EventInv /\ ExtInv

LEMMA ConstantTypes ==
    /\ Absent \in Row
    /\ Trial \in Row
    /\ NoEvent \notin Events
    /\ Idle.op = "idle" /\ Idle.event = NoEvent /\ Idle.row = 0 /\ Idle.snap = Absent
    /\ 0 \notin Ids
    /\ Absent.ext = NoSub /\ Trial.ext = NoSub
<1>1. Absent \in Row /\ Absent.ext = NoSub
  BY SubscriptionAssumption DEF Absent, Row
<1>2. Trial \in Row /\ Trial.ext = NoSub
  <2>1. Quota[STARTER] \in Nat /\ TrialDays \in Nat \cup {Null} /\ "trial" \in Statuses \cup {"none"}
    BY SubscriptionAssumption DEF Statuses
  <2> QED BY <1>1, <2>1 DEF Trial, Row
<1>3. NoEvent \notin Events
  BY DEF NoEvent, Events, EventTypes
<1>4. Idle.op = "idle" /\ Idle.event = NoEvent /\ Idle.row = 0 /\ Idle.snap = Absent
  BY DEF Idle
<1>5. 0 \notin Ids
  BY SubscriptionAssumption DEF Ids
<1> QED BY <1>1, <1>2, <1>3, <1>4, <1>5

\* An idle process is well typed.
LEMMA IdleType ==
    Idle \in [op : Ops \cup {"idle"}, event : Events \cup {NoEvent},
              row : Ids \cup {0}, snap : Row, plan : Plans, quota : Nat]
BY SubscriptionAssumption, ConstantTypes DEF Idle

---------------------------------------------------------------------------------
\* Loading a row keeps the types.
LEMMA LoadType ==
    ASSUME TypeOK, NEW p \in Procs, NEW op, NEW e \in Events \cup {NoEvent},
           NEW r \in Ids \cup {0}, NEW plan \in Plans, NEW quota \in Nat,
           Load(p, op, e, r, plan, quota)
    PROVE  proc' \in [Procs -> [op : Ops \cup {"idle"}, event : Events \cup {NoEvent},
                                row : Ids \cup {0}, snap : Row, plan : Plans, quota : Nat]]
<1>1. (IF r = 0 THEN Absent ELSE rows[r]) \in Row
  BY ConstantTypes DEF TypeOK
<1> QED BY <1>1 DEF Load, TypeOK

\* Saving a well-typed row keeps the types.
LEMMA SaveType ==
    ASSUME TypeOK, NEW p \in Procs, NEW new \in Row, Save(p, new)
    PROVE  TypeOK'
<1>1. PICK r \in Ids :
        /\ rows' = [rows EXCEPT ![r] = new]
        /\ granted' = IF proc[p].op \in {"activate", "renew"}
                        THEN [granted EXCEPT ![r] = 0] ELSE granted
  BY DEF Save
<1>2. rows' \in [Ids -> Row] /\ granted' \in [Ids -> Nat]
  BY <1>1 DEF TypeOK
<1>3. processed' \subseteq Events
  BY DEF Save, TypeOK
<1>4. proc' = [proc EXCEPT ![p] = Idle] /\ UNCHANGED <<now, stripe, sent>>
  BY DEF Save
<1>5. proc' \in [Procs -> [op : Ops \cup {"idle"}, event : Events \cup {NoEvent},
                           row : Ids \cup {0}, snap : Row, plan : Plans, quota : Nat]]
  BY <1>4, IdleType DEF TypeOK
<1> QED BY <1>2, <1>3, <1>4, <1>5 DEF TypeOK

\* The partial unique index makes every save keep at most one TRIAL or ACTIVE row.
LEMMA SaveOneLive ==
    ASSUME TypeOK, OneLiveRow, NEW p \in Procs, NEW new \in Row, Save(p, new)
    PROVE  OneLiveRow'
<1>1. PICK r \in Ids : UniqueIndexAllows(r, new) /\ rows' = [rows EXCEPT ![r] = new]
  BY DEF Save
<1> QED BY <1>1 DEF UniqueIndexAllows, OneLiveRow, With, TypeOK

\* A load marks no event as processed and takes one nobody else handles.
LEMMA LoadInv ==
    ASSUME IInv, NEW p \in Procs, NEW op, NEW e \in Events \cup {NoEvent},
           NEW r \in Ids \cup {0}, NEW plan, NEW quota,
           Load(p, op, e, r, plan, quota), UNCHANGED <<rows, processed>>,
           sent \subseteq sent', \A f \in sent' : f.type = "activated" => f = Activation(f.sub),
           e # NoEvent => Deliverable(e),
           op = "activate" => e # NoEvent /\ e.type = "activated"
    PROVE  EventInv' /\ ExtInv'
<1>1. /\ proc' \in [Procs -> {proc'[q] : q \in Procs}]
      /\ \A q \in Procs : q # p => proc'[q] = proc[q]
      /\ proc'[p].op = op /\ proc'[p].event = e /\ proc'[p].row = r
      /\ proc'[p].snap = IF r = 0 THEN Absent ELSE rows[r]
  BY DEF Load, IInv, TypeOK
<1>2. EventInv'
  BY <1>1 DEF IInv, EventInv, Deliverable, Activation
<1>3. \A s \in Subs : \A q \in Ids : Carries(q, s)' => Carries(q, s)
  <2> SUFFICES ASSUME NEW s \in Subs, NEW q \in Ids, Carries(q, s)' PROVE Carries(q, s)
    OBVIOUS
  <2>1. CASE rows'[q].ext = s
    BY <2>1 DEF Carries
  <2>2. ASSUME NEW v \in Procs, proc'[v].row = q, proc'[v].snap.ext = s PROVE Carries(q, s)
    <3>1. CASE v = p
      <4>1. r = q /\ r # 0 /\ proc'[p].snap = rows[r]
        BY <1>1, <2>2, <3>1, ConstantTypes
      <4> QED BY <2>2, <3>1, <4>1 DEF Carries
    <3>2. CASE v # p
      BY <1>1, <2>2, <3>2 DEF Carries
    <3> QED BY <3>1, <3>2
  <2> QED BY <2>1, <2>2 DEF Carries
<1>4. \A v \in Procs : proc'[v].row = 0 => proc'[v].snap.ext = NoSub
  BY <1>1, ConstantTypes DEF IInv, ExtInv
<1> QED BY <1>2, <1>3, <1>4 DEF IInv, ExtInv, Activation

\* What a save does to the processes and the markers.
LEMMA SaveEvents ==
    ASSUME IInv, NEW p \in Procs, NEW new, Save(p, new)
    PROVE  EventInv'
<1>1. /\ proc' = [proc EXCEPT ![p] = Idle]
      /\ processed' = processed \cup ({proc[p].event} \ {NoEvent})
      /\ sent' = sent
  BY DEF Save
<1>2. /\ \A q \in Procs : q # p => proc'[q] = proc[q]
      /\ proc'[p].event = NoEvent /\ proc'[p].op = "idle"
  BY <1>1, ConstantTypes DEF IInv, TypeOK
<1>3. \A q \in Procs : q # p /\ proc[q].event # NoEvent => proc[q].event # proc[p].event
  BY DEF IInv, EventInv
<1> QED BY <1>1, <1>2, <1>3 DEF IInv, EventInv, Activation

\* A save that keeps the loaded Stripe id gives no id to a second row; one of the
\* activation handler gives the row an id that nobody carried.
LEMMA SaveExt ==
    ASSUME IInv, NEW p \in Procs, NEW new \in Row, Save(p, new),
           IF proc[p].op = "activate" THEN new.ext = proc[p].event.sub
                                      ELSE new.ext = proc[p].snap.ext
    PROVE  ExtInv'
<1>1. PICK r \in Ids : /\ proc[p].row # 0 => r = proc[p].row
                       /\ rows' = [rows EXCEPT ![r] = new]
  BY DEF Save
<1>2. /\ proc' = [proc EXCEPT ![p] = Idle]
      /\ processed' = processed \cup ({proc[p].event} \ {NoEvent})
  BY DEF Save
<1>3. /\ \A q \in Procs : q # p => proc'[q] = proc[q]
      /\ proc'[p].row = 0 /\ proc'[p].snap.ext = NoSub
  BY <1>2, ConstantTypes DEF IInv, TypeOK
<1>4. /\ \A q \in Ids : q # r => rows'[q] = rows[q]
      /\ rows'[r] = new
  BY <1>1 DEF IInv, TypeOK
<1>5. \A q \in Procs : proc'[q].row = 0 => proc'[q].snap.ext = NoSub
  BY <1>3 DEF IInv, ExtInv
<1>6. ASSUME NEW s \in Subs, NEW q \in Ids, Carries(q, s)', ~ Carries(q, s)
      PROVE  q = r /\ new.ext = s
  <2>1. ASSUME NEW v \in Procs, proc'[v].row = q, proc'[v].snap.ext = s PROVE FALSE
    <3>1. v # p
      BY <1>3, <2>1, ConstantTypes
    <3> QED BY <1>3, <1>6, <2>1, <3>1 DEF Carries
  <2>2. rows'[q].ext = s
    BY <1>6, <2>1 DEF Carries
  <2> QED BY <1>4, <1>6, <2>2 DEF Carries
<1>7. CASE proc[p].op # "activate"
  <2>1. ASSUME NEW s \in Subs, NEW q \in Ids, Carries(q, s)' PROVE Carries(q, s)
    <3> SUFFICES ASSUME ~ Carries(q, s) PROVE FALSE
      OBVIOUS
    <3>1. q = r /\ new.ext = s /\ new.ext = proc[p].snap.ext
      BY <1>6, <1>7, <2>1
    <3>2. proc[p].row # 0
      BY <3>1, SubscriptionAssumption DEF IInv, ExtInv
    <3> QED BY <1>1, <3>1, <3>2 DEF Carries
  <2> QED BY <1>2, <1>5, <2>1 DEF IInv, ExtInv, Activation
<1>8. CASE proc[p].op = "activate"
  <2> DEFINE s0 == proc[p].event.sub
  <2>1. /\ proc[p].event \in sent \ processed /\ proc[p].event = Activation(s0)
        /\ proc[p].event # NoEvent
    BY <1>8 DEF IInv, EventInv
  <2>2. s0 \in Subs
    BY <2>1 DEF IInv, TypeOK, Events
  <2>3. \A q \in Ids : ~ Carries(q, s0)
    BY <2>1, <2>2 DEF IInv, ExtInv
  <2>4. new.ext = s0
    BY <1>8
  <2>5. Activation(s0) \in processed'
    BY <1>2, <2>1
  <2>6. \A s \in Subs : \A q \in Ids : Carries(q, s)' => Carries(q, s) \/ (q = r /\ s = s0)
    BY <1>6, <2>4
  <2>7. \A s \in Subs : \A q \in Ids : Carries(q, s)' => Activation(s)' \in processed'
    BY <1>2, <2>5, <2>6 DEF IInv, ExtInv, Activation
  <2>8. \A s \in Subs : \A q, v \in Ids : Carries(q, s)' /\ Carries(v, s)' => q = v
    BY <2>3, <2>6 DEF IInv, ExtInv
  <2> QED BY <1>5, <2>7, <2>8 DEF ExtInv
<1> QED BY <1>7, <1>8

\* The four parts together.
LEMMA SaveStep ==
    ASSUME IInv, NEW p \in Procs, NEW new \in Row, Save(p, new),
           IF proc[p].op = "activate" THEN new.ext = proc[p].event.sub
                                      ELSE new.ext = proc[p].snap.ext
    PROVE  IInv'
BY SaveType, SaveOneLive, SaveEvents, SaveExt DEF IInv

\* A handler's load that touches nothing else.
LEMMA LoadStep ==
    ASSUME IInv, NEW p \in Procs, NEW op, NEW e \in Events \cup {NoEvent},
           NEW r \in Ids \cup {0}, NEW plan \in Plans, NEW quota \in Nat,
           Load(p, op, e, r, plan, quota),
           UNCHANGED <<now, rows, granted, stripe, sent, processed>>,
           e # NoEvent => Deliverable(e),
           op = "activate" => e # NoEvent /\ e.type = "activated"
    PROVE  IInv'
<1>1. TypeOK'
  BY LoadType DEF IInv, TypeOK
<1>2. OneLiveRow'
  BY DEF IInv, OneLiveRow, With
<1>3. EventInv' /\ ExtInv'
  BY LoadInv DEF IInv, EventInv
<1> QED BY <1>1, <1>2, <1>3 DEF IInv

\* Steps that change no row and no process keep what is said of them.
LEMMA QuietStep ==
    ASSUME IInv, UNCHANGED <<rows, proc, processed>>, TypeOK', sent \subseteq sent',
           \A f \in sent' : f.type = "activated" => f = Activation(f.sub)
    PROVE  IInv'
<1>1. OneLiveRow'
  BY DEF IInv, OneLiveRow, With
<1>2. EventInv'
  BY DEF IInv, EventInv, Activation
<1>3. ExtInv'
  BY DEF IInv, ExtInv, Carries, Activation
<1> QED BY <1>1, <1>2, <1>3 DEF IInv

\* The entity a process holds, and the data of its request, are well typed.
LEMMA ProcTypes ==
    ASSUME TypeOK, NEW p \in Procs
    PROVE  /\ proc[p].snap \in Row /\ proc[p].plan \in Plans /\ proc[p].quota \in Nat
           /\ proc[p].event \in Events \cup {NoEvent} /\ proc[p].row \in Ids \cup {0}
           /\ now \in Nat /\ now + PeriodDays \in Nat
BY SubscriptionAssumption DEF TypeOK

\* The webhook handlers' saves.
LEMMA WebhookSaveStep ==
    ASSUME IInv, NEW p \in Procs, WebhookSave(p)
    PROVE  IInv'
<1> DEFINE snap == proc[p].snap
<1>0. /\ snap \in Row /\ proc[p].plan \in Plans /\ proc[p].quota \in Nat
      /\ now \in Nat /\ now + PeriodDays \in Nat
  BY ProcTypes DEF IInv
<1>1. CASE activateSave(p)
  <2>1. proc[p].event.sub \in Subs
    BY <1>1, ProcTypes DEF activateSave, IInv, EventInv, Events
  <2> DEFINE new == [snap EXCEPT
                  !.status = "active", !.plan = proc[p].plan, !.quota = proc[p].quota,
                  !.used = 0, !.ext = proc[p].event.sub, !.endsAt = now + PeriodDays]
  <2>2. new \in Row /\ new.ext = proc[p].event.sub
    BY <1>0, <2>1 DEF Row, Statuses
  <2> QED BY <1>1, <2>2, SaveStep DEF activateSave
<1>2. CASE renewSave(p)
  <2> DEFINE endsAt == (IF snap.endsAt = Null THEN now ELSE snap.endsAt) + PeriodDays
             since == IF snap.status = "past_due" THEN Null ELSE snap.pastDueSince
             new == [snap EXCEPT !.status = "active", !.used = 0, !.pastDueSince = since,
                                 !.endsAt = endsAt]
  <2>1. endsAt \in Nat /\ since \in Nat \cup {Null}
    BY <1>0, SubscriptionAssumption DEF Row
  <2>2. new \in Row /\ new.ext = snap.ext
    <3> HIDE DEF endsAt, since
    <3> QED BY <1>0, <2>1 DEF Row, Statuses
  <2>3. Save(p, new) /\ proc[p].op = "renew"
    BY <1>2 DEF renewSave
  <2> QED BY <2>2, <2>3, SaveStep
<1>3. CASE failedSave(p)
  <2> DEFINE new == [snap EXCEPT !.status = "past_due"]
  <2>1. new \in Row /\ new.ext = snap.ext
    BY <1>0 DEF Row, Statuses
  <2> QED BY <1>3, <2>1, SaveStep DEF failedSave
<1>4. CASE pastDueSave(p)
  <2> DEFINE new == [snap EXCEPT !.status = "past_due", !.pastDueSince = now]
  <2>1. new \in Row /\ new.ext = snap.ext
    BY <1>0 DEF Row, Statuses
  <2> QED BY <1>4, <2>1, SaveStep DEF pastDueSave
<1>5. CASE cancelledSave(p)
  <2> DEFINE new == [snap EXCEPT !.status = "cancelled", !.pastDueSince = Null]
  <2>1. new \in Row /\ new.ext = snap.ext
    BY <1>0 DEF Row, Statuses
  <2> QED BY <1>5, <2>1, SaveStep DEF cancelledSave
<1> QED BY <1>1, <1>2, <1>3, <1>4, <1>5 DEF WebhookSave

\* The webhook handlers' loads, and deliveries that only leave their marker.
LEMMA DeliverStep ==
    ASSUME IInv, NEW e \in sent, Deliver(e)
    PROVE  IInv'
<1>0. e \in Events /\ e.sub \in Subs /\ STARTER \in Plans /\ 0 \in Nat /\ Ids \subseteq Ids \cup {0}
  BY SubscriptionAssumption DEF IInv, TypeOK, Events
<1>1. CASE recordOnly(e)
  <2>1. /\ e \in sent \ processed /\ \A q \in Procs : proc[q].event # e
        /\ processed' = processed \cup {e} /\ UNCHANGED <<now, rows, granted, stripe, sent, proc>>
    BY <1>1 DEF recordOnly, Deliverable, Mark
  <2>2. TypeOK'
    BY <1>0, <2>1 DEF IInv, TypeOK
  <2>3. OneLiveRow'
    BY <2>1 DEF IInv, OneLiveRow, With
  <2>4. EventInv'
    BY <2>1 DEF IInv, EventInv, Activation
  <2>5. ExtInv'
    BY <2>1 DEF IInv, ExtInv, Carries, Activation
  <2> QED BY <2>2, <2>3, <2>4, <2>5 DEF IInv
<1>2. ASSUME NEW p \in Procs, activateLoad(p, e) PROVE IInv'
  <2>1. PICK r \in Ids \cup {0} :
          Load(p, "activate", e, r, stripe[e.sub].plan, Quota[stripe[e.sub].plan])
    BY <1>2 DEF activateLoad
  <2>2. stripe[e.sub].plan \in Plans /\ Quota[stripe[e.sub].plan] \in Nat
    BY <1>0, SubscriptionAssumption DEF IInv, TypeOK
  <2>3. e \in Events \cup {NoEvent} /\ e # NoEvent
    BY <1>0, ConstantTypes
  <2> QED BY <1>2, <2>1, <2>2, <2>3, LoadStep DEF activateLoad
<1>3. ASSUME NEW p \in Procs, NEW op, NEW r \in Ids, op # "activate", Deliverable(e),
             Load(p, op, e, r, STARTER, 0),
             UNCHANGED <<now, rows, granted, stripe, sent, processed>>
      PROVE  IInv'
  BY <1>0, <1>3, LoadStep
<1>4. ASSUME NEW p \in Procs,
             renewLoad(p, e) \/ failedLoad(p, e) \/ pastDueLoad(p, e) \/ cancelledLoad(p, e)
      PROVE  IInv'
  BY <1>3, <1>4 DEF renewLoad, failedLoad, pastDueLoad, cancelledLoad, With, WithExt
<1> QED BY <1>1, <1>2, <1>4 DEF Deliver

\* The recruiter's own requests.
LEMMA CheckoutStep ==
    ASSUME IInv, NEW p \in Procs, Checkout(p)
    PROVE  IInv'
<1> DEFINE snap == proc[p].snap
<1>0. /\ snap \in Row /\ proc[p].plan \in Plans /\ proc[p].quota \in Nat
      /\ STARTER \in Plans /\ 0 \in Nat
  BY ProcTypes, SubscriptionAssumption DEF IInv
<1>1. CASE cancelAtPeriodEndLoad(p)
  <2>1. PICK r \in Ids : Load(p, "cancelAtPeriodEnd", NoEvent, r, STARTER, 0)
    BY <1>1 DEF cancelAtPeriodEndLoad
  <2> QED BY <1>0, <1>1, <2>1, LoadStep DEF cancelAtPeriodEndLoad
<1>2. CASE cancelAtPeriodEndSave(p)
  <2> DEFINE new == [snap EXCEPT !.cancelAtPeriodEnd = TRUE]
  <2>1. new \in Row /\ new.ext = snap.ext
    BY <1>0 DEF Row
  <2> QED BY <1>2, <2>1, SaveStep DEF cancelAtPeriodEndSave
<1>3. CASE changePlanSave(p)
  <2> DEFINE new == [snap EXCEPT !.plan = proc[p].plan, !.quota = proc[p].quota]
  <2>1. new \in Row /\ new.ext = snap.ext
    BY <1>0 DEF Row
  <2> QED BY <1>3, <2>1, SaveStep DEF changePlanSave
<1>4. ASSUME NEW plan \in Plans, changePlanLoad(p, plan) PROVE IInv'
  <2>1. PICK r \in Ids :
          /\ rows[r].ext # NoSub
          /\ sent' = sent \cup {[type |-> "plan_changed", sub |-> rows[r].ext, n |-> 0]}
          /\ Load(p, "changePlan", NoEvent, r, plan, Quota[plan])
    BY <1>4 DEF changePlanLoad
  <2> DEFINE f == [type |-> "plan_changed", sub |-> rows[r].ext, n |-> 0]
  <2>2. rows[r].ext \in Subs /\ Quota[plan] \in Nat
    BY <2>1, SubscriptionAssumption DEF IInv, TypeOK, Row
  <2>3. /\ sent' = sent \cup {f}
        /\ UNCHANGED <<now, rows, granted, stripe, processed>>
    BY <1>4, <2>1 DEF changePlanLoad
  <2>4. f \in Events /\ f.type # "activated"
    BY <2>2, SubscriptionAssumption DEF Events, EventTypes
  <2>5. TypeOK'
    BY <2>1, <2>2, <2>3, <2>4, LoadType DEF IInv, TypeOK
  <2>6. \A g \in sent' : g.type = "activated" => g = Activation(g.sub)
    BY <2>3, <2>4 DEF IInv, EventInv
  <2>7. EventInv' /\ ExtInv'
    BY <2>1, <2>3, <2>6, LoadInv
  <2>8. OneLiveRow'
    BY <2>3 DEF IInv, OneLiveRow, With
  <2> QED BY <2>5, <2>7, <2>8 DEF IInv
<1> QED BY <1>1, <1>2, <1>3, <1>4 DEF Checkout

\* The back office.
LEMMA AdminStep ==
    ASSUME IInv, NEW p \in Procs, Admin(p)
    PROVE  IInv'
<1> DEFINE snap == proc[p].snap
<1>0. /\ snap \in Row /\ proc[p].plan \in Plans /\ proc[p].quota \in Nat /\ now \in Nat
      /\ STARTER \in Plans /\ 0 \in Nat
  BY ProcTypes, SubscriptionAssumption DEF IInv
<1>1. ASSUME NEW op, NEW r \in Ids \cup {0}, NEW plan \in Plans, NEW quota \in Nat, op # "activate",
             Load(p, op, NoEvent, r, plan, quota),
             UNCHANGED <<now, rows, granted, stripe, sent, processed>>
      PROVE  IInv'
  BY <1>1, LoadStep
<1>2. CASE adminCancelLoad(p) \/ suspendLoad(p) \/ reactivateLoad(p)
  BY <1>0, <1>1, <1>2 DEF adminCancelLoad, suspendLoad, reactivateLoad, With
<1>3. ASSUME NEW plan \in Plans, NEW quota \in {Quota[plan]} \cup Overrides,
             assignPlanLoad(p, plan, quota)
      PROVE  IInv'
  <2>1. quota \in Nat
    BY SubscriptionAssumption
  <2> QED BY <1>1, <1>3, <2>1 DEF assignPlanLoad
<1>4. CASE adminCancelSave(p)
  <2> DEFINE new == [snap EXCEPT !.status = "cancelled", !.endsAt = now, !.cancelAtPeriodEnd = FALSE]
  <2>1. new \in Row /\ new.ext = snap.ext
    BY <1>0 DEF Row, Statuses
  <2> QED BY <1>4, <2>1, SaveStep DEF adminCancelSave
<1>5. CASE suspendSave(p)
  <2> DEFINE new == [snap EXCEPT !.status = "suspended", !.cancelAtPeriodEnd = FALSE]
  <2>1. new \in Row /\ new.ext = snap.ext
    BY <1>0 DEF Row, Statuses
  <2> QED BY <1>5, <2>1, SaveStep DEF suspendSave
<1>6. CASE reactivateSave(p)
  <2> DEFINE new == [snap EXCEPT !.status = "active"]
  <2>1. new \in Row /\ new.ext = snap.ext
    BY <1>0 DEF Row, Statuses
  <2> QED BY <1>6, <2>1, SaveStep DEF reactivateSave
<1>7. CASE assignPlanSave(p)
  <2> DEFINE new == [snap EXCEPT
                  !.status = "active", !.plan = proc[p].plan, !.quota = proc[p].quota,
                  !.cancelAtPeriodEnd = FALSE, !.pastDueSince = Null, !.endsAt = Null]
  <2>1. new \in Row /\ new.ext = snap.ext
    BY <1>0 DEF Row, Statuses
  <2> QED BY <1>7, <2>1, SaveStep DEF assignPlanSave
<1> QED BY <1>2, <1>3, <1>4, <1>5, <1>6, <1>7 DEF Admin

\* Consumption changes one counter of one row, and the process ends.
LEMMA ConsumeStep ==
    ASSUME IInv, NEW p \in Procs, consumeLoad(p) \/ consumeOneContact(p)
    PROVE  IInv'
<1>1. CASE consumeLoad(p)
  <2>1. PICK r \in Ids : Load(p, "consume", NoEvent, r, STARTER, 0)
    BY <1>1 DEF consumeLoad, Consumable, With
  <2>2. STARTER \in Plans /\ 0 \in Nat
    BY SubscriptionAssumption
  <2> QED BY <1>1, <2>1, <2>2, LoadStep DEF consumeLoad
<1>2. CASE consumeOneContact(p)
  <2> DEFINE r == proc[p].row
  <2>1. /\ rows' = [rows EXCEPT ![r].used = @ + 1]
        /\ granted' = [granted EXCEPT ![r] = @ + 1]
        /\ proc' = [proc EXCEPT ![p] = Idle]
        /\ UNCHANGED <<now, stripe, sent, processed>>
    BY <1>2 DEF consumeOneContact
  <2>2. /\ rows' \in [Ids -> Row] /\ granted' \in [Ids -> Nat]
        /\ \A q \in Ids : rows'[q].ext = rows[q].ext /\ rows'[q].status = rows[q].status
    <3>1. \A q \in Ids : rows[q] \in Row /\ granted[q] \in Nat /\ rows[q].used \in Nat
      BY DEF IInv, TypeOK, Row
    <3>2. r \in Ids \cup {0} /\ rows \in [Ids -> Row] /\ granted \in [Ids -> Nat]
      BY ProcTypes DEF IInv, TypeOK
    <3>3. granted' \in [Ids -> Nat]
      <4> HIDE DEF r
      <4>1. granted' = [q \in Ids |-> IF q = r THEN granted[q] + 1 ELSE granted[q]]
        BY <2>1, <3>2
      <4> QED BY <3>1, <4>1
    <3>4. \A q \in Ids : rows'[q] = IF q = r THEN [rows[q] EXCEPT !.used = rows[q].used + 1] ELSE rows[q]
      BY <2>1, <3>2
    <3>5. \A q \in Ids : [rows[q] EXCEPT !.used = rows[q].used + 1] \in Row
      BY <3>1 DEF Row
    <3>6. rows' \in [Ids -> Row]
      BY <2>1, <3>2, <3>4, <3>5
    <3>7. \A q \in Ids : rows'[q].ext = rows[q].ext /\ rows'[q].status = rows[q].status
      BY <3>1, <3>4 DEF Row
    <3> QED BY <3>3, <3>6, <3>7
  <2>3. TypeOK'
    BY <2>1, <2>2, IdleType DEF IInv, TypeOK
  <2>4. OneLiveRow'
    BY <2>2 DEF IInv, OneLiveRow, With
  <2>5. /\ \A q \in Procs : q # p => proc'[q] = proc[q]
        /\ proc'[p].event = NoEvent /\ proc'[p].op = "idle" /\ proc'[p].row = 0
        /\ proc'[p].snap.ext = NoSub
    BY <2>1, ConstantTypes DEF IInv, TypeOK
  <2>6. EventInv'
    BY <2>1, <2>5 DEF IInv, EventInv, Activation
  <2>7. \A s \in Subs : \A q \in Ids : Carries(q, s)' => Carries(q, s)
    BY <2>2, <2>5, ConstantTypes DEF Carries
  <2>8. ExtInv'
    BY <2>1, <2>5, <2>7 DEF IInv, ExtInv, Activation
  <2> QED BY <2>3, <2>4, <2>6, <2>8 DEF IInv
<1> QED BY <1>1, <1>2

\* A request that fails leaves no trace.
LEMMA AbortStep ==
    ASSUME IInv, NEW p \in Procs, Abort(p)
    PROVE  IInv'
<1>1. proc' = [proc EXCEPT ![p] = Idle] /\ UNCHANGED <<now, rows, granted, stripe, sent, processed>>
  BY DEF Abort
<1>2. TypeOK'
  BY <1>1, IdleType DEF IInv, TypeOK
<1>3. OneLiveRow'
  BY <1>1 DEF IInv, OneLiveRow, With
<1>4. /\ \A q \in Procs : q # p => proc'[q] = proc[q]
      /\ proc'[p].event = NoEvent /\ proc'[p].op = "idle" /\ proc'[p].row = 0
      /\ proc'[p].snap.ext = NoSub
  BY <1>1, ConstantTypes DEF IInv, TypeOK
<1>5. EventInv'
  BY <1>1, <1>4 DEF IInv, EventInv, Activation
<1>6. \A s \in Subs : \A q \in Ids : Carries(q, s)' => Carries(q, s)
  BY <1>1, <1>4, ConstantTypes DEF Carries
<1>7. ExtInv'
  BY <1>1, <1>4, <1>6 DEF IInv, ExtInv, Activation
<1> QED BY <1>2, <1>3, <1>5, <1>7 DEF IInv

\* Stripe only produces well-formed events; each subscription is activated once.
LEMMA StripeStep ==
    ASSUME IInv, Stripe
    PROVE  IInv'
<1>1. ASSUME NEW s \in Subs, NEW type \in EventTypes, NEW n \in 0..MaxCycles,
             NEW state \in {"none", "session", "live", "dunning", "unpaid", "ended"},
             Emit(s, type, state, n), type = "activated" => n = 0,
             UNCHANGED <<now, rows, granted, processed, proc>>
      PROVE  IInv'
  <2> DEFINE f == [type |-> type, sub |-> s, n |-> n]
  <2>1. f \in Events /\ (f.type = "activated" => f = Activation(f.sub)) /\ sent' = sent \cup {f}
    BY <1>1 DEF Events, Activation, Emit
  <2>a. stripe' \in [Subs -> [state : {"none", "session", "live", "dunning", "unpaid", "ended"},
                             plan : Plans, n : 0..MaxCycles]]
    <3> DEFINE x == [stripe[s] EXCEPT !.state = state, !.n = n]
    <3>1. stripe[s] \in [state : {"none", "session", "live", "dunning", "unpaid", "ended"},
                         plan : Plans, n : 0..MaxCycles]
      BY DEF IInv, TypeOK
    <3>2. x \in [state : {"none", "session", "live", "dunning", "unpaid", "ended"},
                 plan : Plans, n : 0..MaxCycles]
      BY <1>1, <3>1
    <3>3. stripe' = [stripe EXCEPT ![s] = x]
      BY <1>1 DEF IInv, TypeOK, Emit
    <3> HIDE DEF x
    <3> QED BY <3>2, <3>3 DEF IInv, TypeOK
  <2> HIDE DEF f
  <2>b. sent' \subseteq Events
    BY <2>1 DEF IInv, TypeOK
  <2>2. TypeOK'
    BY <1>1, <2>a, <2>b DEF IInv, TypeOK
  <2>3. \A g \in sent' : g.type = "activated" => g = Activation(g.sub)
    BY <2>1 DEF IInv, EventInv
  <2> QED BY <1>1, <2>1, <2>2, <2>3, QuietStep
<1>2. PICK s \in Subs :
        \/ CompleteCheckout(s) \/ ExpireCheckout(s) \/ PaymentSucceeds(s)
        \/ PaymentFails(s) \/ RetriesExhausted(s) \/ Deleted(s)
  BY DEF Stripe
<1>3. /\ stripe[s].n \in 0..MaxCycles /\ 0 \in 0..MaxCycles
      /\ stripe[s].n < MaxCycles => stripe[s].n + 1 \in 0..MaxCycles
  BY SubscriptionAssumption DEF IInv, TypeOK
<1>4. UNCHANGED <<now, rows, granted, processed, proc>>
  BY DEF Stripe
<1>5. CASE CompleteCheckout(s)
  BY <1>1, <1>3, <1>4, <1>5 DEF CompleteCheckout, EventTypes
<1>6. CASE ExpireCheckout(s)
  BY <1>1, <1>3, <1>4, <1>6 DEF ExpireCheckout, EventTypes
<1>7. CASE PaymentSucceeds(s)
  BY <1>1, <1>3, <1>4, <1>7 DEF PaymentSucceeds, EventTypes
<1>8. CASE PaymentFails(s)
  BY <1>1, <1>3, <1>4, <1>8 DEF PaymentFails, EventTypes
<1>9. CASE RetriesExhausted(s)
  BY <1>1, <1>3, <1>4, <1>9 DEF RetriesExhausted, EventTypes
<1>10. CASE Deleted(s)
  BY <1>1, <1>3, <1>4, <1>10 DEF Deleted, EventTypes
<1> QED BY <1>2, <1>5, <1>6, <1>7, <1>8, <1>9, <1>10

\* Every step preserves the inductive invariant.
LEMMA IInvStep == IInv /\ [Next]_vars => IInv'
<1> SUFFICES ASSUME IInv, [Next]_vars PROVE IInv'
  OBVIOUS
<1>1. CASE UNCHANGED vars
  <2>1. TypeOK'
    BY <1>1 DEF vars, IInv, TypeOK
  <2> QED BY <1>1, <2>1, QuietStep DEF vars, IInv, EventInv
<1>2. CASE Tick
  <2>1. TypeOK'
    BY <1>2 DEF Tick, IInv, TypeOK
  <2> QED BY <1>2, <2>1, QuietStep DEF Tick, IInv, EventInv
<1>3. ASSUME NEW s \in Subs, NEW plan \in Plans, createCheckoutSession(s, plan) PROVE IInv'
  <2>1. /\ stripe' = [stripe EXCEPT ![s].state = "session", ![s].plan = plan]
        /\ UNCHANGED <<now, rows, granted, sent, processed, proc>>
    BY <1>3 DEF createCheckoutSession
  <2>2. stripe' \in [Subs -> [state : {"none", "session", "live", "dunning", "unpaid", "ended"},
                             plan : Plans, n : 0..MaxCycles]]
    <3> DEFINE x == [stripe[s] EXCEPT !.state = "session", !.plan = plan]
    <3>1. stripe[s] \in [state : {"none", "session", "live", "dunning", "unpaid", "ended"},
                         plan : Plans, n : 0..MaxCycles]
      BY DEF IInv, TypeOK
    <3>2. x \in [state : {"none", "session", "live", "dunning", "unpaid", "ended"},
                 plan : Plans, n : 0..MaxCycles]
      BY <3>1
    <3>3. stripe' = [stripe EXCEPT ![s] = x]
      BY <2>1 DEF IInv, TypeOK
    <3> HIDE DEF x
    <3> QED BY <3>2, <3>3 DEF IInv, TypeOK
  <2>3. TypeOK'
    BY <2>1, <2>2 DEF IInv, TypeOK
  <2> QED BY <2>1, <2>3, QuietStep DEF IInv, EventInv
<1> QED
  BY <1>1, <1>2, <1>3, DeliverStep, WebhookSaveStep, CheckoutStep, AdminStep, ConsumeStep,
     AbortStep, StripeStep
  DEF Next

\* The initial state satisfies the inductive invariant.
LEMMA InitIInv == Init => IInv
<1> SUFFICES ASSUME Init PROVE IInv
  OBVIOUS
<1>1. TypeOK
  <2>1. rows \in [Ids -> Row]
    BY ConstantTypes DEF Init
  <2>2. stripe \in [Subs -> [state : {"none", "session", "live", "dunning", "unpaid", "ended"},
                            plan : Plans, n : 0..MaxCycles]]
    BY SubscriptionAssumption DEF Init
  <2>3. proc \in [Procs -> [op : Ops \cup {"idle"}, event : Events \cup {NoEvent},
                           row : Ids \cup {0}, snap : Row, plan : Plans, quota : Nat]]
    BY IdleType DEF Init
  <2> QED BY <2>1, <2>2, <2>3 DEF Init, TypeOK
<1>2. OneLiveRow
  BY DEF Init, OneLiveRow, With, Absent, Trial
<1>3. \A p \in Procs : /\ proc[p].event = NoEvent /\ proc[p].op = "idle" /\ proc[p].row = 0
                       /\ proc[p].snap.ext = NoSub
  BY ConstantTypes DEF Init
<1>4. EventInv
  BY <1>3 DEF Init, EventInv
<1>5. ASSUME NEW s \in Subs, NEW r \in Ids PROVE ~ Carries(r, s)
  BY <1>3, ConstantTypes, SubscriptionAssumption DEF Init, Carries
<1>6. ExtInv
  BY <1>3, <1>5 DEF ExtInv
<1> QED BY <1>1, <1>2, <1>4, <1>6 DEF IInv

LEMMA IInvAlways == Spec => []IInv
BY InitIInv, IInvStep, PTL DEF Spec

\* Type correctness: every handler writes a well-formed row.
THEOREM TypeCorrect == Spec => []TypeOK
<1>1. IInv => TypeOK
  BY DEF IInv
<1> QED BY <1>1, IInvAlways, PTL

\* However loads and saves of stale entities interleave, a company has at most one
\* TRIAL or ACTIVE subscription (UQ_subscriptions_company_active).
THEOREM AtMostOneLiveRow == Spec => []OneLiveRow
<1>1. IInv => OneLiveRow
  BY DEF IInv
<1> QED BY <1>1, IInvAlways, PTL

\* A Stripe subscription id is never on two rows, although no constraint says so:
\* the lookups of the renewal, dunning and cancellation handlers are unambiguous.
THEOREM StripeIdOnOneRow == Spec => []LookupUnambiguous
<1>1. IInv => LookupUnambiguous
  BY DEF IInv, ExtInv, Carries, LookupUnambiguous, WithExt
<1> QED BY <1>1, IInvAlways, PTL

---------------------------------------------------------------------------------
(***************************************************************************)
(* What the load of a handler has seen of its row (Judged) decides which   *)
(* move its save makes.  Handlers that do not overlap save the row as it   *)
(* still is (Fresh); those that do may save it as it was.                  *)
(***************************************************************************)
OneHandler == \A p, q \in Procs : p = q

Fresh(x) == x.snap = IF x.row = 0 THEN Absent ELSE rows[x.row]

\* The statuses each handler's load lets pass; only two handlers insert a row.
Judged(x) ==
    /\ x.row = 0 => x.op \in {"idle", "activate", "assignPlan"}
    /\ x.row # 0 =>
        /\ x.op = "activate" => x.snap.status \in {"trial", "past_due"}
        /\ x.op \in {"renew", "cancelAtPeriodEnd", "changePlan"} => x.snap.status \in {"active", "past_due"}
        /\ x.op \in {"failed", "past_due"} => x.snap.status = "active"
        /\ x.op \in {"cancelled", "assignPlan"} => x.snap.status \in LIVE_STATUSES
        /\ x.op = "adminCancel" => x.snap.status \in LIVE_STATUSES \cup {"cancelled"}
        /\ x.op = "suspend" => x.snap.status \in {"trial", "active", "past_due"}
        /\ x.op = "reactivate" => x.snap.status = "suspended"

\* Nobody writes EXPIRED, and a row that is not there is blank.
RowsKnown ==
    \A r \in Ids : /\ rows[r].status # "expired"
                   /\ rows[r].status = "none" => rows[r] = Absent

Sequential ==
    /\ RowsKnown /\ ContactsAccounted
    /\ \A p \in Procs : Fresh(proc[p]) /\ Judged(proc[p])

\* The rows are inserted in order, without the back office none is suspended, and who
\* is about to insert one has seen no row that is still to be paid.
BackOffice == {"adminCancel", "suspend", "reactivate", "assignPlan"}

InOrder ==
    /\ \A q, r \in Ids : q < r /\ rows[r].status # "none" => rows[q].status # "none"
    /\ \A r \in Ids : rows[r].status # "suspended"
    /\ \A p \in Procs : proc[p].op = "activate" /\ proc[p].row = 0 => With({"trial", "past_due"}) = {}

\* What a status may become in one step.
Legal(old, new) == old = new \/ new \in Transitions[old]

Move(r) ==
    rows'[r].status # rows[r].status =>
        IF rows[r].status = "none" THEN rows'[r].status = "active"
        ELSE rows'[r].status \in Transitions[rows[r].status]

Saves(p) ==
    \/ WebhookSave(p) \/ cancelAtPeriodEndSave(p) \/ changePlanSave(p)
    \/ adminCancelSave(p) \/ suspendSave(p) \/ reactivateSave(p) \/ assignPlanSave(p)

\* The row a handler saves, by what its load has let pass.
Shape(p, new) ==
    /\ new.status \in LIVE_STATUSES \cup {"cancelled"}
    /\ new.used = IF proc[p].op \in {"activate", "renew"} THEN 0 ELSE proc[p].snap.used
    /\ IF proc[p].row = 0 THEN new.status = "active" ELSE Legal(proc[p].snap.status, new.status)
    /\ proc[p].op \notin BackOffice => new.status # "suspended" \/ proc[p].snap.status = "suspended"
    /\ proc[p].op \notin BackOffice /\ proc[p].row = 0 => proc[p].op = "activate"

LEMMA Table ==
    /\ Transitions["trial"] = {"active", "expired", "cancelled", "suspended"}
    /\ Transitions["active"] = {"past_due", "cancelled", "suspended"}
    /\ Transitions["past_due"] = {"active", "cancelled", "suspended"}
    /\ Transitions["suspended"] = {"active", "cancelled", "expired"}
    /\ Transitions["cancelled"] = {} /\ Transitions["expired"] = {}
BY DEF Transitions

\* A load: an idle process takes up a row as it is, for an operation that its status allows.
Takes(p) ==
    \E x : /\ proc[p].op = "idle" /\ Fresh(x) /\ Judged(x)
           /\ proc' = [proc EXCEPT ![p] = x]
           /\ UNCHANGED <<rows, granted>>

LEMMA SaveShape ==
    ASSUME IInv, NEW p \in Procs, Judged(proc[p]), Saves(p)
    PROVE  \E new \in Row : Save(p, new) /\ Shape(p, new)
<1> DEFINE snap == proc[p].snap
<1>0. /\ snap \in Row /\ proc[p].plan \in Plans /\ proc[p].quota \in Nat
      /\ now \in Nat /\ now + PeriodDays \in Nat
  BY ProcTypes DEF IInv
<1>a. Judged(proc[p])
  OBVIOUS
<1>1. CASE activateSave(p)
  <2>1. proc[p].event.sub \in Subs /\ proc[p].op = "activate"
    BY <1>1, ProcTypes DEF activateSave, IInv, EventInv, Events
  <2> DEFINE new == [snap EXCEPT
                  !.status = "active", !.plan = proc[p].plan, !.quota = proc[p].quota,
                  !.used = 0, !.ext = proc[p].event.sub, !.endsAt = now + PeriodDays]
  <2>2. new \in Row /\ new.status = "active" /\ new.used = 0
    BY <1>0, <2>1 DEF Row, Statuses
  <2>3. Shape(p, new)
    <3> HIDE DEF new
    <3> QED BY <1>a, <2>1, <2>2, Table DEF Shape, Judged, Legal, LIVE_STATUSES
  <2>4. Save(p, new)
    BY <1>1 DEF activateSave
  <2> QED BY <2>2, <2>3, <2>4
<1>2. CASE renewSave(p)
  <2> DEFINE endsAt == (IF snap.endsAt = Null THEN now ELSE snap.endsAt) + PeriodDays
             since == IF snap.status = "past_due" THEN Null ELSE snap.pastDueSince
             new == [snap EXCEPT !.status = "active", !.used = 0, !.pastDueSince = since,
                                 !.endsAt = endsAt]
  <2>1. endsAt \in Nat /\ since \in Nat \cup {Null}
    BY <1>0, SubscriptionAssumption DEF Row
  <2>2. new \in Row /\ new.status = "active" /\ new.used = 0
    <3> HIDE DEF endsAt, since
    <3> QED BY <1>0, <2>1 DEF Row, Statuses
  <2>3. Save(p, new) /\ proc[p].op = "renew"
    BY <1>2 DEF renewSave
  <2>4. Shape(p, new)
    <3> HIDE DEF new
    <3> QED BY <1>a, <2>2, <2>3, Table DEF Shape, Judged, Legal, LIVE_STATUSES
  <2> QED BY <2>2, <2>3, <2>4
<1>3. CASE failedSave(p)
  <2> DEFINE new == [snap EXCEPT !.status = "past_due"]
  <2>1. new \in Row /\ new.status = "past_due" /\ new.used = snap.used
    BY <1>0 DEF Row, Statuses
  <2>2. Save(p, new) /\ proc[p].op = "failed"
    BY <1>3 DEF failedSave
  <2>3. Shape(p, new)
    <3> HIDE DEF new
    <3> QED BY <1>a, <2>1, <2>2, Table DEF Shape, Judged, Legal, LIVE_STATUSES, BackOffice
  <2> QED BY <2>1, <2>2, <2>3
<1>4. CASE pastDueSave(p)
  <2> DEFINE new == [snap EXCEPT !.status = "past_due", !.pastDueSince = now]
  <2>1. new \in Row /\ new.status = "past_due" /\ new.used = snap.used
    BY <1>0 DEF Row, Statuses
  <2>2. Save(p, new) /\ proc[p].op = "past_due"
    BY <1>4 DEF pastDueSave
  <2>3. Shape(p, new)
    <3> HIDE DEF new
    <3> QED BY <1>a, <2>1, <2>2, Table DEF Shape, Judged, Legal, LIVE_STATUSES, BackOffice
  <2> QED BY <2>1, <2>2, <2>3
<1>5. CASE cancelledSave(p)
  <2> DEFINE new == [snap EXCEPT !.status = "cancelled", !.pastDueSince = Null]
  <2>1. new \in Row /\ new.status = "cancelled" /\ new.used = snap.used
    BY <1>0 DEF Row, Statuses
  <2>2. Save(p, new) /\ proc[p].op = "cancelled"
    BY <1>5 DEF cancelledSave
  <2>3. Shape(p, new)
    <3> HIDE DEF new
    <3> QED BY <1>a, <2>1, <2>2, Table DEF Shape, Judged, Legal, LIVE_STATUSES, BackOffice
  <2> QED BY <2>1, <2>2, <2>3
<1>6. CASE cancelAtPeriodEndSave(p)
  <2> DEFINE new == [snap EXCEPT !.cancelAtPeriodEnd = TRUE]
  <2>1. new \in Row /\ new.status = snap.status /\ new.used = snap.used
    BY <1>0 DEF Row, Statuses
  <2>2. Save(p, new) /\ proc[p].op = "cancelAtPeriodEnd"
    BY <1>6 DEF cancelAtPeriodEndSave
  <2>3. Shape(p, new)
    <3> HIDE DEF new
    <3> QED BY <1>a, <2>1, <2>2, Table DEF Shape, Judged, Legal, LIVE_STATUSES, BackOffice
  <2> QED BY <2>1, <2>2, <2>3
<1>7. CASE changePlanSave(p)
  <2> DEFINE new == [snap EXCEPT !.plan = proc[p].plan, !.quota = proc[p].quota]
  <2>1. new \in Row /\ new.status = snap.status /\ new.used = snap.used
    BY <1>0 DEF Row, Statuses
  <2>2. Save(p, new) /\ proc[p].op = "changePlan"
    BY <1>7 DEF changePlanSave
  <2>3. Shape(p, new)
    <3> HIDE DEF new
    <3> QED BY <1>a, <2>1, <2>2, Table DEF Shape, Judged, Legal, LIVE_STATUSES, BackOffice
  <2> QED BY <2>1, <2>2, <2>3
<1>8. CASE adminCancelSave(p)
  <2> DEFINE new == [snap EXCEPT !.status = "cancelled", !.endsAt = now, !.cancelAtPeriodEnd = FALSE]
  <2>1. new \in Row /\ new.status = "cancelled" /\ new.used = snap.used
    BY <1>0 DEF Row, Statuses
  <2>2. Save(p, new) /\ proc[p].op = "adminCancel"
    BY <1>8 DEF adminCancelSave
  <2>3. Shape(p, new)
    <3> HIDE DEF new
    <3> QED BY <1>a, <2>1, <2>2, Table DEF Shape, Judged, Legal, LIVE_STATUSES, BackOffice
  <2> QED BY <2>1, <2>2, <2>3
<1>9. CASE suspendSave(p)
  <2> DEFINE new == [snap EXCEPT !.status = "suspended", !.cancelAtPeriodEnd = FALSE]
  <2>1. new \in Row /\ new.status = "suspended" /\ new.used = snap.used
    BY <1>0 DEF Row, Statuses
  <2>2. Save(p, new) /\ proc[p].op = "suspend"
    BY <1>9 DEF suspendSave
  <2>3. Shape(p, new)
    <3> HIDE DEF new
    <3> QED BY <1>a, <2>1, <2>2, Table DEF Shape, Judged, Legal, LIVE_STATUSES, BackOffice
  <2> QED BY <2>1, <2>2, <2>3
<1>10. CASE reactivateSave(p)
  <2> DEFINE new == [snap EXCEPT !.status = "active"]
  <2>1. new \in Row /\ new.status = "active" /\ new.used = snap.used
    BY <1>0 DEF Row, Statuses
  <2>2. Save(p, new) /\ proc[p].op = "reactivate"
    BY <1>10 DEF reactivateSave
  <2>3. Shape(p, new)
    <3> HIDE DEF new
    <3> QED BY <1>a, <2>1, <2>2, Table DEF Shape, Judged, Legal, LIVE_STATUSES, BackOffice
  <2> QED BY <2>1, <2>2, <2>3
<1>11. CASE assignPlanSave(p)
  <2> DEFINE new == [snap EXCEPT 
                  !.status = "active", !.plan = proc[p].plan, !.quota = proc[p].quota,
                  !.cancelAtPeriodEnd = FALSE, !.pastDueSince = Null, !.endsAt = Null]
  <2>1. new \in Row /\ new.status = "active" /\ new.used = snap.used
    BY <1>0 DEF Row, Statuses
  <2>2. Save(p, new) /\ proc[p].op = "assignPlan"
    BY <1>11 DEF assignPlanSave
  <2>3. Shape(p, new)
    <3> HIDE DEF new
    <3> QED BY <1>a, <2>1, <2>2, Table DEF Shape, Judged, Legal, LIVE_STATUSES, BackOffice
  <2> QED BY <2>1, <2>2, <2>3
<1> QED
  BY <1>1, <1>2, <1>3, <1>4, <1>5, <1>6, <1>7, <1>8, <1>9, <1>10, <1>11 DEF Saves, WebhookSave

\* What a save does to the rows and to its process.
LEMMA SaveWrites ==
    ASSUME IInv, NEW p \in Procs, NEW new \in Row, Save(p, new)
    PROVE  \E r \in Ids :
             /\ UniqueIndexAllows(r, new)
             /\ rows'[r] = new /\ \A q \in Ids : q # r => rows'[q] = rows[q]
             /\ \A q \in Ids : q # r => granted'[q] = granted[q]
             /\ granted'[r] = IF proc[p].op \in {"activate", "renew"} THEN 0 ELSE granted[r]
             /\ IF proc[p].row = 0
                  THEN rows[r].status = "none" /\ \A q \in Ids : q < r => rows[q].status # "none"
                  ELSE r = proc[p].row
             /\ proc' = [proc EXCEPT ![p] = Idle]
<1>1. PICK r \in Ids :
        /\ IF proc[p].row = 0
             THEN rows[r].status = "none" /\ \A q \in Ids : q < r => rows[q].status # "none"
             ELSE r = proc[p].row
        /\ UniqueIndexAllows(r, new)
        /\ rows' = [rows EXCEPT ![r] = new]
        /\ granted' = IF proc[p].op \in {"activate", "renew"}
                        THEN [granted EXCEPT ![r] = 0] ELSE granted
  BY DEF Save
<1>2. /\ rows'[r] = new /\ \A q \in Ids : q # r => rows'[q] = rows[q]
      /\ \A q \in Ids : q # r => granted'[q] = granted[q]
      /\ granted'[r] = IF proc[p].op \in {"activate", "renew"} THEN 0 ELSE granted[r]
  BY <1>1 DEF IInv, TypeOK
<1>3. proc' = [proc EXCEPT ![p] = Idle]
  BY DEF Save
<1> QED BY <1>1, <1>2, <1>3

\* Without overlap the row is the one that was loaded.
LEMMA SaveEffect ==
    ASSUME IInv, Sequential, NEW p \in Procs, NEW new \in Row, Save(p, new), Shape(p, new)
    PROVE  \E r \in Ids :
             /\ UniqueIndexAllows(r, new)
             /\ rows'[r] = new /\ \A q \in Ids : q # r => rows'[q] = rows[q]
             /\ granted'[r] = new.used /\ \A q \in Ids : q # r => granted'[q] = granted[q]
             /\ IF proc[p].row = 0
                  THEN rows[r].status = "none" /\ \A q \in Ids : q < r => rows[q].status # "none"
                  ELSE r = proc[p].row /\ rows[r] = proc[p].snap
             /\ proc' = [proc EXCEPT ![p] = Idle]
<1>1. PICK r \in Ids :
        /\ UniqueIndexAllows(r, new)
        /\ rows'[r] = new /\ \A q \in Ids : q # r => rows'[q] = rows[q]
        /\ \A q \in Ids : q # r => granted'[q] = granted[q]
        /\ granted'[r] = IF proc[p].op \in {"activate", "renew"} THEN 0 ELSE granted[r]
        /\ IF proc[p].row = 0
             THEN rows[r].status = "none" /\ \A q \in Ids : q < r => rows[q].status # "none"
             ELSE r = proc[p].row
        /\ proc' = [proc EXCEPT ![p] = Idle]
  BY SaveWrites
<1>2. proc[p].snap = rows[r]
  <2>1. proc[p].snap = IF proc[p].row = 0 THEN Absent ELSE rows[proc[p].row]
    BY DEF Sequential, Fresh
  <2> QED BY <1>1, <2>1 DEF Sequential, RowsKnown
<1>3. granted'[r] = new.used
  BY <1>1, <1>2 DEF Shape, Sequential, ContactsAccounted
<1> QED BY <1>1, <1>2, <1>3

\* A process that has ended holds nothing.
LEMMA IdleSequential ==
    ASSUME IInv, OneHandler, NEW p \in Procs, proc' = [proc EXCEPT ![p] = Idle]
    PROVE  \A q \in Procs : Fresh(proc[q])' /\ Judged(proc[q])'
<1>1. \A q \in Procs : proc'[q] = Idle
  BY DEF OneHandler, IInv, TypeOK
<1> QED BY <1>1, ConstantTypes DEF Fresh, Judged

LEMMA SaveSequential ==
    ASSUME IInv, Sequential, OneHandler, NEW p \in Procs, Saves(p)
    PROVE  Sequential' /\ \A r \in Ids : Move(r)
<1>1. PICK new \in Row : Save(p, new) /\ Shape(p, new)
  BY SaveShape DEF Sequential
<1>2. PICK r \in Ids :
        /\ rows'[r] = new /\ \A q \in Ids : q # r => rows'[q] = rows[q]
        /\ granted'[r] = new.used /\ \A q \in Ids : q # r => granted'[q] = granted[q]
        /\ IF proc[p].row = 0 THEN rows[r].status = "none"
                              ELSE r = proc[p].row /\ rows[r] = proc[p].snap
        /\ proc' = [proc EXCEPT ![p] = Idle]
  BY <1>1, SaveEffect
<1>3. RowsKnown'
  BY <1>1, <1>2 DEF Sequential, RowsKnown, Shape, LIVE_STATUSES
<1>4. ContactsAccounted'
  BY <1>2 DEF Sequential, ContactsAccounted
<1>5. \A q \in Procs : Fresh(proc[q])' /\ Judged(proc[q])'
  BY <1>2, IdleSequential
<1>6. ASSUME NEW q \in Ids PROVE Move(q)
  <2>1. CASE q # r
    BY <1>2, <2>1 DEF Move
  <2>2. CASE q = r /\ proc[p].row = 0
    BY <1>1, <1>2, <2>2 DEF Move, Shape
  <2>3. CASE q = r /\ proc[p].row # 0
    <3>1. Legal(rows[r].status, rows'[r].status) /\ rows'[r].status # "none"
      BY <1>1, <1>2, <2>3 DEF Shape, LIVE_STATUSES
    <3>2. rows[r].status # "none"
      <4>1. proc[p].op \in {"activate", "renew", "failed", "past_due", "cancelled",
                            "cancelAtPeriodEnd", "changePlan", "adminCancel", "suspend",
                            "reactivate", "assignPlan"}
        BY DEF Saves, WebhookSave, activateSave, renewSave, failedSave, pastDueSave, cancelledSave,
               cancelAtPeriodEndSave, changePlanSave, adminCancelSave, suspendSave, reactivateSave,
               assignPlanSave
      <4>2. proc[p].snap.status # "none"
        BY <2>3, <4>1 DEF Sequential, Judged, LIVE_STATUSES
      <4> QED BY <1>2, <2>3, <4>2
    <3> QED BY <2>3, <3>1, <3>2 DEF Move, Legal
  <2> QED BY <2>1, <2>2, <2>3
<1> QED BY <1>3, <1>4, <1>5, <1>6 DEF Sequential

\* A load keeps the rows; its process holds the row as it is.
LEMMA LoadTakes ==
    ASSUME NEW p \in Procs, NEW op, NEW e, NEW r \in Ids \cup {0},
           NEW plan, NEW quota, Load(p, op, e, r, plan, quota), UNCHANGED <<rows, granted>>,
           Judged([op |-> op, row |-> r, snap |-> IF r = 0 THEN Absent ELSE rows[r]])
    PROVE  Takes(p)
<1> DEFINE held == IF r = 0 THEN Absent ELSE rows[r]
           x == [op |-> op, event |-> e, row |-> r, snap |-> held, plan |-> plan, quota |-> quota]
<1>1. proc[p].op = "idle" /\ proc' = [proc EXCEPT ![p] = x]
  BY DEF Load
<1>2. Fresh(x)
  BY DEF Fresh
<1>3. Judged(x)
  <2>1. Judged([op |-> op, row |-> r, snap |-> held])
    OBVIOUS
  <2> HIDE DEF held
  <2> QED BY <2>1 DEF Judged
<1> HIDE DEF x
<1> QED BY <1>1, <1>2, <1>3 DEF Takes

LEMMA TakeSequential ==
    ASSUME IInv, Sequential, OneHandler, NEW p \in Procs, Takes(p)
    PROVE  Sequential' /\ UNCHANGED rows
<1>1. PICK x : Fresh(x) /\ Judged(x) /\ proc' = [proc EXCEPT ![p] = x] /\ UNCHANGED <<rows, granted>>
  BY DEF Takes
<1>2. \A q \in Procs : proc'[q] = x
  BY <1>1 DEF OneHandler, IInv, TypeOK
<1>3. \A q \in Procs : Fresh(proc[q])'
  BY <1>1, <1>2 DEF Fresh
<1>4. \A q \in Procs : Judged(proc[q])'
  BY <1>1, <1>2 DEF Judged
<1>5. RowsKnown' /\ ContactsAccounted'
  BY <1>1 DEF Sequential, RowsKnown, ContactsAccounted
<1> QED BY <1>1, <1>3, <1>4, <1>5 DEF Sequential

\* A row with a Stripe id is there, and not EXPIRED.
LEMMA RowStatus ==
    ASSUME IInv, RowsKnown, NEW r \in Ids
    PROVE  /\ rows[r].status \in LIVE_STATUSES \cup {"cancelled", "none"}
           /\ \A s \in Subs : rows[r].ext = s => rows[r].status # "none"
           /\ rows[r].status # "none" /\ "cancelled" \in Transitions[rows[r].status]
                => rows[r].status \in LIVE_STATUSES
<1>1. rows[r].status \in Statuses \cup {"none"}
  BY DEF IInv, TypeOK, Row
<1>2. \A s \in Subs : s # NoSub
  BY SubscriptionAssumption
<1> QED BY <1>1, <1>2, Table, ConstantTypes DEF RowsKnown, LIVE_STATUSES, Statuses

LEMMA DeliverTakes ==
    ASSUME IInv, RowsKnown, NEW e \in sent, Deliver(e)
    PROVE  UNCHANGED <<rows, granted, proc>> \/ \E p \in Procs : Takes(p)
<1>1. CASE recordOnly(e)
  BY <1>1 DEF recordOnly, Mark
<1>2. ASSUME NEW p \in Procs, activateLoad(p, e) PROVE Takes(p)
  <2>1. PICK r \in Ids \cup {0} :
          /\ r # 0 => rows[r].status \in {"trial", "past_due"}
          /\ Load(p, "activate", e, r, stripe[e.sub].plan, Quota[stripe[e.sub].plan])
    BY <1>2 DEF activateLoad, Newest, With
  <2>2. Judged([op |-> "activate", row |-> r, snap |-> IF r = 0 THEN Absent ELSE rows[r]])
    BY <2>1 DEF Judged
  <2>3. UNCHANGED <<rows, granted>>
    BY <1>2 DEF activateLoad
  <2> QED BY <2>1, <2>2, <2>3, LoadTakes
<1>3. ASSUME NEW p \in Procs, NEW op \in {"renew", "failed", "past_due", "cancelled"},
             NEW r \in Ids, Load(p, op, e, r, STARTER, 0), UNCHANGED <<rows, granted>>,
             op = "renew" => rows[r].status \in {"active", "past_due"},
             op \in {"failed", "past_due"} => rows[r].status = "active",
             op = "cancelled" => rows[r].status \in LIVE_STATUSES
      PROVE  Takes(p)
  <2>1. r # 0 /\ r \in Ids \cup {0}
    BY ConstantTypes
  <2>2. Judged([op |-> op, row |-> r, snap |-> IF r = 0 THEN Absent ELSE rows[r]])
    BY <1>3, <2>1 DEF Judged
  <2> QED BY <1>3, <2>1, <2>2, LoadTakes
<1>4. ASSUME NEW p \in Procs, renewLoad(p, e) PROVE Takes(p)
  BY <1>3, <1>4 DEF renewLoad, With, WithExt
<1>5. ASSUME NEW p \in Procs, failedLoad(p, e) PROVE Takes(p)
  BY <1>3, <1>5 DEF failedLoad, With
<1>6. ASSUME NEW p \in Procs, pastDueLoad(p, e) PROVE Takes(p)
  BY <1>3, <1>6 DEF pastDueLoad, With, WithExt
<1>7. ASSUME NEW p \in Procs, cancelledLoad(p, e) PROVE Takes(p)
  <2>1. PICK r \in Ids : /\ rows[r].ext = e.sub /\ "cancelled" \in Transitions[rows[r].status]
                         /\ Load(p, "cancelled", e, r, STARTER, 0)
    BY <1>7 DEF cancelledLoad, WithExt
  <2>2. e.sub \in Subs
    BY DEF IInv, TypeOK, Events
  <2>3. rows[r].status \in LIVE_STATUSES
    BY <2>1, <2>2, RowStatus
  <2> QED BY <1>3, <1>7, <2>1, <2>3 DEF cancelledLoad
<1> QED BY <1>1, <1>2, <1>4, <1>5, <1>6, <1>7 DEF Deliver

Loads(p) ==
    \/ cancelAtPeriodEndLoad(p) \/ \E plan \in Plans : changePlanLoad(p, plan)
    \/ adminCancelLoad(p) \/ suspendLoad(p) \/ reactivateLoad(p) \/ consumeLoad(p)
    \/ \E plan \in Plans : \E quota \in {Quota[plan]} \cup Overrides : assignPlanLoad(p, plan, quota)

LEMMA RequestTakes ==
    ASSUME IInv, RowsKnown, NEW p \in Procs, Loads(p)
    PROVE  Takes(p)
<1>0. \A r \in Ids : rows[r].status \in LIVE_STATUSES \cup {"cancelled", "none"}
  BY RowStatus
<1>1. ASSUME NEW op, NEW r \in Ids, NEW plan, NEW quota, Load(p, op, NoEvent, r, plan, quota),
             UNCHANGED <<rows, granted>>,
             Judged([op |-> op, row |-> r, snap |-> rows[r]])
      PROVE  Takes(p)
  <2>1. r # 0 /\ r \in Ids \cup {0}
    BY ConstantTypes
  <2> QED BY <1>1, <2>1, LoadTakes
<1>2. CASE cancelAtPeriodEndLoad(p)
  <2>1. PICK r \in Ids : /\ rows[r].status \in {"active", "past_due"}
                         /\ Load(p, "cancelAtPeriodEnd", NoEvent, r, STARTER, 0)
    BY <1>2 DEF cancelAtPeriodEndLoad, Newest, With
  <2>2. Judged([op |-> "cancelAtPeriodEnd", row |-> r, snap |-> rows[r]])
    BY <2>1, ConstantTypes DEF Judged
  <2> QED BY <1>1, <1>2, <2>1, <2>2 DEF cancelAtPeriodEndLoad
<1>3. ASSUME NEW plan \in Plans, changePlanLoad(p, plan) PROVE Takes(p)
  <2>1. PICK r \in Ids : /\ rows[r].status \in {"active", "past_due"}
                         /\ Load(p, "changePlan", NoEvent, r, plan, Quota[plan])
    BY <1>3 DEF changePlanLoad, Newest, With
  <2>2. Judged([op |-> "changePlan", row |-> r, snap |-> rows[r]])
    BY <2>1, ConstantTypes DEF Judged
  <2> QED BY <1>1, <1>3, <2>1, <2>2 DEF changePlanLoad
<1>4. CASE adminCancelLoad(p)
  <2>1. PICK r \in Ids : /\ rows[r].status \in Statuses
                         /\ Load(p, "adminCancel", NoEvent, r, STARTER, 0)
    BY <1>4 DEF adminCancelLoad, With
  <2>2. Judged([op |-> "adminCancel", row |-> r, snap |-> rows[r]])
    BY <1>0, <2>1, ConstantTypes DEF Judged, Statuses
  <2> QED BY <1>1, <1>4, <2>1, <2>2 DEF adminCancelLoad
<1>5. CASE suspendLoad(p)
  <2>1. PICK r \in Ids : /\ rows[r].status \in Statuses \ {"cancelled", "expired", "suspended"}
                         /\ Load(p, "suspend", NoEvent, r, STARTER, 0)
    BY <1>5 DEF suspendLoad, With
  <2>2. Judged([op |-> "suspend", row |-> r, snap |-> rows[r]])
    BY <2>1, ConstantTypes DEF Judged, Statuses
  <2> QED BY <1>1, <1>5, <2>1, <2>2 DEF suspendLoad
<1>6. CASE reactivateLoad(p)
  <2>1. PICK r \in Ids : rows[r].status = "suspended" /\ Load(p, "reactivate", NoEvent, r, STARTER, 0)
    BY <1>6 DEF reactivateLoad, With
  <2>2. Judged([op |-> "reactivate", row |-> r, snap |-> rows[r]])
    BY <2>1, ConstantTypes DEF Judged
  <2> QED BY <1>1, <1>6, <2>1, <2>2 DEF reactivateLoad
<1>7. CASE consumeLoad(p)
  <2>1. PICK r \in Ids : Load(p, "consume", NoEvent, r, STARTER, 0)
    BY <1>7 DEF consumeLoad, Consumable, With
  <2>2. Judged([op |-> "consume", row |-> r, snap |-> rows[r]])
    BY ConstantTypes DEF Judged
  <2> QED BY <1>1, <1>7, <2>1, <2>2 DEF consumeLoad
<1>8. ASSUME NEW plan \in Plans, NEW quota \in {Quota[plan]} \cup Overrides, assignPlanLoad(p, plan, quota)
      PROVE  Takes(p)
  <2>1. PICK r \in Ids \cup {0} : /\ r # 0 => rows[r].status \in LIVE_STATUSES
                                 /\ Load(p, "assignPlan", NoEvent, r, plan, quota)
    BY <1>8 DEF assignPlanLoad, Newest, With
  <2>2. Judged([op |-> "assignPlan", row |-> r, snap |-> IF r = 0 THEN Absent ELSE rows[r]])
    BY <2>1 DEF Judged
  <2>3. UNCHANGED <<rows, granted>>
    BY <1>8 DEF assignPlanLoad
  <2> QED BY <2>1, <2>2, <2>3, LoadTakes
<1> QED BY <1>2, <1>3, <1>4, <1>5, <1>6, <1>7, <1>8 DEF Loads

\* Consumption spends a contact of a row that is there.
LEMMA ConsumeRow ==
    ASSUME IInv, RowsKnown, NEW p \in Procs, Judged(proc[p]), consumeOneContact(p)
    PROVE  /\ proc[p].row \in Ids /\ proc' = [proc EXCEPT ![p] = Idle]
           /\ RowsKnown' /\ \A r \in Ids : rows'[r].status = rows[r].status
           /\ ContactsAccounted => ContactsAccounted'
<1> DEFINE c == proc[p].row
<1>1. /\ rows' = [rows EXCEPT ![c].used = @ + 1]
      /\ granted' = [granted EXCEPT ![c] = @ + 1]
      /\ proc' = [proc EXCEPT ![p] = Idle]
      /\ rows[c].used < rows[c].quota
  BY DEF consumeOneContact
<1>2. c \in Ids
  BY ProcTypes DEF consumeOneContact, IInv, Judged
<1>3. /\ \A r \in Ids : rows[r] \in Row /\ granted[r] \in Nat
      /\ rows \in [Ids -> Row] /\ granted \in [Ids -> Nat]
  BY DEF IInv, TypeOK
<1>4. /\ \A r \in Ids : r # c => rows'[r] = rows[r] /\ granted'[r] = granted[r]
      /\ rows'[c] = [rows[c] EXCEPT !.used = rows[c].used + 1] /\ granted'[c] = granted[c] + 1
  BY <1>1, <1>2, <1>3
<1>5. rows'[c].used = rows[c].used + 1 /\ rows'[c].status = rows[c].status
  BY <1>2, <1>3, <1>4 DEF Row
<1>6. rows[c].status # "none"
  <2>1. Absent.used = 0 /\ Absent.quota = 0
    BY DEF Absent
  <2> QED BY <1>1, <1>2, <2>1 DEF RowsKnown
<1>7. RowsKnown'
  BY <1>4, <1>5, <1>6 DEF RowsKnown
<1>8. ContactsAccounted => ContactsAccounted'
  BY <1>2, <1>4, <1>5 DEF ContactsAccounted
<1> QED BY <1>1, <1>2, <1>4, <1>5, <1>7, <1>8

LEMMA ConsumeSequential ==
    ASSUME IInv, Sequential, OneHandler, NEW p \in Procs, consumeOneContact(p)
    PROVE  Sequential' /\ \A r \in Ids : rows'[r].status = rows[r].status
<1>1. Judged(proc[p]) /\ RowsKnown /\ ContactsAccounted
  BY DEF Sequential
<1>2. /\ proc' = [proc EXCEPT ![p] = Idle] /\ RowsKnown' /\ ContactsAccounted'
      /\ \A r \in Ids : rows'[r].status = rows[r].status
  BY <1>1, ConsumeRow
<1>3. \A q \in Procs : Fresh(proc[q])' /\ Judged(proc[q])'
  BY <1>2, IdleSequential
<1> QED BY <1>2, <1>3 DEF Sequential

\* Next, sorted by what a step does to the rows.
LEMMA NextCases ==
    ASSUME Next
    PROVE  \/ UNCHANGED <<rows, granted, proc>>
           \/ \E e \in sent : Deliver(e)
           \/ \E p \in Procs : Saves(p) \/ Loads(p) \/ consumeOneContact(p) \/ Abort(p)
<1>1. Stripe \/ Tick \/ (\E s \in Subs, plan \in Plans : createCheckoutSession(s, plan))
        => UNCHANGED <<rows, granted, proc>>
  BY DEF Stripe, Tick, createCheckoutSession
<1>2. \A p \in Procs : WebhookSave(p) \/ Checkout(p) \/ Admin(p) \/ consumeLoad(p) => Saves(p) \/ Loads(p)
  BY DEF Checkout, Admin, Saves, Loads
<1> QED BY <1>1, <1>2 DEF Next

LEMMA SequentialStep ==
    ASSUME IInv, Sequential, OneHandler, [Next]_vars
    PROVE  Sequential' /\ \A r \in Ids : Move(r)
<1>1. UNCHANGED <<rows, granted, proc>> => Sequential' /\ \A r \in Ids : Move(r)
  BY DEF Sequential, RowsKnown, ContactsAccounted, Fresh, Judged, Move
<1>2. ASSUME NEW e \in sent, Deliver(e) PROVE Sequential' /\ \A r \in Ids : Move(r)
  <2>1. CASE UNCHANGED <<rows, granted, proc>>
    BY <1>1, <2>1
  <2>2. ASSUME NEW p \in Procs, Takes(p) PROVE Sequential' /\ \A r \in Ids : Move(r)
    BY <2>2, TakeSequential DEF Move
  <2> QED BY <1>2, <2>1, <2>2, DeliverTakes DEF Sequential
<1>3. ASSUME NEW p \in Procs, Saves(p) PROVE Sequential' /\ \A r \in Ids : Move(r)
  BY <1>3, SaveSequential
<1>4. ASSUME NEW p \in Procs, Loads(p) PROVE Sequential' /\ \A r \in Ids : Move(r)
  <2>1. Takes(p)
    BY <1>4, RequestTakes DEF Sequential
  <2> QED BY <2>1, TakeSequential DEF Move
<1>5. ASSUME NEW p \in Procs, consumeOneContact(p) PROVE Sequential' /\ \A r \in Ids : Move(r)
  BY <1>5, ConsumeSequential DEF Move
<1>6. ASSUME NEW p \in Procs, Abort(p) PROVE Sequential' /\ \A r \in Ids : Move(r)
  <2>1. proc' = [proc EXCEPT ![p] = Idle] /\ UNCHANGED <<rows, granted>>
    BY <1>6 DEF Abort
  <2>2. \A q \in Procs : Fresh(proc[q])' /\ Judged(proc[q])'
    BY <2>1, IdleSequential
  <2> QED BY <2>1, <2>2 DEF Sequential, RowsKnown, ContactsAccounted, Move
<1> QED BY <1>1, <1>2, <1>3, <1>4, <1>5, <1>6, NextCases DEF vars

LEMMA InitSequential == Init => Sequential
<1> SUFFICES ASSUME Init PROVE Sequential
  OBVIOUS
<1>1. \A p \in Procs : proc[p].op = "idle" /\ proc[p].row = 0 /\ proc[p].snap = Absent
  BY ConstantTypes DEF Init
<1>2. \A p \in Procs : Fresh(proc[p]) /\ Judged(proc[p])
  BY <1>1 DEF Fresh, Judged
<1>3. Trial.status = "trial" /\ Trial.used = 0 /\ Absent.status = "none" /\ Absent.used = 0
  BY DEF Trial, Absent
<1>4. RowsKnown /\ ContactsAccounted
  BY <1>3 DEF Init, RowsKnown, ContactsAccounted
<1> QED BY <1>2, <1>4 DEF Sequential

LEMMA SequentialAlways ==
    ASSUME OneHandler
    PROVE  Spec => [](IInv /\ Sequential)
<1>1. Init => IInv /\ Sequential
  BY InitIInv, InitSequential
<1>2. (IInv /\ Sequential) /\ [Next]_vars => (IInv /\ Sequential)'
  BY IInvStep, SequentialStep
<1> QED BY <1>1, <1>2, PTL DEF Spec

\* As long as handlers do not overlap, webhooks in any order, the customer and the back
\* office make only the moves of SUBSCRIPTION_STATUS_TRANSITIONS, and create rows ACTIVE.
THEOREM OnlyLegalMoves ==
    ASSUME OneHandler
    PROVE  Spec => LegalMoves
<1>1. (IInv /\ Sequential) /\ [Next]_vars =>
        [\A r \in Ids : rows'[r].status # rows[r].status =>
            IF rows[r].status = "none" THEN rows'[r].status = "active"
            ELSE rows'[r].status \in Transitions[rows[r].status]]_vars
  BY SequentialStep DEF Move
<1> QED BY <1>1, SequentialAlways, PTL DEF Spec, LegalMoves

\* As long as handlers do not overlap, a CANCELLED or EXPIRED row keeps its status.
THEOREM TerminalRowsStay ==
    ASSUME OneHandler
    PROVE  Spec => NeverResurrected
<1>1. (IInv /\ Sequential) /\ [Next]_vars =>
        [\A r \in Ids : rows[r].status \in {"cancelled", "expired"} =>
                       rows'[r].status = rows[r].status]_vars
  <2> SUFFICES ASSUME IInv, Sequential, [Next]_vars, NEW r \in Ids,
                      rows[r].status \in {"cancelled", "expired"}
               PROVE  rows'[r].status = rows[r].status
    OBVIOUS
  <2>1. Move(r)
    BY SequentialStep
  <2> QED BY <2>1, Table DEF Move
<1> QED BY <1>1, SequentialAlways, PTL DEF Spec, NeverResurrected

\* As long as handlers do not overlap, contacts_used is what was opened since the last
\* reset: no save forgives or invents consumption.
THEOREM ConsumptionIsExact ==
    ASSUME OneHandler
    PROVE  Spec => []ContactsAccounted
<1>1. IInv /\ Sequential => ContactsAccounted
  BY DEF Sequential
<1> QED BY <1>1, SequentialAlways, PTL

---------------------------------------------------------------------------------
\* Handlers that overlap still act on rows they were allowed to take up.
Considered == RowsKnown /\ \A p \in Procs : Judged(proc[p])

\* What RevivedByOverlapOnly says of one row.
Kept(r) ==
    rows[r].status \in Terminal =>
        /\ Stale(r)' \subseteq Stale(r)
        /\ rows'[r].status # rows[r].status => Stale(r)' # Stale(r)

\* A process that has ended holds nothing, and the others hold what they held.
LEMMA IdleKept ==
    ASSUME TypeOK, NEW p \in Procs, proc' = [proc EXCEPT ![p] = Idle], \A q \in Procs : Judged(proc[q])
    PROVE  /\ \A q \in Procs : Judged(proc[q])'
           /\ \A r \in Ids : Stale(r)' = Stale(r) \ {p}
<1>1. proc'[p] = Idle /\ \A q \in Procs \ {p} : proc'[q] = proc[q]
  BY DEF TypeOK
<1>2. \A q \in Procs : Judged(proc[q])'
  BY <1>1, ConstantTypes DEF Judged
<1>3. \A r \in Ids : Stale(r)' = Stale(r) \ {p}
  BY <1>1, ConstantTypes DEF Stale
<1> QED BY <1>2, <1>3

\* A row taken up when it is terminal is not held stale.
LEMMA TakeKept ==
    ASSUME IInv, Considered, NEW p \in Procs, Takes(p)
    PROVE  Considered' /\ \A r \in Ids : Kept(r)
<1>1. PICK x : /\ proc[p].op = "idle" /\ Fresh(x) /\ Judged(x)
               /\ proc' = [proc EXCEPT ![p] = x] /\ UNCHANGED <<rows, granted>>
  BY DEF Takes
<1>2. proc'[p] = x /\ \A q \in Procs \ {p} : proc'[q] = proc[q]
  BY <1>1 DEF IInv, TypeOK
<1>3. Considered'
  BY <1>1, <1>2 DEF Considered, RowsKnown, Judged
<1>4. ASSUME NEW r \in Ids, rows[r].status \in Terminal PROVE Stale(r)' \subseteq Stale(r)
  <2>1. x.row = r => x.snap = rows[r]
    BY <1>1, ConstantTypes DEF Fresh
  <2>2. p \notin Stale(r)'
    BY <1>2, <1>4, <2>1 DEF Stale
  <2>3. \A q \in Procs \ {p} : q \in Stale(r)' => q \in Stale(r)
    BY <1>2 DEF Stale
  <2> QED BY <2>2, <2>3 DEF Stale
<1> QED BY <1>1, <1>3, <1>4 DEF Kept

\* What a save makes of a terminal row that its process has not held as terminal.
LEMMA SaveKept ==
    ASSUME IInv, Considered, NEW p \in Procs, Saves(p)
    PROVE  Considered' /\ \A r \in Ids : Kept(r)
<1>1. PICK new \in Row : Save(p, new) /\ Shape(p, new)
  BY SaveShape DEF Considered
<1>2. PICK r \in Ids :
        /\ rows'[r] = new /\ \A q \in Ids : q # r => rows'[q] = rows[q]
        /\ IF proc[p].row = 0 THEN rows[r].status = "none" ELSE r = proc[p].row
        /\ proc' = [proc EXCEPT ![p] = Idle]
  BY <1>1, SaveWrites
<1>3. /\ \A q \in Procs : Judged(proc[q])'
      /\ \A q \in Ids : Stale(q)' = Stale(q) \ {p}
  BY <1>2, IdleKept DEF IInv, Considered
<1>4. RowsKnown'
  BY <1>1, <1>2 DEF Considered, RowsKnown, Shape, LIVE_STATUSES
<1>5. ASSUME rows[r].status \in Terminal, new.status # rows[r].status PROVE p \in Stale(r)
  <2>1. proc[p].op \in {"activate", "renew", "failed", "past_due", "cancelled", "cancelAtPeriodEnd",
                        "changePlan", "adminCancel", "suspend", "reactivate", "assignPlan"}
    BY DEF Saves, WebhookSave, activateSave, renewSave, failedSave, pastDueSave, cancelledSave,
           cancelAtPeriodEndSave, changePlanSave, adminCancelSave, suspendSave, reactivateSave,
           assignPlanSave
  <2>2. proc[p].row = r /\ proc[p].row # 0
    BY <1>2, <1>5, ConstantTypes DEF Terminal
  <2>3. rows[r].status = "cancelled"
    BY <1>5 DEF Considered, RowsKnown, Terminal
  <2>4. Legal(proc[p].snap.status, new.status)
    BY <1>1, <2>2 DEF Shape
  <2>5. proc[p].snap.status # "cancelled"
    BY <1>5, <2>3, <2>4, Table DEF Legal
  <2>6. proc[p].snap.status # "expired"
    BY <2>1, <2>2 DEF Considered, Judged, LIVE_STATUSES
  <2> QED BY <2>1, <2>2, <2>5, <2>6 DEF Stale, Terminal
<1>6. ASSUME NEW q \in Ids PROVE Kept(q)
  <2>1. CASE q # r
    BY <1>2, <1>3, <2>1 DEF Kept
  <2>2. CASE q = r
    BY <1>2, <1>3, <1>5, <2>2 DEF Kept
  <2> QED BY <2>1, <2>2
<1> QED BY <1>3, <1>4, <1>6 DEF Considered

LEMMA KeptStep ==
    ASSUME IInv, Considered, [Next]_vars
    PROVE  Considered' /\ \A r \in Ids : Kept(r)
<1>1. UNCHANGED <<rows, granted, proc>> => Considered' /\ \A r \in Ids : Kept(r)
  BY DEF Considered, RowsKnown, Judged, Kept, Stale
<1>2. ASSUME NEW e \in sent, Deliver(e) PROVE Considered' /\ \A r \in Ids : Kept(r)
  BY <1>1, <1>2, DeliverTakes, TakeKept DEF Considered
<1>3. ASSUME NEW p \in Procs, Saves(p) PROVE Considered' /\ \A r \in Ids : Kept(r)
  BY <1>3, SaveKept
<1>4. ASSUME NEW p \in Procs, Loads(p) PROVE Considered' /\ \A r \in Ids : Kept(r)
  BY <1>4, RequestTakes, TakeKept DEF Considered
<1>5. ASSUME NEW p \in Procs, consumeOneContact(p) PROVE Considered' /\ \A r \in Ids : Kept(r)
  <2>1. /\ proc' = [proc EXCEPT ![p] = Idle] /\ RowsKnown'
        /\ \A r \in Ids : rows'[r].status = rows[r].status
    BY <1>5, ConsumeRow DEF Considered
  <2>2. /\ \A q \in Procs : Judged(proc[q])'
        /\ \A r \in Ids : Stale(r)' \subseteq Stale(r)
    BY <2>1, IdleKept DEF IInv, Considered
  <2> QED BY <2>1, <2>2 DEF Considered, Kept
<1>6. ASSUME NEW p \in Procs, Abort(p) PROVE Considered' /\ \A r \in Ids : Kept(r)
  <2>1. proc' = [proc EXCEPT ![p] = Idle] /\ UNCHANGED <<rows, granted>>
    BY <1>6 DEF Abort
  <2>2. /\ \A q \in Procs : Judged(proc[q])'
        /\ \A r \in Ids : Stale(r)' \subseteq Stale(r)
    BY <2>1, IdleKept DEF IInv, Considered
  <2> QED BY <2>1, <2>2 DEF Considered, RowsKnown, Kept
<1> QED BY <1>1, <1>2, <1>3, <1>4, <1>5, <1>6, NextCases DEF vars

\* For any number of handlers that overlap in any way, the webhooks, the customer and
\* the back office revive a terminal row only by saving an entity that was loaded before
\* the row became terminal, once for each entity held.
THEOREM RevivalsAreStale == Spec => RevivedByOverlapOnly
<1>1. Init => Considered
  BY InitSequential DEF Sequential, Considered
<1>2. (IInv /\ Considered) /\ [Next]_vars => Considered'
  BY KeptStep
<1>3. (IInv /\ Considered) /\ [Next]_vars =>
        [\A r \in Ids : rows[r].status \in Terminal =>
            /\ Stale(r)' \subseteq Stale(r)
            /\ rows'[r].status # rows[r].status => Stale(r)' # Stale(r)]_vars
  BY KeptStep DEF Kept
<1> QED BY <1>1, <1>2, <1>3, IInvAlways, PTL DEF Spec, RevivedByOverlapOnly

---------------------------------------------------------------------------------
\* Without the back office, no handler under way is one of its operations.
LEMMA NoBackOffice ==
    ASSUME TypeOK, Ops \cap BackOffice = {}, NEW p \in Procs
    PROVE  proc[p].op \notin BackOffice
<1>1. proc[p].op \in Ops \cup {"idle"}
  BY DEF TypeOK
<1>2. "idle" \notin BackOffice
  BY DEF BackOffice
<1> QED BY <1>1, <1>2

\* A row is in force while it is newest; a new one is inserted when none is in force.
LEMMA SaveInOrder ==
    ASSUME IInv, Sequential, InOrder, GuardSeesRowInForce, OneHandler, Ops \cap BackOffice = {},
           NEW p \in Procs, Saves(p)
    PROVE  InOrder' /\ GuardSeesRowInForce'
<1> DEFINE InForce == {"trial", "active", "past_due"}
<1>1. PICK new \in Row : Save(p, new) /\ Shape(p, new)
  BY SaveShape DEF Sequential
<1>2. PICK r \in Ids :
        /\ UniqueIndexAllows(r, new)
        /\ rows'[r] = new /\ \A q \in Ids : q # r => rows'[q] = rows[q]
        /\ IF proc[p].row = 0
             THEN rows[r].status = "none" /\ \A q \in Ids : q < r => rows[q].status # "none"
             ELSE r = proc[p].row /\ rows[r] = proc[p].snap
        /\ proc' = [proc EXCEPT ![p] = Idle]
  BY <1>1, SaveEffect
<1>3. proc[p].op \notin BackOffice
  BY NoBackOffice DEF IInv
<1>4. new.status \in {"trial", "active", "past_due", "cancelled"}
  <2>1. proc[p].snap.status # "suspended"
    <3>1. CASE proc[p].row = 0
      BY <3>1 DEF Sequential, Fresh, Absent
    <3>2. CASE proc[p].row # 0
      BY <1>2, <3>2 DEF InOrder
    <3> QED BY <3>1, <3>2
  <2> QED BY <1>1, <1>3, <2>1 DEF Shape, LIVE_STATUSES
<1>5. /\ \A q \in Ids : rows[q].status \in Statuses \cup {"none"} /\ rows[q].status # "expired"
      /\ \A q \in Ids : rows[q].status # "suspended"
  BY DEF IInv, TypeOK, Row, Sequential, RowsKnown, InOrder
<1>6. \A q \in Procs : proc'[q].op = "idle"
  BY <1>2, ConstantTypes DEF OneHandler, IInv, TypeOK
<1>7. \A q \in Ids : q \in Nat
  BY DEF Ids
<1>8. CASE proc[p].row = 0
  <2>1. \A q \in Ids : r < q => rows[q].status = "none"
    BY <1>2, <1>8 DEF InOrder
  <2>2. \A q \in Ids : rows[q].status \notin InForce
    <3>1. new.status = "active" /\ proc[p].op = "activate"
      BY <1>1, <1>3, <1>8 DEF Shape
    <3>2. With({"trial", "past_due"}) = {}
      BY <1>8, <3>1 DEF InOrder
    <3>3. With({"trial", "active"}) \subseteq {r}
      BY <1>2, <3>1 DEF UniqueIndexAllows
    <3> QED BY <1>2, <1>8, <3>2, <3>3 DEF With
  <2>3. \A x, y \in Ids : x < y /\ rows'[y].status # "none" => rows'[x].status # "none"
    BY <1>2, <1>4, <1>7, <1>8, <2>1
  <2>4. InOrder'
    BY <1>2, <1>4, <1>5, <1>6, <2>3 DEF InOrder
  <2>5. ASSUME NEW x \in Ids, rows'[x].status \in InForce, NEW y \in Ids, rows'[y].status \in Statuses
        PROVE  y <= x
    <3>1. x = r
      BY <1>2, <2>2, <2>5
    <3>2. y = r \/ ~ (r < y)
      BY <1>2, <2>1, <2>5 DEF Statuses
    <3> QED BY <1>7, <3>1, <3>2
  <2>6. GuardSeesRowInForce'
    <3>1. InForce \subseteq Statuses
      BY DEF Statuses
    <3> QED BY <2>5, <3>1 DEF GuardSeesRowInForce, Newest, With
  <2> QED BY <2>4, <2>6
<1>9. CASE proc[p].row # 0
  <2>1. Legal(rows[r].status, new.status)
    BY <1>1, <1>2, <1>9 DEF Shape
  <2>2. rows[r].status # "none"
    <3>1. proc[p].op \in {"activate", "renew", "failed", "past_due", "cancelled",
                          "cancelAtPeriodEnd", "changePlan", "adminCancel", "suspend",
                          "reactivate", "assignPlan"}
      BY DEF Saves, WebhookSave, activateSave, renewSave, failedSave, pastDueSave, cancelledSave,
             cancelAtPeriodEndSave, changePlanSave, adminCancelSave, suspendSave, reactivateSave,
             assignPlanSave
    <3>2. proc[p].snap.status # "none"
      BY <1>9, <3>1 DEF Sequential, Judged, LIVE_STATUSES
    <3> QED BY <1>2, <1>9, <3>2
  <2>3. new.status \in InForce => rows[r].status \in InForce
    BY <1>5, <2>1, <2>2, Table DEF Legal, Statuses
  <2>4. \A q \in Ids : rows'[q].status = "none" <=> rows[q].status = "none"
    BY <1>2, <1>4, <2>2
  <2>5. InOrder'
    BY <1>2, <1>4, <1>5, <1>6, <2>4 DEF InOrder
  <2>6. ASSUME NEW x \in Ids, rows'[x].status \in InForce, NEW y \in Ids, rows'[y].status \in Statuses
        PROVE  y <= x
    <3>1. rows[x].status \in InForce
      BY <1>2, <2>3, <2>6
    <3>2. rows[y].status \in Statuses
      BY <1>5, <2>4, <2>6 DEF Statuses
    <3> QED BY <3>1, <3>2 DEF GuardSeesRowInForce, Newest, With
  <2>7. GuardSeesRowInForce'
    <3>1. InForce \subseteq Statuses
      BY DEF Statuses
    <3> QED BY <2>6, <3>1 DEF GuardSeesRowInForce, Newest, With
  <2> QED BY <2>5, <2>7
<1> QED BY <1>8, <1>9

\* A step that keeps every status keeps the order, if nobody newly sets out to insert.
LEMMA SameStatuses ==
    ASSUME InOrder, GuardSeesRowInForce, \A r \in Ids : rows'[r].status = rows[r].status,
           \A p \in Procs : proc'[p].op = "activate" /\ proc'[p].row = 0 => With({"trial", "past_due"}) = {}
    PROVE  InOrder' /\ GuardSeesRowInForce'
<1>1. \A S : With(S)' = With(S)
  BY DEF With
<1>2. InOrder'
  BY <1>1 DEF InOrder
<1>3. GuardSeesRowInForce'
  BY <1>1 DEF GuardSeesRowInForce, Newest
<1> QED BY <1>2, <1>3

LEMMA InOrderStep ==
    ASSUME IInv, Sequential, InOrder, GuardSeesRowInForce, OneHandler, Ops \cap BackOffice = {},
           [Next]_vars
    PROVE  InOrder' /\ GuardSeesRowInForce'
<1>1. CASE UNCHANGED <<rows, proc>>
  BY <1>1, SameStatuses DEF InOrder
<1>2. ASSUME NEW e \in sent, Deliver(e) PROVE InOrder' /\ GuardSeesRowInForce'
  <2>1. UNCHANGED rows
    BY <1>2, DeliverTakes DEF Sequential, Takes
  <2>2. CASE recordOnly(e)
    BY <2>1, <2>2, SameStatuses DEF recordOnly, Mark, InOrder
  <2>3. ASSUME NEW p \in Procs, activateLoad(p, e) PROVE InOrder' /\ GuardSeesRowInForce'
    <3>1. PICK r \in Ids \cup {0} :
            /\ r = 0 => With({"trial", "past_due"}) = {}
            /\ Load(p, "activate", e, r, stripe[e.sub].plan, Quota[stripe[e.sub].plan])
      BY <2>3, ConstantTypes DEF activateLoad, Newest, With
    <3>2. \A q \in Procs : proc'[q].row = r
      BY <3>1 DEF Load, OneHandler, IInv, TypeOK
    <3> QED BY <2>1, <3>1, <3>2, SameStatuses
  <2>4. ASSUME NEW p \in Procs,
               renewLoad(p, e) \/ failedLoad(p, e) \/ pastDueLoad(p, e) \/ cancelledLoad(p, e)
        PROVE  InOrder' /\ GuardSeesRowInForce'
    <3>1. \A q \in Procs : proc'[q].op # "activate"
      BY <2>4 DEF renewLoad, failedLoad, pastDueLoad, cancelledLoad, Load, OneHandler, IInv, TypeOK
    <3> QED BY <2>1, <3>1, SameStatuses
  <2> QED BY <1>2, <2>2, <2>3, <2>4 DEF Deliver
<1>3. ASSUME NEW p \in Procs, Saves(p) PROVE InOrder' /\ GuardSeesRowInForce'
  BY <1>3, SaveInOrder
<1>4. ASSUME NEW p \in Procs, Loads(p) PROVE InOrder' /\ GuardSeesRowInForce'
  <2>1. UNCHANGED rows
    BY <1>4, RequestTakes DEF Sequential, Takes
  <2>2. \A q \in Procs : proc'[q].op # "activate"
    <3>1. PICK op \in {"cancelAtPeriodEnd", "changePlan", "adminCancel", "suspend", "reactivate",
                       "consume", "assignPlan"} :
            \E e, r, plan, quota : Load(p, op, e, r, plan, quota)
      BY <1>4 DEF Loads, cancelAtPeriodEndLoad, changePlanLoad, adminCancelLoad, suspendLoad,
                  reactivateLoad, consumeLoad, assignPlanLoad
    <3>2. proc'[p].op = op
      BY <3>1 DEF Load, IInv, TypeOK
    <3> QED BY <3>1, <3>2 DEF OneHandler
  <2> QED BY <2>1, <2>2, SameStatuses
<1>5. ASSUME NEW p \in Procs, consumeOneContact(p) \/ Abort(p) PROVE InOrder' /\ GuardSeesRowInForce'
  <2>1. proc' = [proc EXCEPT ![p] = Idle]
    BY <1>5 DEF consumeOneContact, Abort
  <2>2. \A q \in Procs : proc'[q].op = "idle"
    BY <2>1, ConstantTypes DEF OneHandler, IInv, TypeOK
  <2>3. \A r \in Ids : rows'[r].status = rows[r].status
    BY <1>5, ConsumeSequential DEF Abort
  <2> QED BY <2>2, <2>3, SameStatuses
<1> QED BY <1>1, <1>2, <1>3, <1>4, <1>5, NextCases DEF vars

\* Without the back office and as long as handlers do not overlap, the newest row, which
\* assertActiveSubscription judges, is the one in force, however activations, renewals
\* and cancellations of any number of Stripe subscriptions are reordered.
THEOREM GuardJudgesRowInForce ==
    ASSUME OneHandler, Ops \cap BackOffice = {}
    PROVE  Spec => []GuardSeesRowInForce
<1>1. Init => InOrder /\ GuardSeesRowInForce
  <2> SUFFICES ASSUME Init PROVE InOrder /\ GuardSeesRowInForce
    OBVIOUS
  <2>1. \A r \in Ids : rows[r].status = IF r = 1 THEN "trial" ELSE "none"
    BY DEF Init, Trial, Absent
  <2>2. \A p \in Procs : proc[p].op = "idle"
    BY ConstantTypes DEF Init
  <2>3. \A r \in Ids : r \in Nat /\ 1 <= r
    BY SubscriptionAssumption DEF Ids
  <2>4. InOrder
    BY <2>1, <2>2, <2>3 DEF InOrder
  <2>5. GuardSeesRowInForce
    BY <2>1, <2>3 DEF GuardSeesRowInForce, Newest, With, Statuses
  <2> QED BY <2>4, <2>5
<1>2. (IInv /\ Sequential) /\ (InOrder /\ GuardSeesRowInForce) /\ [Next]_vars
        => (InOrder /\ GuardSeesRowInForce)'
  BY InOrderStep
<1> QED BY <1>1, <1>2, SequentialAlways, PTL DEF Spec
=================================================================================
