--------------------------- MODULE AssessmentsProofs ----------------------------
(***************************************************************************)
(* Safety of attempts, scores, indexation and cooldown notifications, for  *)
(* any number of attempts, tests and concurrent handlers.                  *)
(*                                                                         *)
(* The difficulty is what stale saves can bring back.  HeldInv says what   *)
(* the entities in memory can still write, DayInv that a request which     *)
(* holds a COMPLETED attempt holds it on the day of its completion, and    *)
(* DoneInv that a claimed or listed attempt was completed on an earlier    *)
(* day: together, nobody is left who could reset a notification marker.    *)
(***************************************************************************)
EXTENDS Assessments, TLAPS

\* The handlers that hold an attempt's entity and will write it.
Request == {"insert", "save", "score", "complete"}

Earned == \E a \in Attempts : score[a] \in {"pass", "ranked", "slipped", "expired"}

Held(h) ==
    /\ h.op \in Request \cup {"claim", "notify"} => h.attempt \in Attempts
    /\ h.op \in Request => ~ h.row.notified
    /\ h.op \in {"insert", "save"} => h.row.status # "completed"
    /\ h.op = "complete" => score[h.attempt] # "none"
    /\ h.op \in {"edit", "profile"} /\ h.indexed => Earned

HeldInv == \A p \in Procs : Held(proc[p])

Today(h) == h.op \in Request /\ rows[h.attempt].status = "completed"
                => rows[h.attempt].completedAt = now

DayInv == \A p \in Procs : Today(proc[p])

Done(a) == rows[a].status = "completed" /\ rows[a].completedAt \in Nat /\ rows[a].completedAt < now

DoneInv ==
    /\ \A a \in Attempts : rows[a].notified => Done(a)
    /\ \A p \in Procs : proc[p].op \in {"claim", "notify"} => Done(proc[p].attempt)

NotifyInv ==
    /\ \A a \in Attempts : sent[a] <= 1 /\ (sent[a] = 1 => rows[a].notified)
    /\ \A p \in Procs : proc[p].op = "notify" =>
          /\ rows[proc[p].attempt].notified
          /\ sent[proc[p].attempt] = 0
          /\ \A q \in Procs : proc[q].op = "notify" /\ proc[q].attempt = proc[p].attempt => q = p

IInv == /\ TypeOK /\ HeldInv /\ DayInv /\ DoneInv /\ NotifyInv
        /\ CompletedIsScored /\ IndexedIsEarned

---------------------------------------------------------------------------------
LEMMA UnusedIsRow == Unused \in Row /\ Unused.status = "none" /\ Unused.notified = FALSE
BY AssessmentAssumption DEF Row, Unused

LEMMA Start == Init => IInv
<1> SUFFICES ASSUME Init PROVE IInv
  OBVIOUS
<1> USE AssessmentAssumption DEF Init
<1>1. TypeOK
  <2>1. Idle \in Handler
    BY UnusedIsRow DEF Handler, Idle, Results
  <2>2. rows \in [Attempts -> Row] /\ proc \in [Procs -> Handler]
    BY <2>1, UnusedIsRow
  <2>3. now \in 0..MaxTime /\ sent \in [Attempts -> Nat]
    OBVIOUS
  <2>4. overtime \subseteq Attempts /\ score \in [Attempts -> Worth]
    BY DEF Worth
  <2> QED
    BY <2>2, <2>3, <2>4 DEF TypeOK
<1>2. HeldInv /\ DayInv
  BY DEF HeldInv, Held, DayInv, Today, Idle, Request
<1>3. DoneInv
  BY DEF DoneInv, Idle, Unused
<1>3a. NotifyInv
  BY DEF NotifyInv, Idle, Unused
<1>4. CompletedIsScored /\ IndexedIsEarned
  BY DEF CompletedIsScored, IndexedIsEarned, With, Unused
<1> QED
  BY <1>1, <1>2, <1>3, <1>3a, <1>4 DEF IInv

\* A handler that only takes or drops entities, writing nothing.
LEMMA StepOfOne ==
    ASSUME IInv, NEW p \in Procs, NEW h \in Handler, proc' = [proc EXCEPT ![p] = h],
           UNCHANGED <<now, rows, overtime, score, complete, indexed, sent>>,
           Held(h), Today(h), h.op = "claim" => Done(h.attempt), h.op # "notify"
    PROVE  IInv'
<1>1. proc'[p] = h /\ (\A q \in Procs \ {p} : proc'[q] = proc[q]) /\ proc' \in [Procs -> Handler]
  BY DEF IInv, TypeOK
<1>2. TypeOK'
  BY <1>1 DEF IInv, TypeOK
<1>3. HeldInv' /\ DayInv'
  BY <1>1 DEF IInv, HeldInv, Held, DayInv, Today, Earned
<1>4. DoneInv'
  BY <1>1 DEF IInv, DoneInv, Done
<1>5. NotifyInv'
  BY <1>1 DEF IInv, NotifyInv
<1>6. CompletedIsScored' /\ IndexedIsEarned'
  BY DEF IInv, CompletedIsScored, IndexedIsEarned, With
<1> QED
  BY <1>2, <1>3, <1>4, <1>5, <1>6 DEF IInv

LEMMA IdleIsHandler ==
    /\ Idle \in Handler /\ Idle.op = "idle"
    /\ Held(Idle) /\ Today(Idle)
BY AssessmentAssumption DEF Idle, Handler, Row, Unused, Results, Held, Today, Request

\* The requests: an entity of an attempt that is not COMPLETED.
LEMMA StepRequest ==
    ASSUME IInv, NEW p \in Procs, NEW op \in {"insert", "save", "score"},
           NEW a \in Attempts, NEW row \in Row, NEW result \in Results,
           rows[a].status # "completed", row.status # "completed", ~ row.notified,
           Begin(p, op, a, row, result)
    PROVE  IInv'
<1> DEFINE h == [Idle EXCEPT !.op = op, !.attempt = a, !.row = row, !.result = result]
<1>1. h \in Handler /\ h.op = op /\ h.attempt = a /\ h.row = row
  BY IdleIsHandler DEF Handler, Idle
<1>2. proc' = [proc EXCEPT ![p] = h]
      /\ UNCHANGED <<now, rows, overtime, score, complete, indexed, sent>>
  BY DEF Begin, Hold
<1> HIDE DEF h
<1>3. Held(h) /\ Today(h)
  BY <1>1 DEF Held, Today, Request
<1> QED
  BY <1>1, <1>2, <1>3, StepOfOne

\* An attempt that is not COMPLETED carries no marker.
LEMMA NotDone ==
    ASSUME IInv, NEW a \in Attempts, rows[a].status # "completed"
    PROVE  ~ rows[a].notified /\ rows[a] \in Row
BY DEF IInv, TypeOK, DoneInv, Done

LEMMA StepStart ==
    ASSUME IInv, NEW p \in Procs, NEW t \in Tests, startAssessment(p, t)
    PROVE  IInv'
<1> PICK a \in With("none") :
      Begin(p, "insert", a, [Unused EXCEPT !.status = "in_progress", !.test = t], "fail")
  BY DEF startAssessment
<1> DEFINE row == [Unused EXCEPT !.status = "in_progress", !.test = t]
<1>1. row \in Row /\ row.status = "in_progress" /\ row.notified = FALSE
  BY UnusedIsRow DEF Row
<1>2. a \in Attempts /\ rows[a].status # "completed" /\ "fail" \in Results
  BY DEF With, Results
<1> HIDE DEF row
<1>3. Begin(p, "insert", a, row, "fail")
  BY DEF row
<1> QED
  BY <1>1, <1>2, <1>3, StepRequest

\* resume, incident, late submission: the row with another status.
LEMMA StepStatus ==
    ASSUME IInv, NEW p \in Procs, NEW a \in Attempts, NEW s \in {"in_progress", "incident"},
           rows[a].status # "completed",
           Begin(p, "save", a, [rows[a] EXCEPT !.status = s], "fail")
    PROVE  IInv'
<1> DEFINE row == [rows[a] EXCEPT !.status = s]
<1>1. row \in Row /\ row.status # "completed" /\ ~ row.notified
  BY NotDone DEF Row
<1>2. "fail" \in Results
  BY DEF Results
<1> HIDE DEF row
<1>3. Begin(p, "save", a, row, "fail")
  BY DEF row
<1> QED
  BY <1>1, <1>2, <1>3, StepRequest

LEMMA StepProctoring ==
    ASSUME IInv, NEW p \in Procs, NEW a \in Attempts, NEW n \in 0..MaxLeaves,
           recordProctoringEvents(p, a, n)
    PROVE  IInv'
<1> DEFINE leaves == IF n > rows[a].leaves THEN n ELSE rows[a].leaves
           flagged == rows[a].flagged \/ leaves >= FlagAt
           status == IF leaves >= VoidAt THEN "incident" ELSE rows[a].status
           row == [rows[a] EXCEPT !.leaves = leaves, !.flagged = flagged, !.status = status]
<1>1. rows[a].status = "in_progress" /\ rows[a] \in Row /\ ~ rows[a].notified
  BY NotDone DEF recordProctoringEvents, With
<1>2. leaves \in 0..MaxLeaves /\ flagged \in BOOLEAN /\ status \in {"in_progress", "incident"}
  BY <1>1, AssessmentAssumption DEF Row
<1>3. Begin(p, "save", a, row, "fail")
  BY DEF recordProctoringEvents
<1> HIDE DEF leaves, flagged, status
<1>4. row \in Row /\ row.status # "completed" /\ ~ row.notified
  BY <1>1, <1>2 DEF Row
<1>5. "fail" \in Results
  BY DEF Results
<1> HIDE DEF row
<1> QED
  BY <1>1, <1>3, <1>4, <1>5, StepRequest

LEMMA StepFinalize ==
    ASSUME IInv, NEW p \in Procs, NEW a \in Attempts, NEW result \in Results,
           finalizeAssessment(p, a, result)
    PROVE  IInv'
<1>1. rows[a].status # "completed"
  BY DEF finalizeAssessment, IInv, CompletedIsScored, With
<1> QED
  BY <1>1, NotDone, StepRequest DEF finalizeAssessment

LEMMA StepSweep ==
    ASSUME IInv, NEW p \in Procs, NEW a \in Attempts, runCooldownSweep(p, a)
    PROVE  IInv'
<1> DEFINE h == [Idle EXCEPT !.op = "claim", !.attempt = a, !.row = Unused, !.result = "fail"]
<1>1. h \in Handler /\ h.op = "claim" /\ h.attempt = a
  BY IdleIsHandler, AssessmentAssumption DEF Handler, Idle, Unused, Row, Results
<1>2. proc' = [proc EXCEPT ![p] = h]
      /\ UNCHANGED <<now, rows, overtime, score, complete, indexed, sent>>
  BY DEF runCooldownSweep, Begin, Hold
<1>3. Done(a)
  <2>1. rows[a].status = "completed" /\ rows[a].completedAt \in Nat \cup {Null} /\ now \in Nat
    BY DEF runCooldownSweep, With, IInv, TypeOK, Row
  <2>2. rows[a].completedAt # Null
    BY <2>1 DEF IInv, CompletedIsScored, With
  <2>3. rows[a].completedAt + CooldownDays <= now
    BY DEF runCooldownSweep
  <2> QED
    BY <2>1, <2>2, <2>3, AssessmentAssumption DEF Done
<1> HIDE DEF h
<1>4. Held(h) /\ Today(h)
  BY <1>1 DEF Held, Today, Request
<1> QED
  BY <1>1, <1>2, <1>3, <1>4, StepOfOne

LEMMA StepApply ==
    ASSUME IInv, NEW p \in Procs, applyThresholds(p)
    PROVE  IInv'
<1> DEFINE met == complete /\ \E a \in Attempts : qualifies(a)
           h == [Idle EXCEPT !.op = "profile", !.complete = complete, !.indexed = met]
<1>1. proc' = [proc EXCEPT ![p] = h]
      /\ UNCHANGED <<now, rows, overtime, score, complete, indexed, sent>>
  BY DEF applyThresholds
<1>2. met \in BOOLEAN /\ (met => Earned)
  BY DEF qualifies, Earned
<1> HIDE DEF met
<1>3. h \in Handler /\ h.op = "profile" /\ h.indexed = met
  BY <1>2, IdleIsHandler DEF Handler, Idle, IInv, TypeOK
<1> HIDE DEF h
<1>4. Held(h) /\ Today(h)
  BY <1>2, <1>3 DEF Held, Today, Request
<1> QED
  BY <1>1, <1>3, <1>4, StepOfOne

LEMMA StepCount ==
    ASSUME IInv, NEW p \in Procs, NEW c \in BOOLEAN, calculateCompleteness(p, c)
    PROVE  IInv'
<1> PICK op \in {"edit", "profile"} :
      proc' = [proc EXCEPT ![p] = [Idle EXCEPT !.op = op, !.complete = c, !.indexed = indexed]]
  BY DEF calculateCompleteness
<1> DEFINE h == [Idle EXCEPT !.op = op, !.complete = c, !.indexed = indexed]
<1>1. proc' = [proc EXCEPT ![p] = h]
      /\ UNCHANGED <<now, rows, overtime, score, complete, indexed, sent>>
  BY DEF calculateCompleteness
<1>2. h \in Handler /\ h.op = op /\ h.indexed = indexed
  BY IdleIsHandler DEF Handler, Idle, IInv, TypeOK
<1> HIDE DEF h
<1>3. Held(h) /\ Today(h)
  BY <1>2 DEF Held, Today, Request, IInv, IndexedIsEarned, Earned
<1> QED
  BY <1>1, <1>2, <1>3, StepOfOne

LEMMA StepAbort ==
    ASSUME IInv, NEW p \in Procs, Abort(p)
    PROVE  IInv'
BY IdleIsHandler, StepOfOne DEF Abort

---------------------------------------------------------------------------------
(* The steps that write.                                                         *)

LEMMA StepSave ==
    ASSUME IInv, NEW p \in Procs, Save(p)
    PROVE  IInv'
<1> USE AssessmentAssumption
<1>1. proc[p] \in Handler /\ proc[p].op \in {"insert", "save"} /\ Held(proc[p]) /\ Today(proc[p])
  BY DEF IInv, TypeOK, HeldInv, DayInv, Save
<1>2. proc[p].attempt \in Attempts /\ proc[p].row \in Row /\ ~ proc[p].row.notified
      /\ proc[p].row.status # "completed"
  BY <1>1 DEF Held, Request, Handler
<1> PICK a \in Attempts : a = proc[p].attempt
  BY <1>2
<1>3. /\ rows'[a] = proc[p].row /\ (\A b \in Attempts \ {a} : rows'[b] = rows[b])
      /\ rows' \in [Attempts -> Row]
      /\ proc'[p] = Idle /\ (\A q \in Procs \ {p} : proc'[q] = proc[q])
      /\ proc' \in [Procs -> Handler]
      /\ UNCHANGED <<now, overtime, score, complete, indexed, sent>>
  BY <1>2, IdleIsHandler DEF IInv, TypeOK, Save
\* The attempt was not done: a done one is held by nobody.
<1>4. ~ Done(a)
  BY <1>1 DEF Today, Done, Request, IInv, TypeOK
<1>5. ~ rows[a].notified /\ \A q \in Procs : proc[q].op \in {"claim", "notify"} => proc[q].attempt # a
  BY <1>4 DEF IInv, DoneInv
<1>6. TypeOK'
  BY <1>3 DEF IInv, TypeOK
<1>7. HeldInv'
  BY <1>3 DEF IInv, HeldInv, Held, Earned, Idle, Request
<1>8. DayInv'
  BY <1>2, <1>3 DEF IInv, HeldInv, Held, DayInv, Today, Idle, Request
<1>9. DoneInv'
  <2>1. \A b \in Attempts \ {a} : Done(b)' <=> Done(b)
    BY <1>3 DEF Done
  <2>2. \A b \in Attempts : rows'[b].notified => Done(b)'
    BY <1>2, <1>3, <2>1 DEF IInv, DoneInv
  <2>3. \A q \in Procs : proc'[q].op \in {"claim", "notify"} =>
            proc'[q] = proc[q] /\ proc[q].attempt \in Attempts \ {a} /\ Done(proc[q].attempt)
    BY <1>3, <1>5 DEF IInv, HeldInv, Held, DoneInv, Idle
  <2> QED
    BY <2>1, <2>2, <2>3 DEF DoneInv
<1>10. NotifyInv'
  <2>1. sent[a] = 0
    BY <1>5 DEF IInv, NotifyInv, TypeOK
  <2>2. \A q \in Procs : proc'[q].op = "notify" =>
            proc'[q] = proc[q] /\ proc[q].attempt \in Attempts \ {a}
    BY <1>3, <1>5 DEF IInv, HeldInv, Held, Idle
  <2>3. \A b \in Attempts : sent'[b] <= 1 /\ (sent'[b] = 1 => rows'[b].notified)
    BY <1>3, <2>1 DEF IInv, NotifyInv
  <2> QED
    BY <1>3, <2>2, <2>3 DEF IInv, NotifyInv
<1>11. CompletedIsScored' /\ IndexedIsEarned'
  BY <1>2, <1>3 DEF IInv, CompletedIsScored, IndexedIsEarned, With
<1> QED
  BY <1>6, <1>7, <1>8, <1>9, <1>10, <1>11 DEF IInv

LEMMA StepInsertScore ==
    ASSUME IInv, NEW p \in Procs, insertScore(p)
    PROVE  IInv'
<1> DEFINE h == [proc[p] EXCEPT !.op = "complete"]
<1>1. proc[p] \in Handler /\ proc[p].op = "score" /\ Held(proc[p]) /\ Today(proc[p])
  BY DEF IInv, TypeOK, HeldInv, DayInv, insertScore
<1>2. proc[p].attempt \in Attempts /\ proc[p].result \in Results /\ ~ proc[p].row.notified
  BY <1>1 DEF Held, Request, Handler
<1> PICK a \in Attempts : a = proc[p].attempt
  BY <1>2
<1>3. h \in Handler /\ h.op = "complete" /\ h.attempt = a /\ h.row = proc[p].row
  BY <1>1 DEF Handler
<1>4. proc' = [proc EXCEPT ![p] = h]
  BY <1>1 DEF insertScore
<1> HIDE DEF h
<1>5. /\ proc'[p] = h /\ (\A q \in Procs \ {p} : proc'[q] = proc[q])
      /\ proc' \in [Procs -> Handler]
  BY <1>3, <1>4 DEF IInv, TypeOK
<1>6. /\ score[a] = "none" /\ score'[a] = proc[p].result
      /\ (\A b \in Attempts \ {a} : score'[b] = score[b])
      /\ score' \in [Attempts -> Worth]
      /\ UNCHANGED <<now, rows, overtime, complete, indexed, sent>>
  BY <1>2 DEF IInv, TypeOK, insertScore, Worth
<1>7. TypeOK'
  BY <1>5, <1>6 DEF IInv, TypeOK
<1>8. Earned => Earned'
  BY <1>6 DEF Earned
<1>9. score'[a] # "none"
  BY <1>2, <1>6 DEF Results
<1>10. HeldInv'
  <2>2. ASSUME NEW q \in Procs \ {p} PROVE Held(proc[q])'
    BY <1>5, <1>6, <1>8, <1>9 DEF IInv, HeldInv, Held, Request
  <2> QED
    BY <1>3, <1>5, <1>9, <1>2, <2>2 DEF HeldInv, Held, Request
<1>11. DayInv'
  BY <1>1, <1>3, <1>5, <1>6 DEF IInv, DayInv, Today, Request
<1>12. DoneInv'
  BY <1>3, <1>5, <1>6 DEF IInv, DoneInv, Done
<1>13. NotifyInv'
  BY <1>3, <1>5, <1>6 DEF IInv, NotifyInv
<1>14. CompletedIsScored' /\ IndexedIsEarned'
  BY <1>6, <1>8, <1>9 DEF IInv, CompletedIsScored, IndexedIsEarned, With, Earned
<1> QED
  BY <1>7, <1>10, <1>11, <1>12, <1>13, <1>14 DEF IInv

LEMMA StepComplete ==
    ASSUME IInv, NEW p \in Procs, completeAssessment(p)
    PROVE  IInv'
<1> USE AssessmentAssumption
<1> DEFINE h == [Idle EXCEPT !.op = "apply"]
           row == [proc[p].row EXCEPT !.status = "completed", !.completedAt = now]
<1>1. proc[p] \in Handler /\ proc[p].op = "complete" /\ Held(proc[p]) /\ Today(proc[p])
  BY DEF IInv, TypeOK, HeldInv, DayInv, completeAssessment
<1>2. proc[p].attempt \in Attempts /\ proc[p].row \in Row /\ ~ proc[p].row.notified
      /\ score[proc[p].attempt] # "none"
  BY <1>1 DEF Held, Request, Handler
<1> PICK a \in Attempts : a = proc[p].attempt
  BY <1>2
<1>3. h \in Handler /\ h.op = "apply"
  BY IdleIsHandler DEF Handler, Idle
<1>4. row \in Row /\ row.status = "completed" /\ row.completedAt = now /\ row.notified = FALSE
  <2>1. now \in Nat /\ proc[p].row.notified = FALSE
    BY <1>2 DEF Row, IInv, TypeOK
  <2> QED
    BY <1>2, <2>1 DEF Row
<1>5. rows' = [rows EXCEPT ![a] = row] /\ proc' = [proc EXCEPT ![p] = h]
      /\ UNCHANGED <<now, overtime, score, complete, indexed, sent>>
  BY DEF completeAssessment
<1> HIDE DEF h, row
<1>6. /\ rows'[a] = row /\ (\A b \in Attempts \ {a} : rows'[b] = rows[b])
      /\ rows' \in [Attempts -> Row]
      /\ proc'[p] = h /\ (\A q \in Procs \ {p} : proc'[q] = proc[q])
      /\ proc' \in [Procs -> Handler]
  BY <1>3, <1>4, <1>5 DEF IInv, TypeOK
<1>7. ~ Done(a)
  BY <1>1 DEF Today, Done, Request, IInv, TypeOK
<1>8. ~ rows[a].notified /\ \A q \in Procs : proc[q].op \in {"claim", "notify"} => proc[q].attempt # a
  BY <1>7 DEF IInv, DoneInv
<1>9. TypeOK'
  BY <1>5, <1>6 DEF IInv, TypeOK
<1>10. HeldInv'
  BY <1>3, <1>5, <1>6 DEF IInv, HeldInv, Held, Earned, Request
<1>11. DayInv'
  BY <1>3, <1>4, <1>5, <1>6 DEF IInv, HeldInv, Held, DayInv, Today, Request
<1>12. DoneInv'
  BY <1>3, <1>4, <1>5, <1>6, <1>8 DEF IInv, HeldInv, Held, DoneInv, Done
<1>13. NotifyInv'
  <2>1. sent[a] = 0
    BY <1>8 DEF IInv, NotifyInv, TypeOK
  <2> QED
    BY <1>3, <1>5, <1>6, <1>8, <2>1 DEF IInv, HeldInv, Held, NotifyInv
<1>14. CompletedIsScored' /\ IndexedIsEarned'
  BY <1>2, <1>4, <1>5, <1>6 DEF IInv, TypeOK, CompletedIsScored, IndexedIsEarned, With
<1> QED
  BY <1>9, <1>10, <1>11, <1>12, <1>13, <1>14 DEF IInv

LEMMA StepProfile ==
    ASSUME IInv, NEW p \in Procs, saveProfile(p)
    PROVE  IInv'
<1>1. proc[p] \in Handler /\ Held(proc[p]) /\ proc[p].op = "profile"
  BY DEF IInv, TypeOK, HeldInv, saveProfile
<1>2. /\ proc'[p] = Idle /\ (\A q \in Procs \ {p} : proc'[q] = proc[q])
      /\ proc' \in [Procs -> Handler]
      /\ UNCHANGED <<now, rows, overtime, score, sent>>
  BY IdleIsHandler DEF IInv, TypeOK, saveProfile
<1>3. complete' \in BOOLEAN /\ indexed' \in BOOLEAN /\ (indexed' => proc[p].indexed)
  BY <1>1 DEF saveProfile, Handler
<1>4. TypeOK'
  BY <1>2, <1>3 DEF IInv, TypeOK
<1>5. HeldInv' /\ DayInv'
  BY <1>2, IdleIsHandler DEF IInv, HeldInv, Held, DayInv, Today, Earned, Request
<1>6. DoneInv' /\ NotifyInv'
  BY <1>2, IdleIsHandler DEF IInv, DoneInv, Done, NotifyInv
<1>7. CompletedIsScored' /\ IndexedIsEarned'
  BY <1>1, <1>2, <1>3 DEF IInv, CompletedIsScored, IndexedIsEarned, With, Held, Earned
<1> QED
  BY <1>4, <1>5, <1>6, <1>7 DEF IInv

LEMMA StepCompleteness ==
    ASSUME IInv, NEW p \in Procs, saveCompleteness(p)
    PROVE  IInv'
<1> DEFINE h == [Idle EXCEPT !.op = "apply"]
<1>1. h \in Handler /\ h.op = "apply"
  BY IdleIsHandler DEF Handler, Idle
<1>2. proc[p] \in Handler /\ Held(proc[p]) /\ proc[p].op = "edit"
  BY DEF IInv, TypeOK, HeldInv, saveCompleteness
<1>3. proc' = [proc EXCEPT ![p] = h] /\ UNCHANGED <<now, rows, overtime, score, sent>>
  BY DEF saveCompleteness
<1>4. complete' \in BOOLEAN /\ indexed' \in BOOLEAN /\ (indexed' => proc[p].indexed)
  BY <1>2 DEF saveCompleteness, Handler
<1> HIDE DEF h
<1>5. proc'[p] = h /\ (\A q \in Procs \ {p} : proc'[q] = proc[q]) /\ proc' \in [Procs -> Handler]
  BY <1>1, <1>3 DEF IInv, TypeOK
<1>6. TypeOK'
  BY <1>3, <1>4, <1>5 DEF IInv, TypeOK
<1>7. HeldInv' /\ DayInv'
  BY <1>1, <1>3, <1>5 DEF IInv, HeldInv, Held, DayInv, Today, Earned, Request
<1>8. DoneInv' /\ NotifyInv'
  BY <1>1, <1>3, <1>5 DEF IInv, DoneInv, Done, NotifyInv
<1>9. CompletedIsScored' /\ IndexedIsEarned'
  BY <1>2, <1>3, <1>4 DEF IInv, CompletedIsScored, IndexedIsEarned, With, Held, Earned
<1> QED
  BY <1>6, <1>7, <1>8, <1>9 DEF IInv

LEMMA StepClaim ==
    ASSUME IInv, NEW p \in Procs, claimCooldownNotification(p)
    PROVE  IInv'
<1> DEFINE h == [proc[p] EXCEPT !.op = "notify"]
<1>1. proc[p] \in Handler /\ proc[p].op = "claim" /\ Held(proc[p]) /\ Done(proc[p].attempt)
      /\ proc[p].attempt \in Attempts
  BY DEF IInv, TypeOK, HeldInv, Held, DoneInv, claimCooldownNotification
<1> PICK a \in Attempts : a = proc[p].attempt
  BY <1>1
<1>2. h \in Handler /\ h.op = "notify" /\ h.attempt = a
  BY <1>1 DEF Handler
<1>3. proc' = [proc EXCEPT ![p] = h] /\ rows' = [rows EXCEPT ![a] = [@ EXCEPT !.notified = TRUE]]
      /\ ~ rows[a].notified /\ UNCHANGED <<now, overtime, score, complete, indexed, sent>>
  BY DEF claimCooldownNotification
<1> HIDE DEF h
<1>4. proc'[p] = h /\ (\A q \in Procs \ {p} : proc'[q] = proc[q]) /\ proc' \in [Procs -> Handler]
  BY <1>2, <1>3 DEF IInv, TypeOK
<1>5. /\ rows'[a].status = rows[a].status /\ rows'[a].completedAt = rows[a].completedAt
      /\ rows'[a].notified = TRUE /\ (\A b \in Attempts \ {a} : rows'[b] = rows[b])
      /\ rows' \in [Attempts -> Row]
  <2> DEFINE r == [rows[a] EXCEPT !.notified = TRUE]
  <2>1. rows[a] \in Row
    BY DEF IInv, TypeOK
  <2>2. r \in Row /\ r.status = rows[a].status /\ r.completedAt = rows[a].completedAt
        /\ r.notified = TRUE
    BY <2>1 DEF Row
  <2>3. rows' = [rows EXCEPT ![a] = r]
    BY <1>3
  <2> HIDE DEF r
  <2> QED
    BY <2>2, <2>3 DEF IInv, TypeOK
<1>6. TypeOK'
  BY <1>3, <1>4, <1>5 DEF IInv, TypeOK
<1>7. HeldInv'
  BY <1>2, <1>3, <1>4 DEF IInv, HeldInv, Held, Earned, Request
<1>8. DayInv'
  BY <1>2, <1>3, <1>4, <1>5 DEF IInv, HeldInv, Held, DayInv, Today, Request
<1>8a. \A q \in Procs : proc[q].op \in {"claim", "notify"} => proc[q].attempt \in Attempts
  BY DEF IInv, HeldInv, Held
<1>9. DoneInv'
  <2>1. \A b \in Attempts : Done(b)' <=> Done(b)
    BY <1>3, <1>5 DEF Done
  <2>2. \A b \in Attempts : rows'[b].notified => Done(b)
    BY <1>1, <1>5 DEF IInv, DoneInv
  <2>3. \A q \in Procs : proc'[q].op \in {"claim", "notify"}
            => proc'[q].attempt \in Attempts /\ Done(proc'[q].attempt)
    BY <1>1, <1>2, <1>4, <1>8a DEF IInv, DoneInv
  <2> QED
    BY <2>1, <2>2, <2>3 DEF DoneInv
<1>10. NotifyInv'
  <2>1. sent[a] = 0 /\ \A q \in Procs : proc[q].op = "notify" => proc[q].attempt # a
    <3>1. sent[a] \in Nat
      BY DEF IInv, TypeOK
    <3>2. sent[a] <= 1 /\ sent[a] # 1
      BY <1>3 DEF IInv, NotifyInv
    <3>3. \A q \in Procs : proc[q].op = "notify" => proc[q].attempt # a
      BY <1>3 DEF IInv, NotifyInv
    <3> QED BY <3>1, <3>2, <3>3
  <2>2. \A b \in Attempts : sent'[b] <= 1 /\ (sent'[b] = 1 => rows'[b].notified)
    BY <1>3, <1>5, <2>1 DEF IInv, NotifyInv
  <2>3. \A q \in Procs : proc'[q].op = "notify" =>
            rows'[proc'[q].attempt].notified /\ sent'[proc'[q].attempt] = 0
    BY <1>2, <1>3, <1>4, <1>5, <1>8a, <2>1 DEF IInv, NotifyInv
  <2>4. \A q, r \in Procs : proc'[q].op = "notify" /\ proc'[r].op = "notify"
            /\ proc'[r].attempt = proc'[q].attempt => r = q
    BY <1>2, <1>4, <2>1 DEF IInv, NotifyInv
  <2> QED
    BY <2>2, <2>3, <2>4 DEF NotifyInv
<1>11. CompletedIsScored'
  BY <1>3, <1>5 DEF IInv, CompletedIsScored, With
<1>12. IndexedIsEarned'
  BY <1>3 DEF IInv, IndexedIsEarned
<1> QED
  BY <1>6, <1>7, <1>8, <1>9, <1>10, <1>11, <1>12 DEF IInv

LEMMA StepNotify ==
    ASSUME IInv, NEW p \in Procs, notifyCooldownExpired(p)
    PROVE  IInv'
<1>1. proc[p].op = "notify" /\ proc[p].attempt \in Attempts
  BY DEF IInv, HeldInv, Held, notifyCooldownExpired
<1> PICK a \in Attempts : a = proc[p].attempt
  BY <1>1
<1>2. /\ rows[a].notified /\ sent[a] = 0
      /\ \A q \in Procs \ {p} : proc[q].op = "notify" => proc[q].attempt # a
  BY <1>1 DEF IInv, NotifyInv
<1>3. /\ proc'[p] = Idle /\ (\A q \in Procs \ {p} : proc'[q] = proc[q])
      /\ proc' \in [Procs -> Handler]
      /\ UNCHANGED <<now, rows, overtime, score, complete, indexed>>
  BY IdleIsHandler DEF IInv, TypeOK, notifyCooldownExpired
<1>4. sent'[a] = 1 /\ (\A b \in Attempts \ {a} : sent'[b] = sent[b]) /\ sent' \in [Attempts -> Nat]
  BY <1>2 DEF IInv, TypeOK, notifyCooldownExpired
<1>5. TypeOK'
  BY <1>3, <1>4 DEF IInv, TypeOK
<1>6. HeldInv' /\ DayInv'
  BY <1>3, IdleIsHandler DEF IInv, HeldInv, Held, DayInv, Today, Earned, Request
<1>7. DoneInv'
  BY <1>3, IdleIsHandler DEF IInv, DoneInv, Done
<1>8. NotifyInv'
  BY <1>2, <1>3, <1>4, IdleIsHandler DEF IInv, HeldInv, Held, NotifyInv
<1>9. CompletedIsScored' /\ IndexedIsEarned'
  BY <1>3 DEF IInv, CompletedIsScored, IndexedIsEarned, With
<1> QED
  BY <1>5, <1>6, <1>7, <1>8, <1>9 DEF IInv

\* A score that expires or whose percentile is recalculated is still a score, and one
\* that counted still shows it.
LEMMA StepWorth ==
    ASSUME IInv, NEW a \in Attempts, ScoreExpires(a) \/ recalculate(a)
    PROVE  IInv'
<1>1. /\ score[a] # "none" /\ score'[a] # "none"
      /\ score[a] \in {"pass", "ranked", "slipped"} => score'[a] \in {"ranked", "slipped", "expired"}
      /\ score[a] # "expired"
      /\ (\A b \in Attempts \ {a} : score'[b] = score[b])
      /\ score' \in [Attempts -> Worth]
      /\ UNCHANGED <<now, rows, overtime, complete, indexed, sent, proc>>
  <2>1. CASE ScoreExpires(a)
    BY <2>1 DEF IInv, TypeOK, ScoreExpires, Worth
  <2>2. CASE recalculate(a)
    BY <2>2 DEF IInv, TypeOK, recalculate, Worth, Results
  <2> QED
    BY <2>1, <2>2
<1>2. TypeOK'
  BY <1>1 DEF IInv, TypeOK
<1>3. Earned => Earned'
  BY <1>1 DEF Earned
<1>4. HeldInv'
  BY <1>1, <1>3 DEF IInv, HeldInv, Held, Request
<1>5. DayInv' /\ DoneInv' /\ NotifyInv'
  BY <1>1 DEF IInv, DayInv, Today, DoneInv, Done, NotifyInv
<1>6. CompletedIsScored' /\ IndexedIsEarned'
  BY <1>1, <1>3 DEF IInv, CompletedIsScored, IndexedIsEarned, With, Earned
<1> QED
  BY <1>2, <1>4, <1>5, <1>6 DEF IInv

\* No request is in flight when the day changes.
LEMMA StepTick ==
    ASSUME IInv, Tick
    PROVE  IInv'
<1> USE AssessmentAssumption
<1>1. /\ now \in Nat /\ now' = now + 1 /\ now' \in 0..MaxTime
      /\ UNCHANGED <<rows, overtime, score, complete, indexed, sent, proc>>
      /\ \A p \in Procs : proc[p].op \in {"idle", "claim", "notify"}
  BY DEF IInv, TypeOK, Tick
<1>2. TypeOK' /\ HeldInv'
  BY <1>1 DEF IInv, TypeOK, HeldInv, Held, Earned
<1>3. DayInv'
  BY <1>1 DEF DayInv, Today, Request
<1>4. DoneInv' /\ NotifyInv'
  BY <1>1 DEF IInv, DoneInv, Done, NotifyInv
<1>5. CompletedIsScored' /\ IndexedIsEarned'
  BY <1>1 DEF IInv, CompletedIsScored, IndexedIsEarned, With
<1> QED
  BY <1>2, <1>3, <1>4, <1>5 DEF IInv

LEMMA StepOvertime ==
    ASSUME IInv, UNCHANGED <<now, rows, score, complete, indexed, sent, proc>>,
           overtime' \subseteq Attempts
    PROVE  IInv'
<1>1. TypeOK' /\ HeldInv' /\ DayInv'
  BY DEF IInv, TypeOK, HeldInv, Held, Earned, DayInv, Today
<1>2. DoneInv' /\ NotifyInv' /\ CompletedIsScored' /\ IndexedIsEarned'
  BY DEF IInv, DoneInv, Done, NotifyInv, CompletedIsScored, IndexedIsEarned, With
<1> QED
  BY <1>1, <1>2 DEF IInv

\* IInv is inductive.
LEMMA Inductive == IInv /\ [Next]_vars => IInv'
<1> SUFFICES ASSUME IInv, [Next]_vars PROVE IInv'
  OBVIOUS
<1>1. CASE Tick
  BY <1>1, StepTick
<1>2. ASSUME NEW a \in Attempts, Overtime(a) \/ ScoreExpires(a) \/ recalculate(a) PROVE IInv'
  BY <1>2, StepWorth, StepOvertime DEF Overtime, IInv, TypeOK
<1>3. ASSUME NEW p \in Procs, NEW t \in Tests, startAssessment(p, t) PROVE IInv'
  BY <1>3, StepStart
<1>4. ASSUME NEW p \in Procs, NEW a \in Attempts,
             resumeAssessment(p, a) \/ reportIncident(p, a) \/ submitTooLate(p, a)
      PROVE  IInv'
  BY <1>4, StepStatus DEF resumeAssessment, reportIncident, submitTooLate, With
<1>5. ASSUME NEW p \in Procs, NEW a \in Attempts, NEW n \in 0..MaxLeaves,
             recordProctoringEvents(p, a, n)
      PROVE  IInv'
  BY <1>5, StepProctoring
<1>6. ASSUME NEW p \in Procs, NEW a \in Attempts, NEW result \in Results,
             submitExam(p, a, result) \/ processWebhook(p, a, result)
      PROVE  IInv'
  BY <1>6, StepFinalize DEF submitExam, processWebhook
<1>7. ASSUME NEW p \in Procs, NEW a \in Attempts, runCooldownSweep(p, a) PROVE IInv'
  BY <1>7, StepSweep
<1>8. ASSUME NEW p \in Procs,
             \/ Save(p) \/ insertScore(p) \/ completeAssessment(p) \/ applyThresholds(p)
             \/ saveProfile(p) \/ saveCompleteness(p) \/ claimCooldownNotification(p)
             \/ notifyCooldownExpired(p) \/ Abort(p)
      PROVE  IInv'
  BY <1>8, StepSave, StepInsertScore, StepComplete, StepApply, StepProfile, StepCompleteness,
     StepClaim, StepNotify, StepAbort
<1>9. ASSUME NEW p \in Procs, NEW c \in BOOLEAN, calculateCompleteness(p, c) PROVE IInv'
  BY <1>9, StepCount
<1>10. CASE UNCHANGED vars
  BY <1>10, StepOvertime DEF vars, IInv, TypeOK
<1> QED
  BY <1>1, <1>2, <1>3, <1>4, <1>5, <1>6, <1>7, <1>8, <1>9, <1>10 DEF Next

\* Scores are only written by insertScore, where there is none, by the recalculation of
\* percentiles and by expiry.
Kept(a) == score[a] # "none" =>
              \/ Grade(score'[a]) = Grade(score[a])
              \/ score'[a] \in {"expired", "lapsed"} /\ score[a] # "cheat"

LEMMA ScoresStay ==
    ASSUME IInv, [Next]_vars
    PROVE  \A a \in Attempts : Kept(a)
<1>1. CASE \E p \in Procs : insertScore(p)
  BY <1>1 DEF insertScore, IInv, TypeOK, Kept
<1>2. CASE \E a \in Attempts : ScoreExpires(a)
  BY <1>2 DEF ScoreExpires, IInv, TypeOK, Kept
<1>3. CASE \E a \in Attempts : recalculate(a)
  BY <1>3 DEF recalculate, IInv, TypeOK, Kept, Grade
<1>4. CASE UNCHANGED score
  BY <1>4 DEF Kept
<1>5. CASE Tick \/ \E a \in Attempts : Overtime(a)
  BY <1>4, <1>5 DEF Tick, Overtime
<1>6. ASSUME NEW p \in Procs, NEW a \in Attempts,
             \/ resumeAssessment(p, a) \/ reportIncident(p, a) \/ submitTooLate(p, a)
             \/ \E n \in 0..MaxLeaves : recordProctoringEvents(p, a, n)
             \/ \E result \in Results : submitExam(p, a, result) \/ processWebhook(p, a, result)
             \/ runCooldownSweep(p, a)
      PROVE  UNCHANGED score
  BY <1>6 DEF resumeAssessment, reportIncident, submitTooLate, recordProctoringEvents,
              submitExam, processWebhook, finalizeAssessment, runCooldownSweep, Begin
<1>7. ASSUME NEW p \in Procs, NEW t \in Tests, startAssessment(p, t) PROVE UNCHANGED score
  BY <1>7 DEF startAssessment, Begin
<1>8. ASSUME NEW p \in Procs,
             \/ Save(p) \/ completeAssessment(p) \/ applyThresholds(p)
             \/ saveProfile(p) \/ saveCompleteness(p) \/ claimCooldownNotification(p)
             \/ notifyCooldownExpired(p) \/ Abort(p)
             \/ \E c \in BOOLEAN : calculateCompleteness(p, c)
      PROVE  UNCHANGED score
  BY <1>8 DEF Save, completeAssessment, applyThresholds, saveProfile, saveCompleteness,
              claimCooldownNotification, notifyCooldownExpired, Abort, calculateCompleteness
<1>9. CASE UNCHANGED vars
  BY <1>4, <1>9 DEF vars
<1> QED
  BY <1>1, <1>2, <1>3, <1>4, <1>5, <1>6, <1>7, <1>8, <1>9 DEF Next

---------------------------------------------------------------------------------
(* What the rows, and the entities that may be saved over them, say together.        *)

Sound(row) == row.flagged => row.leaves >= FlagAt

Undated(row) == row.completedAt = Null /\ Sound(row)

SoundInv ==
    /\ \A a \in Attempts : Sound(rows[a]) /\ (rows[a].completedAt # Null => rows[a].status = "completed")
    /\ \A p \in Procs : proc[p].op \in Request => Undated(proc[p].row)

\* Steps that write no row and take at most one entity, an undated one.
LEMMA SoundHold ==
    ASSUME IInv, SoundInv, NEW p \in Procs, NEW h \in Handler, proc' = [proc EXCEPT ![p] = h],
           UNCHANGED rows, h.op \in Request => Undated(h.row)
    PROVE  SoundInv'
<1>1. proc'[p] = h /\ \A q \in Procs \ {p} : proc'[q] = proc[q]
  BY DEF IInv, TypeOK
<1> QED
  BY <1>1 DEF SoundInv, Sound, Undated

LEMMA SoundBegin ==
    ASSUME IInv, SoundInv, NEW p \in Procs, NEW op \in {"insert", "save", "score", "claim"},
           NEW a \in Attempts, NEW row \in Row, NEW result \in Results, Undated(row),
           Begin(p, op, a, row, result)
    PROVE  SoundInv'
<1> DEFINE h == [Idle EXCEPT !.op = op, !.attempt = a, !.row = row, !.result = result]
<1>1. h \in Handler /\ h.row = row
  BY IdleIsHandler DEF Handler, Idle
<1>2. proc' = [proc EXCEPT ![p] = h] /\ UNCHANGED rows
  BY DEF Begin, Hold
<1> HIDE DEF h
<1> QED
  BY <1>1, <1>2, SoundHold

\* The attempt that a request loads is not COMPLETED, so it is undated.
LEMMA LoadedUndated ==
    ASSUME IInv, SoundInv, NEW a \in Attempts, rows[a].status # "completed"
    PROVE  Undated(rows[a]) /\ rows[a] \in Row
BY DEF SoundInv, Undated, IInv, TypeOK

LEMMA SoundRequest ==
    ASSUME IInv, SoundInv, NEW p \in Procs, NEW a \in Attempts,
           \/ resumeAssessment(p, a) \/ reportIncident(p, a) \/ submitTooLate(p, a)
           \/ \E n \in 0..MaxLeaves : recordProctoringEvents(p, a, n)
           \/ \E result \in Results : submitExam(p, a, result) \/ processWebhook(p, a, result)
           \/ runCooldownSweep(p, a)
    PROVE  SoundInv'
<1>0. "fail" \in Results
  BY DEF Results
<1>1. ASSUME NEW s \in {"in_progress", "incident"}, rows[a].status # "completed",
             Begin(p, "save", a, [rows[a] EXCEPT !.status = s], "fail")
      PROVE  SoundInv'
  <2> DEFINE row == [rows[a] EXCEPT !.status = s]
  <2>1. row \in Row /\ Undated(row)
    BY <1>1, LoadedUndated DEF Row, Undated, Sound
  <2>2. Begin(p, "save", a, row, "fail")
    BY <1>1
  <2> HIDE DEF row
  <2> QED
    BY <1>0, <2>1, <2>2, SoundBegin
<1>2. CASE resumeAssessment(p, a) \/ reportIncident(p, a) \/ submitTooLate(p, a)
  BY <1>1, <1>2 DEF resumeAssessment, reportIncident, submitTooLate, With
<1>3. ASSUME NEW n \in 0..MaxLeaves, recordProctoringEvents(p, a, n) PROVE SoundInv'
  <2> DEFINE leaves == IF n > rows[a].leaves THEN n ELSE rows[a].leaves
             flagged == rows[a].flagged \/ leaves >= FlagAt
             status == IF leaves >= VoidAt THEN "incident" ELSE rows[a].status
             row == [rows[a] EXCEPT !.leaves = leaves, !.flagged = flagged, !.status = status]
  <2>1. rows[a].status = "in_progress" /\ rows[a] \in Row /\ Undated(rows[a])
    BY <1>3, LoadedUndated DEF recordProctoringEvents, With
  <2>2. /\ leaves \in 0..MaxLeaves /\ leaves >= rows[a].leaves
        /\ flagged \in BOOLEAN /\ status \in {"in_progress", "incident"}
    BY <2>1, AssessmentAssumption DEF Row
  <2>3. flagged => leaves >= FlagAt
    BY <2>1, <2>2, AssessmentAssumption DEF Undated, Sound, Row
  <2>4. Begin(p, "save", a, row, "fail")
    BY <1>3 DEF recordProctoringEvents
  <2> HIDE DEF leaves, flagged, status
  <2>5. row \in Row /\ Undated(row)
    BY <2>1, <2>2, <2>3 DEF Row, Undated, Sound
  <2> HIDE DEF row
  <2> QED
    BY <1>0, <2>4, <2>5, SoundBegin
<1>4. ASSUME NEW result \in Results, finalizeAssessment(p, a, result) PROVE SoundInv'
  <2>1. rows[a].status # "completed"
    BY <1>4 DEF finalizeAssessment, IInv, CompletedIsScored, With
  <2> QED
    BY <1>4, <2>1, LoadedUndated, SoundBegin DEF finalizeAssessment
<1>5. CASE runCooldownSweep(p, a)
  <2>1. Unused \in Row /\ Undated(Unused)
    BY UnusedIsRow DEF Unused, Undated, Sound
  <2> QED
    BY <1>0, <1>5, <2>1, SoundBegin DEF runCooldownSweep
<1> QED
  BY <1>2, <1>3, <1>4, <1>5 DEF submitExam, processWebhook

\* The steps that write an attempt's row.
LEMMA SoundWrite ==
    ASSUME IInv, SoundInv, NEW p \in Procs,
           Save(p) \/ completeAssessment(p) \/ claimCooldownNotification(p)
    PROVE  SoundInv'
<1> DEFINE a == proc[p].attempt
<1>1. a \in Attempts /\ rows \in [Attempts -> Row] /\ proc \in [Procs -> Handler]
  BY DEF IInv, HeldInv, Held, Request, TypeOK, Save, completeAssessment, claimCooldownNotification
<1>2. \A q \in Procs : proc'[q].op \in Request => proc[q].op \in Request /\ proc'[q].row = proc[q].row
  <2>1. CASE Save(p)
    BY <1>1, <2>1 DEF Save, Idle, Request
  <2>2. CASE completeAssessment(p)
    BY <1>1, <2>2 DEF completeAssessment, Idle, Request
  <2>3. CASE claimCooldownNotification(p)
    BY <1>1, <2>3 DEF claimCooldownNotification, Request
  <2> QED
    BY <2>1, <2>2, <2>3
<1>3. \A b \in Attempts \ {a} : rows'[b] = rows[b]
  BY <1>1 DEF Save, completeAssessment, claimCooldownNotification
<1>4. Sound(rows'[a]) /\ (rows'[a].completedAt # Null => rows'[a].status = "completed")
  <2>1. CASE Save(p)
    BY <1>1, <2>1 DEF Save, SoundInv, Undated, Request
  <2>2. CASE completeAssessment(p)
    BY <1>1, <2>2 DEF completeAssessment, SoundInv, Undated, Sound, Request, Handler, Row
  <2>3. CASE claimCooldownNotification(p)
    BY <1>1, <2>3 DEF claimCooldownNotification, SoundInv, Sound, Row
  <2> QED
    BY <2>1, <2>2, <2>3
<1> QED
  BY <1>2, <1>3, <1>4 DEF SoundInv, Undated, Sound

\* SoundInv is inductive, given IInv.
LEMMA SoundStep ==
    ASSUME IInv, SoundInv, [Next]_vars
    PROVE  SoundInv'
<1>1. CASE UNCHANGED <<rows, proc>>
  BY <1>1 DEF SoundInv, Sound, Undated
<1>2. CASE Tick \/ UNCHANGED vars
  BY <1>1, <1>2 DEF Tick, vars
<1>3. ASSUME NEW a \in Attempts, Overtime(a) \/ ScoreExpires(a) \/ recalculate(a) PROVE SoundInv'
  BY <1>1, <1>3 DEF Overtime, ScoreExpires, recalculate
<1>4. ASSUME NEW p \in Procs, NEW t \in Tests, startAssessment(p, t) PROVE SoundInv'
  <2> PICK a \in With("none") :
        Begin(p, "insert", a, [Unused EXCEPT !.status = "in_progress", !.test = t], "fail")
    BY <1>4 DEF startAssessment
  <2> DEFINE row == [Unused EXCEPT !.status = "in_progress", !.test = t]
  <2>1. row \in Row /\ Undated(row) /\ a \in Attempts /\ "fail" \in Results
    BY UnusedIsRow DEF Row, Undated, Sound, Unused, With, Results
  <2>2. Begin(p, "insert", a, row, "fail")
    OBVIOUS
  <2> HIDE DEF row
  <2> QED
    BY <2>1, <2>2, SoundBegin
<1>5. ASSUME NEW p \in Procs,
             \/ insertScore(p) \/ applyThresholds(p) \/ saveProfile(p) \/ saveCompleteness(p)
             \/ notifyCooldownExpired(p) \/ Abort(p)
             \/ \E c \in BOOLEAN : calculateCompleteness(p, c)
      PROVE  SoundInv'
  <2>1. UNCHANGED rows /\ proc \in [Procs -> Handler]
    BY <1>5 DEF insertScore, applyThresholds, saveProfile, saveCompleteness,
                notifyCooldownExpired, Abort, calculateCompleteness, IInv, TypeOK
  <2>2. \A q \in Procs : proc'[q].op \in Request => proc[q].op \in Request /\ proc'[q].row = proc[q].row
    <3>1. CASE insertScore(p)
      BY <2>1, <3>1 DEF insertScore, Request
    <3>2. CASE applyThresholds(p)
      BY <2>1, <3>2 DEF applyThresholds, Idle, Request
    <3>3. CASE saveProfile(p) \/ saveCompleteness(p)
      BY <2>1, <3>3 DEF saveProfile, saveCompleteness, Idle, Request
    <3>4. CASE notifyCooldownExpired(p) \/ Abort(p)
      BY <2>1, <3>4 DEF notifyCooldownExpired, Abort, Idle, Request
    <3>5. CASE \E c \in BOOLEAN : calculateCompleteness(p, c)
      BY <2>1, <3>5 DEF calculateCompleteness, Idle, Request
    <3> QED
      BY <1>5, <3>1, <3>2, <3>3, <3>4, <3>5
  <2> QED
    BY <2>1, <2>2 DEF SoundInv, Undated, Sound
<1> QED
  BY <1>2, <1>3, <1>4, <1>5, SoundRequest, SoundWrite DEF Next

LEMMA SoundStart == Init => SoundInv
BY DEF Init, SoundInv, Sound, Undated, Unused, Idle, Request

LEMMA Invariance == Spec => []IInv
BY Start, Inductive, PTL DEF Spec

\* An attempt completed on an earlier day: nobody holds it who could write it, so the only
\* write left is that of its marker.
Settled(a) == Done(a) => rows'[a] \in {rows[a], [rows[a] EXCEPT !.notified = TRUE]}

LEMMA SettledStays ==
    ASSUME IInv, [Next]_vars
    PROVE  \A a \in Attempts : Settled(a)
<1>1. CASE UNCHANGED rows
  BY <1>1 DEF Settled
<1>2. ASSUME NEW p \in Procs, Save(p) \/ completeAssessment(p), NEW a \in Attempts, Done(a)
      PROVE  rows'[a] = rows[a]
  <2>1. proc[p].op \in Request /\ Today(proc[p])
    BY <1>2 DEF Save, completeAssessment, Request, IInv, DayInv
  <2>2. proc[p].attempt # a
    BY <1>2, <2>1 DEF Today, Done, IInv, TypeOK
  <2> QED
    BY <1>2, <2>2 DEF Save, completeAssessment, IInv, TypeOK
<1>3. ASSUME NEW p \in Procs, claimCooldownNotification(p), NEW a \in Attempts
      PROVE  rows'[a] \in {rows[a], [rows[a] EXCEPT !.notified = TRUE]}
  BY <1>3 DEF claimCooldownNotification, IInv, TypeOK
<1>4. ASSUME NEW p \in Procs, NEW a \in Attempts,
             \/ resumeAssessment(p, a) \/ reportIncident(p, a) \/ submitTooLate(p, a)
             \/ \E n \in 0..MaxLeaves : recordProctoringEvents(p, a, n)
             \/ \E result \in Results : submitExam(p, a, result) \/ processWebhook(p, a, result)
             \/ runCooldownSweep(p, a)
      PROVE  UNCHANGED rows
  BY <1>4 DEF resumeAssessment, reportIncident, submitTooLate, recordProctoringEvents,
              submitExam, processWebhook, finalizeAssessment, runCooldownSweep, Begin
<1>5. ASSUME NEW p \in Procs,
             \/ insertScore(p) \/ applyThresholds(p) \/ saveProfile(p) \/ saveCompleteness(p)
             \/ notifyCooldownExpired(p) \/ Abort(p)
             \/ \E c \in BOOLEAN : calculateCompleteness(p, c)
             \/ \E t \in Tests : startAssessment(p, t)
      PROVE  UNCHANGED rows
  BY <1>5 DEF insertScore, applyThresholds, saveProfile, saveCompleteness,
              notifyCooldownExpired, Abort, calculateCompleteness, startAssessment, Begin
<1>6. CASE Tick \/ (\E a \in Attempts : Overtime(a) \/ ScoreExpires(a) \/ recalculate(a))
           \/ UNCHANGED vars
  BY <1>1, <1>6 DEF Tick, Overtime, ScoreExpires, recalculate, vars
<1> QED
  BY <1>1, <1>2, <1>3, <1>4, <1>5, <1>6 DEF Next, Settled

---------------------------------------------------------------------------------
(* One handler at a time.  Two of them overwrite each other's counts and statuses;  *)
(* one alone still has to be judged by what its load let pass, also over the        *)
(* several statements of finalizeAssessment.                                        *)

OneHandler == \A p, q \in Procs : p = q

\* The entity in memory is ahead of a row that is not COMPLETED.
Ahead(h) == h.op \in Request =>
    /\ rows[h.attempt].status # "completed"
    /\ h.row.status # "none"
    /\ h.row.leaves >= rows[h.attempt].leaves

Sequential ==
    /\ \A a \in With("none") : rows[a].leaves = 0
    /\ \A p \in Procs : Ahead(proc[p])

\* What both properties say of one attempt's row.
Forward(a) ==
    /\ a \in With("completed") => rows'[a].status = "completed"
    /\ rows'[a].leaves >= rows[a].leaves

LEMMA SequentialStart == Init => Sequential
BY DEF Init, Sequential, With, Unused, Ahead, Idle, Request

LEMMA Unwritten ==
    ASSUME IInv, UNCHANGED rows
    PROVE  \A a \in Attempts : Forward(a)
BY DEF IInv, TypeOK, Row, Forward, With

\* A load: an entity ahead of its row, and nothing written.
LEMMA SequentialBegin ==
    ASSUME IInv, Sequential, NEW p \in Procs,
           NEW op \in {"insert", "save", "score"}, NEW a \in Attempts, NEW row \in Row,
           NEW result \in Results, Begin(p, op, a, row, result),
           rows[a].status # "completed", row.status # "none", row.leaves >= rows[a].leaves
    PROVE  Sequential' /\ UNCHANGED rows
<1> DEFINE h == [Idle EXCEPT !.op = op, !.attempt = a, !.row = row, !.result = result]
<1>1. h \in Handler /\ h.attempt = a /\ h.row = row
  BY IdleIsHandler DEF Handler, Idle
<1>2. proc' = [proc EXCEPT ![p] = h] /\ UNCHANGED rows
  BY DEF Begin, Hold
<1> HIDE DEF h
<1>3. proc'[p] = h /\ \A q \in Procs \ {p} : proc'[q] = proc[q]
  BY <1>2 DEF IInv, TypeOK
<1> QED
  BY <1>1, <1>2, <1>3 DEF Sequential, With, Ahead

LEMMA SequentialLoad ==
    ASSUME IInv, Sequential, NEW p \in Procs, NEW a \in Attempts,
           \/ resumeAssessment(p, a) \/ reportIncident(p, a) \/ submitTooLate(p, a)
           \/ \E n \in 0..MaxLeaves : recordProctoringEvents(p, a, n)
           \/ \E result \in Results : submitExam(p, a, result) \/ processWebhook(p, a, result)
    PROVE  Sequential' /\ UNCHANGED rows
<1>0. "fail" \in Results /\ rows[a] \in Row /\ rows[a].leaves \in Nat
  BY DEF Results, IInv, TypeOK, Row
<1>1. ASSUME NEW s \in {"in_progress", "incident"}, rows[a].status # "completed",
             Begin(p, "save", a, [rows[a] EXCEPT !.status = s], "fail")
      PROVE  Sequential' /\ UNCHANGED rows
  <2> DEFINE row == [rows[a] EXCEPT !.status = s]
  <2>1. row \in Row /\ row.status # "none" /\ row.leaves >= rows[a].leaves
    BY <1>0, <1>1 DEF Row
  <2>2. Begin(p, "save", a, row, "fail")
    BY <1>1
  <2> HIDE DEF row
  <2> QED
    BY <1>0, <1>1, <2>1, <2>2, SequentialBegin
<1>2. CASE resumeAssessment(p, a) \/ reportIncident(p, a) \/ submitTooLate(p, a)
  BY <1>1, <1>2 DEF resumeAssessment, reportIncident, submitTooLate, With
<1>3. ASSUME NEW n \in 0..MaxLeaves, recordProctoringEvents(p, a, n)
      PROVE  Sequential' /\ UNCHANGED rows
  <2> DEFINE leaves == IF n > rows[a].leaves THEN n ELSE rows[a].leaves
             flagged == rows[a].flagged \/ leaves >= FlagAt
             status == IF leaves >= VoidAt THEN "incident" ELSE rows[a].status
             row == [rows[a] EXCEPT !.leaves = leaves, !.flagged = flagged, !.status = status]
  <2>1. rows[a].status = "in_progress"
    BY <1>3 DEF recordProctoringEvents, With
  <2>2. /\ leaves \in 0..MaxLeaves /\ leaves >= rows[a].leaves
        /\ flagged \in BOOLEAN /\ status \in {"in_progress", "incident"}
    BY <1>0, <2>1, AssessmentAssumption DEF Row
  <2>3. Begin(p, "save", a, row, "fail")
    BY <1>3 DEF recordProctoringEvents
  <2> HIDE DEF leaves, flagged, status
  <2>4. row \in Row /\ row.status # "none" /\ row.leaves >= rows[a].leaves
    BY <1>0, <2>2 DEF Row
  <2> HIDE DEF row
  <2> QED
    BY <1>0, <2>1, <2>3, <2>4, SequentialBegin
<1>4. ASSUME NEW result \in Results, finalizeAssessment(p, a, result), a \notin With("none")
      PROVE  Sequential' /\ UNCHANGED rows
  <2>1. rows[a].status # "completed" /\ rows[a].status # "none"
    BY <1>4 DEF finalizeAssessment, IInv, CompletedIsScored, With
  <2> QED
    BY <1>0, <1>4, <2>1, SequentialBegin DEF finalizeAssessment
<1> QED
  BY <1>2, <1>3, <1>4 DEF submitExam, processWebhook, With

\* The writes of a row: nobody else holds an entity that would now be behind it.
LEMMA SequentialWrite ==
    ASSUME IInv, Sequential, OneHandler, NEW p \in Procs,
           Save(p) \/ completeAssessment(p) \/ claimCooldownNotification(p)
    PROVE  Sequential' /\ \A b \in Attempts : Forward(b)
<1> DEFINE a == proc[p].attempt
<1>1. a \in Attempts /\ rows \in [Attempts -> Row] /\ proc \in [Procs -> Handler]
  BY DEF IInv, HeldInv, Held, Request, TypeOK, Save, completeAssessment, claimCooldownNotification
<1>2. proc'[p].op \notin Request /\ \A q \in Procs : q = p
  <2>1. CASE Save(p)
    BY <1>1, <2>1 DEF Save, Idle, Request, OneHandler
  <2>2. CASE completeAssessment(p)
    BY <1>1, <2>2 DEF completeAssessment, Idle, Request, OneHandler
  <2>3. CASE claimCooldownNotification(p)
    BY <1>1, <2>3 DEF claimCooldownNotification, Request, OneHandler
  <2> QED
    BY <2>1, <2>2, <2>3
<1>3. \A b \in Attempts \ {a} : rows'[b] = rows[b]
  BY <1>1 DEF Save, completeAssessment, claimCooldownNotification
<1>4. Forward(a) /\ rows'[a].status # "none"
  <2>1. CASE Save(p)
    BY <1>1, <2>1 DEF Save, Sequential, Ahead, Forward, Request, With
  <2>2. CASE completeAssessment(p)
    BY <1>1, <2>2 DEF completeAssessment, Sequential, Ahead, Forward, Request, Handler, Row
  <2>3. CASE claimCooldownNotification(p)
    <3>1. rows[a].status = "completed" /\ rows[a] \in Row
      BY <1>1, <2>3 DEF claimCooldownNotification, IInv, DoneInv, Done
    <3>2. rows'[a] = [rows[a] EXCEPT !.notified = TRUE]
      BY <1>1, <2>3 DEF claimCooldownNotification
    <3> QED
      BY <3>1, <3>2 DEF Row, Forward
  <2> QED
    BY <2>1, <2>2, <2>3
<1>5. \A b \in Attempts \ {a} : Forward(b)
  BY <1>1, <1>3 DEF Forward, With, Row
<1>6. \A b \in With("none")' : b \in Attempts \ {a} /\ b \in With("none")
  BY <1>3, <1>4 DEF With
<1> QED
  BY <1>1, <1>2, <1>3, <1>4, <1>5, <1>6 DEF Sequential, Ahead

LEMMA SequentialStep ==
    ASSUME IInv, Sequential, OneHandler, [Next]_vars
    PROVE  Sequential' /\ \A b \in Attempts : Forward(b)
<1> DEFINE Goal == Sequential' /\ \A b \in Attempts : Forward(b)
<1>1. CASE UNCHANGED <<rows, proc>>
  BY <1>1, Unwritten DEF Sequential, Ahead, With
<1>2. CASE Tick \/ UNCHANGED vars
  BY <1>1, <1>2 DEF Tick, vars
<1>3. ASSUME NEW a \in Attempts, Overtime(a) \/ ScoreExpires(a) \/ recalculate(a) PROVE Goal
  BY <1>1, <1>3 DEF Overtime, ScoreExpires, recalculate
<1>4. ASSUME NEW p \in Procs, NEW t \in Tests, startAssessment(p, t) PROVE Goal
  <2> PICK a \in With("none") :
        Begin(p, "insert", a, [Unused EXCEPT !.status = "in_progress", !.test = t], "fail")
    BY <1>4 DEF startAssessment
  <2> DEFINE row == [Unused EXCEPT !.status = "in_progress", !.test = t]
  <2>1. row \in Row /\ row.status = "in_progress" /\ row.leaves = 0 /\ "fail" \in Results
    BY UnusedIsRow DEF Row, Unused, Results
  <2>2. a \in Attempts /\ rows[a].status # "completed" /\ rows[a].leaves = 0
    BY DEF With, Sequential
  <2>3. Begin(p, "insert", a, row, "fail")
    OBVIOUS
  <2> HIDE DEF row
  <2> QED
    BY <2>1, <2>2, <2>3, SequentialBegin, Unwritten
<1>5. ASSUME NEW p \in Procs, NEW a \in Attempts,
             \/ resumeAssessment(p, a) \/ reportIncident(p, a) \/ submitTooLate(p, a)
             \/ \E n \in 0..MaxLeaves : recordProctoringEvents(p, a, n)
             \/ \E result \in Results : submitExam(p, a, result) \/ processWebhook(p, a, result)
      PROVE  Goal
  BY <1>5, SequentialLoad, Unwritten
<1>6. ASSUME NEW p \in Procs, Save(p) \/ completeAssessment(p) \/ claimCooldownNotification(p)
      PROVE  Goal
  BY <1>6, SequentialWrite
<1>7. ASSUME NEW p \in Procs,
             \/ insertScore(p) \/ applyThresholds(p) \/ saveProfile(p) \/ saveCompleteness(p)
             \/ notifyCooldownExpired(p) \/ Abort(p)
             \/ \E c \in BOOLEAN : calculateCompleteness(p, c)
             \/ \E a \in Attempts : runCooldownSweep(p, a)
      PROVE  Goal
  <2>1. UNCHANGED rows /\ proc \in [Procs -> Handler]
    BY <1>7 DEF insertScore, applyThresholds, saveProfile, saveCompleteness,
                notifyCooldownExpired, Abort, calculateCompleteness, runCooldownSweep, Begin,
                IInv, TypeOK
  <2>2. \A q \in Procs : proc'[q].op \in Request =>
            /\ proc[q].op \in Request
            /\ proc'[q].row = proc[q].row /\ proc'[q].attempt = proc[q].attempt
    <3>1. CASE insertScore(p)
      BY <2>1, <3>1 DEF insertScore, Request
    <3>2. CASE applyThresholds(p)
      BY <2>1, <3>2 DEF applyThresholds, Idle, Request
    <3>3. CASE saveProfile(p) \/ saveCompleteness(p)
      BY <2>1, <3>3 DEF saveProfile, saveCompleteness, Idle, Request
    <3>4. CASE notifyCooldownExpired(p) \/ Abort(p)
      BY <2>1, <3>4 DEF notifyCooldownExpired, Abort, Idle, Request
    <3>5. CASE \E c \in BOOLEAN : calculateCompleteness(p, c)
      BY <2>1, <3>5 DEF calculateCompleteness, Idle, Request
    <3>6. CASE \E a \in Attempts : runCooldownSweep(p, a)
      BY <2>1, <3>6 DEF runCooldownSweep, Begin, Hold, Idle, Request
    <3> QED
      BY <1>7, <3>1, <3>2, <3>3, <3>4, <3>5, <3>6
  <2> QED
    BY <2>1, <2>2, Unwritten DEF Sequential, Ahead, With
<1> QED
  BY <1>2, <1>3, <1>4, <1>5, <1>6, <1>7 DEF Next

LEMMA SequentialInvariance ==
    ASSUME OneHandler
    PROVE  Spec => []Sequential
<1>1. IInv /\ Sequential /\ [Next]_vars => Sequential'
  BY SequentialStep
<1> QED
  BY <1>1, SequentialStart, Invariance, PTL DEF Spec

---------------------------------------------------------------------------------
(* The theorems.                                                                 *)

\* Types are kept.
THEOREM TypeCorrect == Spec => []TypeOK
<1>1. IInv => TypeOK
  BY DEF IInv
<1> QED
  BY <1>1, Invariance, PTL

\* No interleaving leaves a COMPLETED attempt without its score or its date.
THEOREM CompletionFollowsScore == Spec => []CompletedIsScored
<1>1. IInv => CompletedIsScored
  BY DEF IInv
<1> QED
  BY <1>1, Invariance, PTL

\* A profile is never indexed without a passed attempt.
THEOREM NoUnearnedIndexing == Spec => []IndexedIsEarned
<1>1. IInv => IndexedIsEarned
  BY DEF IInv
<1> QED
  BY <1>1, Invariance, PTL

\* Concurrent and repeated sweeps notify an attempt at most once.
THEOREM AtMostOneNotification == Spec => []NotifiedAtMostOnce
<1>1. IInv => NotifiedAtMostOnce
  BY DEF IInv, NotifyInv, NotifiedAtMostOnce
<1> QED
  BY <1>1, Invariance, PTL

\* A score is never replaced.
THEOREM ScoresAreFinal == Spec => ScoreIsFinal
<1>1. IInv /\ [Next]_vars => [\A a \in Attempts : Kept(a)]_vars
  BY ScoresStay
<1> QED
  BY <1>1, Invariance, PTL DEF Spec, ScoreIsFinal, Kept

LEMMA Soundness == Spec => []SoundInv
<1>1. IInv /\ SoundInv /\ [Next]_vars => SoundInv'
  BY SoundStep
<1> QED
  BY <1>1, SoundStart, Invariance, PTL DEF Spec

\* No stale save leaves a completion date on an attempt that is not COMPLETED.
THEOREM DatesAreCompletions == Spec => []DatedIsCompleted
<1>1. IInv /\ SoundInv => DatedIsCompleted
  BY DEF SoundInv, DatedIsCompleted, With
<1> QED
  BY <1>1, Invariance, Soundness, PTL

\* No interleaving separates a proctoring flag from the counts it rests on.
THEOREM FlagsAreFounded == Spec => []FlagIsFounded
<1>1. SoundInv => FlagIsFounded
  BY DEF SoundInv, Sound, FlagIsFounded
<1> QED
  BY <1>1, Soundness, PTL
\* Whatever overlaps, an attempt completed on an earlier day keeps its row, but for the marker.
THEOREM SettledAttemptsStay == Spec => SettledIsFinal
<1>1. IInv /\ [Next]_vars
        => [\A a \in With("completed") : rows[a].completedAt < now =>
              rows'[a] \in {rows[a], [rows[a] EXCEPT !.notified = TRUE]}]_vars
  <2> SUFFICES ASSUME IInv, [Next]_vars, NEW a \in With("completed"), rows[a].completedAt < now
               PROVE  rows'[a] \in {rows[a], [rows[a] EXCEPT !.notified = TRUE]}
    OBVIOUS
  <2>1. a \in Attempts /\ Done(a)
    BY DEF With, Done, IInv, TypeOK, CompletedIsScored, Row
  <2> QED
    BY <2>1, SettledStays DEF Settled
<1> QED
  BY <1>1, Invariance, PTL DEF Spec, SettledIsFinal

\* One handler at a time, nothing that arrives late takes an attempt out of COMPLETED:
\* neither a heartbeat, an incident, a resume nor another result.
THEOREM CompletionIsFinal ==
    ASSUME OneHandler
    PROVE  Spec => CompletedIsFinal
<1>1. IInv /\ Sequential /\ [Next]_vars
        => [\A a \in With("completed") : rows'[a].status = "completed"]_vars
  BY SequentialStep DEF Forward, With
<1> QED
  BY <1>1, SequentialInvariance, Invariance, PTL DEF Spec, CompletedIsFinal

\* One handler at a time, no heartbeat, resume or completion lowers the proctoring counts.
THEOREM CountsAreMonotonic ==
    ASSUME OneHandler
    PROVE  Spec => LeavesMonotonic
<1>1. IInv /\ Sequential /\ [Next]_vars
        => [\A a \in Attempts : rows'[a].leaves >= rows[a].leaves]_vars
  BY SequentialStep DEF Forward
<1> QED
  BY <1>1, SequentialInvariance, Invariance, PTL DEF Spec, LeavesMonotonic
=================================================================================
