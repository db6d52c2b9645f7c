------------------------------- MODULE Assessments -------------------------------
(***************************************************************************)
(* The attempts of one candidate: start, incident and resume, proctoring   *)
(* heartbeats, the in-app exam and the provider's webhook, the score, the  *)
(* indexation of the profile and the notification at the end of the        *)
(* cooldown.                                                               *)
(*                                                                         *)
(* A process is one request, webhook delivery or sweep item in flight.  No *)
(* handler here runs in a transaction: each statement commits by itself, a *)
(* handler can die between two of them, and repository.save(entity) writes *)
(* back the whole row as the handler read it.                              *)
(***************************************************************************)
EXTENDS Naturals

CONSTANTS
    Procs,
    Attempts,       \* bound: rows of the assessments table
    Tests,
    DefaultTest,    \* one of Tests: the filler of an unused row
    FlagAt,         \* leave events that flag an attempt
    VoidAt,         \* leave events that void it
    MaxLeaves,      \* bound: leave events a client reports
    CooldownDays,
    MaxTime,        \* bound: clock
    Null            \* SQL NULL

ASSUME AssessmentAssumption ==
    /\ DefaultTest \in Tests
    /\ FlagAt \in Nat /\ VoidAt \in Nat /\ MaxLeaves \in Nat
    /\ CooldownDays \in Nat \ {0}
    /\ MaxTime \in Nat
    /\ Null \notin Nat

VARIABLES
    now,        \* the clock, in days
    rows,       \* rows[a]: the assessment row
    overtime,   \* attempts whose time budget and grace are over
    score,      \* score[a]: the scores row, UNIQUE on assessment_id, and what it is worth
    complete,   \* profile.completeness reaches the threshold
    indexed,    \* profile.indexedInCvtheque
    sent,       \* sent[a]: cooldown notifications the candidate has got
    proc        \* proc[p]: the handler's next statement and the entities it holds

vars == <<now, rows, overtime, score, complete, indexed, sent, proc>>

Row == [status : {"none", "in_progress", "incident", "completed"}, test : Tests,
        leaves : 0..MaxLeaves, flagged : BOOLEAN, completedAt : Nat \cup {Null},
        notified : BOOLEAN]

Unused == [status |-> "none", test |-> DefaultTest, leaves |-> 0, flagged |-> FALSE,
           completedAt |-> Null, notified |-> FALSE]

\* What a score is worth when it arrives: over the bar by its value, or only by its
\* percentile, below both, confirmed plagiarism; and what it can become: one whose
\* percentile has fallen again, one that counted until it expired, one that never did.
Results == {"pass", "ranked", "fail", "cheat"}
Worth   == Results \cup {"none", "slipped", "expired", "lapsed"}

Handler == [op : {"idle", "insert", "save", "score", "complete", "apply", "profile",
                  "edit", "claim", "notify"},
            attempt : Attempts \cup {Null}, row : Row, result : Results,
            complete : BOOLEAN, indexed : BOOLEAN]

Idle == [op |-> "idle", attempt |-> Null, row |-> Unused, result |-> "fail",
         complete |-> FALSE, indexed |-> FALSE]

Init ==
    /\ now = 0
    /\ rows = [a \in Attempts |-> Unused]
    /\ overtime = {}
    /\ score = [a \in Attempts |-> "none"]
    /\ complete = FALSE
    /\ indexed = FALSE
    /\ sent = [a \in Attempts |-> 0]
    /\ proc = [p \in Procs |-> Idle]

With(status) == {a \in Attempts : rows[a].status = status}

\* The handler stops at its next statement, holding attempt a and an entity.
Hold(p, op, a, row, result) ==
    proc' = [proc EXCEPT ![p] = [Idle EXCEPT !.op = op, !.attempt = a, !.row = row,
                                             !.result = result]]

Begin(p, op, a, row, result) ==
    /\ proc[p].op = "idle"
    /\ Hold(p, op, a, row, result)
    /\ UNCHANGED <<now, rows, overtime, score, complete, indexed, sent>>

---------------------------------------------------------------------------------
\* assessment.service.ts: checkEligibility
checkEligibility(t) ==
    /\ \A a \in With("in_progress") : rows[a].test # t
    /\ \A a \in With("completed") : rows[a].test = t => rows[a].completedAt + CooldownDays <= now

\* startAssessment: eligibility is read, then the provider is called ...
startAssessment(p, t) ==
    \E a \in With("none") :
        /\ \A q \in Procs : proc[q].attempt # a
        /\ checkEligibility(t)
        /\ Begin(p, "insert", a, [Unused EXCEPT !.status = "in_progress", !.test = t], "fail")

\* resumeAssessment, with the attempt's current resume token
resumeAssessment(p, a) ==
    /\ a \in With("incident")
    /\ Begin(p, "save", a, [rows[a] EXCEPT !.status = "in_progress"], "fail")

\* Mutant: the status of the attempt is not looked at.
reportIncidentAnytime(p, a) ==
    /\ a \notin With("none")
    /\ Begin(p, "save", a, [rows[a] EXCEPT !.status = "incident"], "fail")

reportIncident(p, a) ==
    /\ a \in With("in_progress")
    /\ Begin(p, "save", a, [rows[a] EXCEPT !.status = "incident"], "fail")

\* Mutant: the client's count replaces the stored one.
recordLatest(p, a, n) ==
    /\ a \in With("in_progress")
    /\ Begin(p, "save", a, [rows[a] EXCEPT !.leaves = n, !.flagged = @ \/ n >= FlagAt,
                                          !.status = IF n >= VoidAt THEN "incident" ELSE @], "fail")

\* recordProctoringEvents: n is the client's cumulative count.
recordProctoringEvents(p, a, n) ==
    LET leaves == IF n > rows[a].leaves THEN n ELSE rows[a].leaves
    IN  /\ a \in With("in_progress")
        /\ Begin(p, "save", a,
                 [rows[a] EXCEPT !.leaves = leaves, !.flagged = @ \/ leaves >= FlagAt,
                                 !.status = IF leaves >= VoidAt THEN "incident" ELSE @], "fail")

\* exam.service.ts: submitExam past the budget voids the attempt ...
submitTooLate(p, a) ==
    /\ a \in With("in_progress") \cap overtime
    /\ Begin(p, "save", a, [rows[a] EXCEPT !.status = "incident"], "fail")

\* ... the save of a handler that has read and edited a row, or the insert of a new one.
Save(p) ==
    /\ proc[p].op \in {"insert", "save"}
    /\ rows' = [rows EXCEPT ![proc[p].attempt] = proc[p].row]
    /\ proc' = [proc EXCEPT ![p] = Idle]
    /\ UNCHANGED <<now, overtime, score, complete, indexed, sent>>

---------------------------------------------------------------------------------
\* finalizeAssessment looks for a score first; one that is there ends it.
finalizeAssessment(p, a, result) ==
    /\ score[a] = "none"
    /\ Begin(p, "score", a, rows[a], result)

\* submitExam in time grades the answers itself.
submitExam(p, a, result) ==
    /\ a \in With("in_progress") \ overtime
    /\ result # "cheat"
    /\ finalizeAssessment(p, a, result)

\* webhook.service.ts: processWebhook, for an attempt in any status.  simulateCompletion,
\* a development route, is the case of an attempt in progress.
processWebhook(p, a, result) ==
    /\ a \notin With("none")
    /\ finalizeAssessment(p, a, result)

\* Mutant: the scores table has no unique constraint and the later insert wins.
insertScoreAnyway(p) ==
    /\ proc[p].op = "score"
    /\ score' = [score EXCEPT ![proc[p].attempt] = proc[p].result]
    /\ proc' = [proc EXCEPT ![p] = [@ EXCEPT !.op = "complete"]]
    /\ UNCHANGED <<now, rows, overtime, complete, indexed, sent>>

\* The score is inserted; UNIQUE(assessment_id) fails the second of two finalizations.
insertScore(p) ==
    /\ proc[p].op = "score"
    /\ score[proc[p].attempt] = "none"
    /\ score' = [score EXCEPT ![proc[p].attempt] = proc[p].result]
    /\ proc' = [proc EXCEPT ![p] = [@ EXCEPT !.op = "complete"]]
    /\ UNCHANGED <<now, rows, overtime, complete, indexed, sent>>

\* Mutant: the attempt is completed before its score is stored.
completeEarly(p) ==
    /\ proc[p].op \in {"score", "complete"}
    /\ rows' = [rows EXCEPT ![proc[p].attempt] =
                  [proc[p].row EXCEPT !.status = "completed", !.completedAt = now]]
    /\ proc' = [proc EXCEPT ![p] = [Idle EXCEPT !.op = "apply"]]
    /\ UNCHANGED <<now, overtime, score, complete, indexed, sent>>

\* The attempt, as it was read, is saved COMPLETED.
completeAssessment(p) ==
    /\ proc[p].op = "complete"
    /\ rows' = [rows EXCEPT ![proc[p].attempt] =
                  [proc[p].row EXCEPT !.status = "completed", !.completedAt = now]]
    /\ proc' = [proc EXCEPT ![p] = [Idle EXCEPT !.op = "apply"]]
    /\ UNCHANGED <<now, overtime, score, complete, indexed, sent>>

\* Mutant: any score of a completed attempt counts.
qualifiesScored(a) == rows[a].status = "completed" /\ score[a] # "none"

\* A score that counts: completed attempt, over the bar, valid, no confirmed plagiarism.
qualifies(a) == rows[a].status = "completed" /\ score[a] \in {"pass", "ranked"}

\* indexation.service.ts: applyThresholds reads the profile, the attempts and the scores ...
applyThresholds(p) ==
    /\ proc[p].op = "apply"
    /\ proc' = [proc EXCEPT ![p] =
                  [Idle EXCEPT !.op = "profile", !.complete = complete,
                               !.indexed = complete /\ \E a \in Attempts : qualifies(a)]]
    /\ UNCHANGED <<now, rows, overtime, score, complete, indexed, sent>>

\* ... and saves the profile it has read.  So does updateProfile.
saveProfile(p) ==
    /\ proc[p].op = "profile"
    /\ complete' = proc[p].complete
    /\ indexed' = proc[p].indexed
    /\ proc' = [proc EXCEPT ![p] = Idle]
    /\ UNCHANGED <<now, rows, overtime, score, sent>>

\* candidate-profile.service.ts: calculateCompleteness, after any edit and on a read, loads
\* the profile and counts; c: the threshold is reached now.  A count that is as before
\* still saves the profile, a new one also has the thresholds applied again.
calculateCompleteness(p, c) ==
    /\ proc[p].op = "idle"
    /\ \E op \in {"edit", "profile"} :
        /\ op = "profile" => c = complete
        /\ proc' = [proc EXCEPT ![p] = [Idle EXCEPT !.op = op, !.complete = c,
                                                   !.indexed = indexed]]
    /\ UNCHANGED <<now, rows, overtime, score, complete, indexed, sent>>

saveCompleteness(p) ==
    /\ proc[p].op = "edit"
    /\ complete' = proc[p].complete
    /\ indexed' = proc[p].indexed
    /\ proc' = [proc EXCEPT ![p] = [Idle EXCEPT !.op = "apply"]]
    /\ UNCHANGED <<now, rows, overtime, score, sent>>

---------------------------------------------------------------------------------
\* remediation-notification.service.ts: runCooldownSweep finds the rows to notify ...
runCooldownSweep(p, a) ==
    /\ a \in With("completed")
    /\ rows[a].completedAt + CooldownDays <= now
    /\ ~ rows[a].notified
    /\ Begin(p, "claim", a, Unused, "fail")

\* Mutant: the marker is set without looking at it.
claimAlways(p) ==
    /\ proc[p].op = "claim"
    /\ rows' = [rows EXCEPT ![proc[p].attempt] = [@ EXCEPT !.notified = TRUE]]
    /\ proc' = [proc EXCEPT ![p] = [@ EXCEPT !.op = "notify"]]
    /\ UNCHANGED <<now, overtime, score, complete, indexed, sent>>

\* ... claims each with UPDATE ... WHERE cooldown_notified_at IS NULL ...
claimCooldownNotification(p) ==
    /\ proc[p].op = "claim"
    /\ ~ rows[proc[p].attempt].notified
    /\ rows' = [rows EXCEPT ![proc[p].attempt] = [@ EXCEPT !.notified = TRUE]]
    /\ proc' = [proc EXCEPT ![p] = [@ EXCEPT !.op = "notify"]]
    /\ UNCHANGED <<now, overtime, score, complete, indexed, sent>>

\* ... and then notifies.
notifyCooldownExpired(p) ==
    /\ proc[p].op = "notify"
    /\ sent' = [sent EXCEPT ![proc[p].attempt] = @ + 1]
    /\ proc' = [proc EXCEPT ![p] = Idle]
    /\ UNCHANGED <<now, rows, overtime, score, complete, indexed>>

---------------------------------------------------------------------------------
\* An exception, a claim somebody else has, a lost connection or a dead process: what
\* has been written stays, the rest is not done.
Abort(p) ==
    /\ proc[p].op # "idle"
    /\ proc' = [proc EXCEPT ![p] = Idle]
    /\ UNCHANGED <<now, rows, overtime, score, complete, indexed, sent>>

\* The exam's budget runs out.
Overtime(a) ==
    /\ a \in With("in_progress") \ overtime
    /\ overtime' = overtime \cup {a}
    /\ UNCHANGED <<now, rows, score, complete, indexed, sent, proc>>

\* score.expiresAt passes.
ScoreExpires(a) ==
    /\ score[a] \in {"pass", "ranked", "slipped", "fail"}
    /\ score' = [score EXCEPT ![a] = IF @ = "fail" THEN "lapsed" ELSE "expired"]
    /\ UNCHANGED <<now, rows, overtime, complete, indexed, sent, proc>>

\* percentile-recalc.service.ts: recalculate moves the percentile of a valid score with
\* the cohort, across the bar or back; nothing applies the thresholds again.
recalculate(a) ==
    /\ score[a] \in {"ranked", "slipped", "fail"}
    /\ score' = [score EXCEPT ![a] = IF @ = "ranked" THEN "slipped" ELSE "ranked"]
    /\ UNCHANGED <<now, rows, overtime, complete, indexed, sent, proc>>

\* A day passes; a request does not last that long, a sweep may be held up.
Tick ==
    /\ now < MaxTime
    /\ \A p \in Procs : proc[p].op \in {"idle", "claim", "notify"}
    /\ now' = now + 1
    /\ UNCHANGED <<rows, overtime, score, complete, indexed, sent, proc>>

Next ==
    \/ Tick
    \/ \E a \in Attempts : Overtime(a) \/ ScoreExpires(a) \/ recalculate(a)
    \/ \E p \in Procs :
        \/ \E t \in Tests : startAssessment(p, t)
        \/ \E a \in Attempts :
            \/ resumeAssessment(p, a) \/ reportIncident(p, a) \/ submitTooLate(p, a)
            \/ \E n \in 0..MaxLeaves : recordProctoringEvents(p, a, n)
            \/ \E result \in Results : submitExam(p, a, result) \/ processWebhook(p, a, result)
            \/ runCooldownSweep(p, a)
        \/ Save(p) \/ insertScore(p) \/ completeAssessment(p)
        \/ applyThresholds(p) \/ saveProfile(p) \/ saveCompleteness(p)
        \/ \E c \in BOOLEAN : calculateCompleteness(p, c)
        \/ claimCooldownNotification(p) \/ notifyCooldownExpired(p) \/ Abort(p)

Spec == Init /\ [][Next]_vars

---------------------------------------------------------------------------------
\* Every variable keeps its type.
TypeOK ==
    /\ now \in 0..MaxTime
    /\ rows \in [Attempts -> Row]
    /\ overtime \subseteq Attempts
    /\ score \in [Attempts -> Worth]
    /\ complete \in BOOLEAN /\ indexed \in BOOLEAN
    /\ sent \in [Attempts -> Nat]
    /\ proc \in [Procs -> Handler]

\* A COMPLETED attempt has its score and its date, whatever stale saves, replayed
\* webhooks, crashes and late submissions do to the row.
CompletedIsScored ==
    \A a \in With("completed") : score[a] # "none" /\ rows[a].completedAt # Null

\* The percentile may move a score within one grade.
Grade(w) == IF w \in {"ranked", "slipped", "fail"} THEN "below" ELSE w

\* A score is never replaced by another one: the webhook and the in-app exam may both
\* finalize an attempt and only one of them counts ("replay safe"); later its percentile
\* moves or it expires, but its value and its verdict stay.
ScoreIsFinal ==
    [][\A a \in Attempts : score[a] # "none" =>
          \/ Grade(score'[a]) = Grade(score[a])
          \/ score'[a] \in {"expired", "lapsed"} /\ score[a] # "cheat"]_vars

\* A profile is indexed only if some attempt of the candidate once passed the bar, by value
\* or by percentile, whatever stale profiles and stale evaluations are saved over each
\* other; confirmed plagiarism never gets anybody indexed.
IndexedIsEarned ==
    indexed => \E a \in Attempts : score[a] \in {"pass", "ranked", "slipped", "expired"}

\* However many sweeps run at once or again, a candidate is told at most once per attempt
\* that the cooldown is over.
NotifiedAtMostOnce == \A a \in Attempts : sent[a] <= 1

\* Only a COMPLETED attempt is dated, and its incident is never reported afterwards: a
\* handler that has read the attempt before may save it back, but takes the date with it.
DatedIsCompleted == \A a \in Attempts : rows[a].completedAt # Null => a \in With("completed")

\* A proctoring flag rests on the counts beside it, whatever heartbeats, completions and
\* stale saves overwrite one another: a candidate is not flagged for leaves he has not made.
FlagIsFounded == \A a \in Attempts : rows[a].flagged => rows[a].leaves >= FlagAt

\* Until a COMPLETED attempt's day is over, an overlapping request may still save an older
\* copy over it.  After that no handler changes it but for the marker, set once, whichever
\* webhooks, heartbeats and sweeps come late.
SettledIsFinal ==
    [][\A a \in With("completed") : rows[a].completedAt < now =>
          rows'[a] \in {rows[a], [rows[a] EXCEPT !.notified = TRUE]}]_vars

\* One handler at a time, a COMPLETED attempt stays COMPLETED.
CompletedIsFinal ==
    [][\A a \in With("completed") : rows'[a].status = "completed"]_vars

\* One handler at a time, the proctoring counts never decrease
\* (assessment.service.ts: "counts are monotonic").
LeavesMonotonic == [][\A a \in Attempts : rows'[a].leaves >= rows[a].leaves]_vars

---------------------------------------------------------------------------------
(* What comments in the code say and the code does not do (see README).            *)

\* PROGRESS.md: "session unique, 1 tentative/90j/test": two attempts on one test that
\* count are a cooldown apart.
OneAttemptPerCooldown ==
    \A a, b \in With("completed") :
        a # b /\ rows[a].test = rows[b].test =>
            \/ rows[a].completedAt + CooldownDays <= rows[b].completedAt
            \/ rows[b].completedAt + CooldownDays <= rows[a].completedAt

\* assessment.service.ts: an attempt over the hard limit is VOIDED, "the attempt can't be
\* trusted".
VoidedNeverCounts == \A a \in With("completed") : rows[a].leaves < VoidAt

\* assessment.entity.ts: cooldownNotifiedAt is "set once the J-90 cooldown-expiry
\* notification has actually been sent".
MarkedIsNotified ==
    \A a \in Attempts :
        rows[a].notified /\ (\A p \in Procs : proc[p].attempt # a) => sent[a] = 1

\* webhook.service.ts: "persist a result's Score, mark the attempt COMPLETED".
ScoredIsCompleted ==
    \A a \in Attempts :
        score[a] # "none" /\ (\A p \in Procs : proc[p].attempt # a) => a \in With("completed")
=================================================================================
