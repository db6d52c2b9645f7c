----------------------------- MODULE CandidateProfiles -----------------------------
(***************************************************************************)
(* One candidate's profile row and the requests that write it: his edits,  *)
(* the recalculations that follow them and his assessments, moderation,    *)
(* the badge of a verified school, and the erasure of his data.            *)
(*                                                                         *)
(* Nothing here runs in a transaction: every statement commits by itself,  *)
(* requests interleave, and one may die between two statements.  An entity *)
(* that is saved writes back every column as it was read, and inserts the  *)
(* row again if it has been removed in between.  One profile per user is   *)
(* all that the database enforces.  What verifies a school is the module   *)
(* SchoolVerifications; here a decision for the profile is taken at any    *)
(* time.                                                                   *)
(***************************************************************************)
EXTENDS Naturals, FiniteSets

CONSTANTS
    Requests,      \* requests in flight at once
    MaxProfiles    \* bound: profiles ever created

ASSUME ProfileAssumption == MaxProfiles \in Nat

VARIABLES
    profile,        \* the row of candidate_profiles, or NoProfile
    lastProfile,    \* the last profile's id
    granted,        \* history: the profiles whose school has been verified
    req             \* req[p]: where request p stands and the row it has read

vars == <<profile, lastProfile, granted, req>>

Profile(id) == [id |-> id, visible |-> FALSE, suspended |-> FALSE, indexed |-> FALSE, verified |-> FALSE]

NoProfile == Profile(0)

Idle == [pc |-> "idle", op |-> "none", row |-> NoProfile]

Init ==
    /\ profile = NoProfile /\ lastProfile = 0 /\ granted = {}
    /\ req = [p \in Requests |-> Idle]

---------------------------------------------------------------------------------
Become(p, x) == req' = [req EXCEPT ![p] = x]
Done(p)      == Become(p, Idle)
At(p, pc)    == req[p].pc = pc

\* A handler loads the profile, to save it with a change or to remove it.
Load(p, op, pc) ==
    /\ profile.id # 0
    /\ Become(p, [pc |-> pc, op |-> op, row |-> profile])
    /\ UNCHANGED <<profile, lastProfile, granted>>

\* findOrCreateProfile and the same two statements in submit.
findOrCreateProfile(p) ==
    /\ At(p, "idle") /\ profile.id = 0
    /\ Become(p, [Idle EXCEPT !.pc = "create"])
    /\ UNCHANGED <<profile, lastProfile, granted>>

\* Mutant: the profile is keyed by its user.
createSame(p) ==
    /\ At(p, "create")
    /\ profile' = IF profile.id = 0 THEN Profile(1) ELSE profile
    /\ lastProfile' = 1
    /\ Done(p)
    /\ UNCHANGED granted

\* A second profile of the user's is refused.
createProfile(p) ==
    /\ At(p, "create")
    /\ \/ /\ profile.id = 0 /\ lastProfile < MaxProfiles
          /\ lastProfile' = lastProfile + 1 /\ profile' = Profile(lastProfile')
       \/ profile.id # 0 /\ UNCHANGED <<profile, lastProfile>>
    /\ Done(p)
    /\ UNCHANGED granted

\* updateProfile: a profile that becomes visible is indexed and has a diploma.
updateProfile(p) ==
    /\ At(p, "idle")
    /\ \/ Load(p, "edit", "save") \/ Load(p, "hide", "save")
       \/ profile.indexed /\ Load(p, "show", "diploma")

findDiploma(p) ==
    /\ At(p, "diploma")
    /\ Become(p, [req[p] EXCEPT !.pc = "save"]) \/ Done(p)
    /\ UNCHANGED <<profile, lastProfile, granted>>

setModeration(p) == At(p, "idle") /\ (Load(p, "suspend", "save") \/ Load(p, "reinstate", "save"))

\* After a change of a skill, a link, an experience or a CV, or of the profile itself.
calculateCompleteness(p) == (At(p, "idle") \/ At(p, "recalculate")) /\ Load(p, "complete", "save")

\* After a score, or a change of the completeness.
applyThresholds(p) == (At(p, "idle") \/ At(p, "reindex")) /\ Load(p, "index", "save")

\* A profile that is gone ends the recalculation.
profileGone(p) ==
    /\ At(p, "recalculate") \/ At(p, "reindex")
    /\ profile.id = 0
    /\ Done(p)
    /\ UNCHANGED <<profile, lastProfile, granted>>

\* Mutant: an edit may carry moderationStatus.
writtenByAnyone(op, row) ==
    CASE op = "edit"      -> {row, [row EXCEPT !.suspended = FALSE]}
      [] op = "show"      -> {[row EXCEPT !.visible = TRUE]}
      [] op = "hide"      -> {[row EXCEPT !.visible = FALSE]}
      [] op = "suspend"   -> {[row EXCEPT !.suspended = TRUE, !.visible = FALSE]}
      [] op = "reinstate" -> {[row EXCEPT !.suspended = FALSE]}
      [] op = "index"     -> {[row EXCEPT !.indexed = i] : i \in BOOLEAN}
      [] op = "complete"  -> {row}

\* What each handler makes of the row it has loaded; applyThresholds decides by the
\* completeness and the last score.
written(op, row) ==
    CASE op = "edit"      -> {row}
      [] op = "show"      -> {[row EXCEPT !.visible = TRUE]}
      [] op = "hide"      -> {[row EXCEPT !.visible = FALSE]}
      [] op = "suspend"   -> {[row EXCEPT !.suspended = TRUE, !.visible = FALSE]}
      [] op = "reinstate" -> {[row EXCEPT !.suspended = FALSE]}
      [] op = "index"     -> {[row EXCEPT !.indexed = i] : i \in BOOLEAN}
      [] op = "complete"  -> {row}

\* An edit is followed by calculateCompleteness, and that by applyThresholds if the
\* value has changed.
Followed(p) ==
    CASE req[p].op \in {"edit", "show", "hide"} -> Become(p, [Idle EXCEPT !.pc = "recalculate"])
      [] req[p].op = "complete" -> Done(p) \/ Become(p, [Idle EXCEPT !.pc = "reindex"])
      [] OTHER -> Done(p)

\* Another profile of the user's makes the save fail.
save(p) ==
    /\ At(p, "save")
    /\ IF profile.id \in {0, req[p].row.id}
         THEN profile' \in written(req[p].op, req[p].row) /\ Followed(p)
         ELSE Done(p) /\ UNCHANGED profile
    /\ UNCHANGED <<lastProfile, granted>>

\* The school of a profile is verified: by an administrator, or by a submission that the
\* OCR matches.
approve(p) ==
    /\ At(p, "idle") /\ profile.id # 0
    /\ granted' = granted \cup {profile.id}
    /\ Become(p, [pc |-> "mark", op |-> "none", row |-> Profile(profile.id)])
    /\ UNCHANGED <<profile, lastProfile>>

\* Mutant: the profile is found by its user.
markUser(p) ==
    /\ At(p, "mark")
    /\ profile' = IF profile.id # 0 THEN [profile EXCEPT !.verified = TRUE] ELSE profile
    /\ Done(p)
    /\ UNCHANGED <<lastProfile, granted>>

\* schoolVerified, written by itself and by the profile's id.
mark(p) ==
    /\ At(p, "mark")
    /\ profile' = IF profile.id = req[p].row.id THEN [profile EXCEPT !.verified = TRUE] ELSE profile
    /\ Done(p)
    /\ UNCHANGED <<lastProfile, granted>>

\* deleteData, for the profile.
deleteData(p) == At(p, "idle") /\ Load(p, "none", "remove")

removeProfile(p) ==
    /\ At(p, "remove")
    /\ profile' = IF profile.id = req[p].row.id THEN NoProfile ELSE profile
    /\ Done(p)
    /\ UNCHANGED <<lastProfile, granted>>

\* The process dies, or a statement fails: what is written stays written.
Crash(p) ==
    /\ req[p].pc # "idle"
    /\ Done(p)
    /\ UNCHANGED <<profile, lastProfile, granted>>

Next ==
    \E p \in Requests :
        \/ findOrCreateProfile(p) \/ createProfile(p)
        \/ updateProfile(p) \/ findDiploma(p) \/ setModeration(p)
        \/ calculateCompleteness(p) \/ applyThresholds(p) \/ profileGone(p) \/ save(p)
        \/ approve(p) \/ mark(p) \/ deleteData(p) \/ removeProfile(p) \/ Crash(p)

Spec == Init /\ [][Next]_vars

---------------------------------------------------------------------------------
ProfileRow == [id : 0..MaxProfiles, visible : BOOLEAN, suspended : BOOLEAN, indexed : BOOLEAN,
               verified : BOOLEAN]

Request ==
    [pc : {"idle", "create", "diploma", "save", "recalculate", "reindex", "mark", "remove"},
     op : {"none", "edit", "show", "hide", "suspend", "reinstate", "index", "complete"},
     row : ProfileRow]

\* Every variable keeps its type.
TypeOK ==
    /\ profile \in ProfileRow /\ lastProfile \in 0..MaxProfiles
    /\ granted \subseteq 1..lastProfile
    /\ req \in [Requests -> Request]
    /\ profile.id <= lastProfile /\ \A p \in Requests : req[p].row.id <= lastProfile

\* A verified profile is one whose own school has been verified: neither an erasure
\* followed by a new profile nor the save of an old row carries the badge over.
BadgeEarned == profile.verified => profile.id \in granted

\* The request whose save is being executed, if a row is.
Saves(p) == At(p, "save") /\ req'[p].pc # "save"

\* A suspension ends by a moderator's decision, or is overwritten by a request that had
\* loaded the profile before it was suspended.
SuspensionHolds ==
    [][profile.suspended /\ profile'.id = profile.id /\ ~ profile'.suspended
         => \E p \in Requests : Saves(p) /\ (req[p].op = "reinstate" \/ ~ req[p].row.suspended)]_vars

\* A badge is lost only to a request that had loaded the profile before it was marked.
BadgeKept ==
    [][profile.verified /\ profile'.id = profile.id /\ ~ profile'.verified
         => \E p \in Requests : Saves(p) /\ ~ req[p].row.verified]_vars

\* What an erasure has removed is brought back only by a request that had loaded it
\* before; whoever comes later gets a new, empty profile.
ErasedStays ==
    [][profile.id = 0 /\ profile'.id # 0
         => \/ profile' = Profile(lastProfile + 1)
            \/ \E p \in Requests : Saves(p) /\ req[p].row.id = profile'.id]_vars

---------------------------------------------------------------------------------
(* What a comment in the code says and the code does not do (see README).          *)

\* candidate-profile.entity.ts: a suspended profile "cannot be un-suspended by them".
SuspendedByModerators ==
    [][profile.suspended /\ profile'.id = profile.id /\ ~ profile'.suspended
         => \E p \in Requests : Saves(p) /\ req[p].op = "reinstate"]_vars
=================================================================================
