------------------------- MODULE ProfilesAndAlertsProofs -------------------------
(***************************************************************************)
(* CandidateProfiles, for any number of requests and of profiles: types,   *)
(* the badge that only a verified profile wears, and what may end a        *)
(* suspension, a badge or an erasure.                                      *)
(*                                                                         *)
(* SavedSearchAlerts, for any number of sweeps, of the owner's requests,   *)
(* of profiles and of instants: types, no alerts without a watermark, one  *)
(* claim per watermark, two alerts for an update at most, and the reasons  *)
(* for which a match may be dropped.                                       *)
(*                                                                         *)
(* The two meet in the profile's row, whose updates the sweeps count; they *)
(* share no variable.                                                      *)
(***************************************************************************)
EXTENDS CandidateProfiles, SavedSearchAlerts, TLAPS

---------------------------------------------------------------------------------
(* Profiles.  A save writes back a row that was read before, so the invariant says *)
(* of every row that a request holds what BadgeEarned says of the profile.         *)

Ops == {"edit", "show", "hide", "suspend", "reinstate", "index", "complete"}

\* What a request holds: a row whose badge was earned, a decision to mark, an operation
\* to save the row with.
Holds(x) ==
    /\ x.row.verified => x.row.id \in granted
    /\ x.pc = "mark" => x.row.id \in granted
    /\ x.pc \in {"save", "diploma", "remove", "mark"} => x.row.id # 0
    /\ x.pc \in {"save", "diploma"} => x.op \in Ops

IInv == TypeOK /\ BadgeEarned /\ \A p \in Requests : Holds(req[p])

\* What a handler makes of a row keeps its key and its badge, and a suspension unless the
\* handler is a moderator's reinstatement.
LEMMA Written ==
    ASSUME NEW op \in Ops, NEW row \in ProfileRow, NEW x \in written(op, row)
    PROVE  /\ x \in ProfileRow /\ x.id = row.id /\ x.verified = row.verified
           /\ row.suspended /\ op # "reinstate" => x.suspended
<1>1. CASE op = "edit" \/ op = "complete"
      BY <1>1 DEF written
<1>2. CASE op = "show"
      BY <1>2 DEF written, ProfileRow
<1>3. CASE op = "hide"
      BY <1>3 DEF written, ProfileRow
<1>4. CASE op = "suspend"
      BY <1>4 DEF written, ProfileRow
<1>5. CASE op = "reinstate"
      BY <1>5 DEF written, ProfileRow
<1>6. CASE op = "index"
      <2>1. PICK i \in BOOLEAN : x = [row EXCEPT !.indexed = i]
            BY <1>6 DEF written
      <2> QED BY <2>1, <1>6 DEF ProfileRow
<1> QED BY <1>1, <1>2, <1>3, <1>4, <1>5, <1>6 DEF Ops

\* An empty profile is a row without a badge.
LEMMA Fresh ==
    ASSUME NEW id \in 0..MaxProfiles
    PROVE  Profile(id) \in ProfileRow /\ Profile(id).id = id /\ ~ Profile(id).verified
BY DEF Profile, ProfileRow

\* The idle request holds nothing.
LEMMA IdleHolds == Idle \in Request /\ Holds(Idle) /\ Idle.row.id = 0
<1>1. NoProfile \in ProfileRow /\ NoProfile.id = 0 /\ ~ NoProfile.verified
      BY ProfileAssumption, Fresh DEF NoProfile
<1> QED BY <1>1 DEF Idle, Request, Holds

\* A step in which one request moves: it is enough that the new local state is right and
\* that nothing that the others hold has been taken back.
LEMMA Moves ==
    ASSUME IInv, NEW p \in Requests, NEW x, Become(p, x),
           x \in Request, Holds(x)', x.row.id <= lastProfile',
           profile' \in ProfileRow, profile'.id <= lastProfile',
           profile'.verified => profile'.id \in granted',
           lastProfile' \in 0..MaxProfiles, lastProfile <= lastProfile',
           granted \subseteq granted', granted' \subseteq 1..lastProfile'
    PROVE  IInv'
<1>1. req' = [req EXCEPT ![p] = x] /\ req \in [Requests -> Request]
      BY DEF Become, IInv, TypeOK
<1>2. \A q \in Requests : req'[q] = IF q = p THEN x ELSE req[q]
      BY <1>1
<1>3. req' \in [Requests -> Request]
      BY <1>1
<1>4. \A q \in Requests : Holds(req[q])'
      <2>1. TAKE q \in Requests
      <2>2. CASE q = p
            BY <1>2, <2>2 DEF Holds
      <2>3. CASE q # p
            <3>1. Holds(req[q]) /\ req'[q] = req[q]
                  BY <1>2, <2>3 DEF IInv
            <3> QED BY <3>1 DEF Holds
      <2> QED BY <2>2, <2>3
<1>5. \A q \in Requests : req'[q].row.id <= lastProfile'
      <2>1. TAKE q \in Requests
      <2>2. req[q].row.id \in Nat /\ req[q].row.id <= lastProfile /\ lastProfile \in Nat /\ lastProfile' \in Nat
            BY <1>1, ProfileAssumption DEF IInv, TypeOK, Request, ProfileRow
      <2> QED BY <1>2, <2>2
<1>6. TypeOK'
      BY <1>3, <1>5 DEF TypeOK
<1>7. BadgeEarned'
      BY DEF BadgeEarned
<1> QED BY <1>4, <1>6, <1>7 DEF IInv

\* A step that leaves the tables alone.
LEMMA Stays ==
    ASSUME IInv, NEW p \in Requests, NEW x, Become(p, x), UNCHANGED <<profile, lastProfile, granted>>,
           x \in Request, Holds(x), x.row.id <= lastProfile
    PROVE  IInv'
<1>1. Holds(x)'
      BY DEF Holds
<1>2. lastProfile \in Nat
      BY ProfileAssumption DEF IInv, TypeOK
<1> QED BY <1>1, <1>2, Moves DEF IInv, TypeOK, BadgeEarned

\* A request that ends.
LEMMA Ends ==
    ASSUME IInv, NEW p \in Requests, Done(p), UNCHANGED <<profile, lastProfile, granted>>
    PROVE  IInv'
<1>1. 0 <= lastProfile
      BY ProfileAssumption DEF IInv, TypeOK
<1> QED BY <1>1, IdleHolds, Stays DEF Done

\* A handler that loads the profile.
LEMMA Loads ==
    ASSUME IInv, NEW p \in Requests, NEW op, NEW pc, Load(p, op, pc),
           (op \in Ops /\ pc \in {"save", "diploma"}) \/ (op = "none" /\ pc = "remove")
    PROVE  IInv'
<1> DEFINE x == [pc |-> pc, op |-> op, row |-> profile]
<1>1. x \in Request /\ x.row.id <= lastProfile
      BY DEF IInv, TypeOK, Request, Ops
<1>2. Holds(x)
      BY DEF Holds, IInv, BadgeEarned, Load
<1>3. Become(p, x) /\ UNCHANGED <<profile, lastProfile, granted>>
      BY DEF Load
<1> HIDE DEF x
<1> QED BY <1>1, <1>2, <1>3, Stays

LEMMA Initially == Init => IInv
<1> SUFFICES ASSUME Init PROVE IInv
    OBVIOUS
<1>1. NoProfile \in ProfileRow /\ NoProfile.id = 0 /\ ~ NoProfile.verified
      BY ProfileAssumption, Fresh DEF NoProfile
<1>2. \A p \in Requests : req[p] = Idle
      BY DEF Init
<1>3. req \in [Requests -> Request]
      BY IdleHolds DEF Init
<1>4. TypeOK /\ BadgeEarned
      BY <1>1, <1>2, <1>3, IdleHolds, ProfileAssumption DEF Init, TypeOK, BadgeEarned
<1> QED BY <1>2, <1>4, IdleHolds DEF IInv

\* A save: the row that the request holds, with the handler's change.
LEMMA SaveStep == ASSUME IInv, NEW p \in Requests, save(p) PROVE IInv'
<1>1. req[p] \in Request /\ Holds(req[p]) /\ req[p].op \in Ops /\ req[p].row \in ProfileRow
      /\ req[p].row.id <= lastProfile /\ req[p].pc = "save"
      BY DEF IInv, TypeOK, save, At, Holds, Request
<1>2. lastProfile \in Nat /\ lastProfile \in 0..MaxProfiles /\ granted \subseteq 1..lastProfile
      BY ProfileAssumption DEF IInv, TypeOK
<1>3. PICK x \in {Idle, [Idle EXCEPT !.pc = "recalculate"], [Idle EXCEPT !.pc = "reindex"]} : Become(p, x)
      BY DEF save, Followed, Done
<1>4. x \in Request /\ Holds(x) /\ x.row.id = 0
      BY <1>3, IdleHolds DEF Idle, Request, Holds
<1>5. UNCHANGED <<lastProfile, granted>> /\ Holds(x)'
      BY <1>4 DEF save, Holds
<1>6. CASE UNCHANGED profile
      BY <1>2, <1>3, <1>4, <1>5, <1>6, Stays
<1>7. CASE profile' \in written(req[p].op, req[p].row)
      <2>1. profile' \in ProfileRow /\ profile'.id = req[p].row.id /\ profile'.verified = req[p].row.verified
            BY <1>1, <1>7, Written
      <2>2. profile'.verified => profile'.id \in granted
            BY <1>1, <2>1 DEF Holds
      <2> QED BY <1>1, <1>2, <1>3, <1>4, <1>5, <2>1, <2>2, Moves
<1> QED BY <1>6, <1>7 DEF save

\* The badge is written to the profile whose school has been verified.
LEMMA MarkStep == ASSUME IInv, NEW p \in Requests, mark(p) PROVE IInv'
<1>1. req[p].row.id \in granted
      BY DEF IInv, Holds, mark, At
<1>2. lastProfile \in Nat /\ lastProfile \in 0..MaxProfiles /\ granted \subseteq 1..lastProfile
      /\ profile \in ProfileRow /\ profile.id <= lastProfile
      BY ProfileAssumption DEF IInv, TypeOK
<1>3. profile' \in ProfileRow /\ profile'.id = profile.id /\ (profile'.verified => profile.id \in granted)
      <2>1. CASE profile.id = req[p].row.id
            BY <1>1, <1>2, <2>1 DEF mark, ProfileRow
      <2>2. CASE profile.id # req[p].row.id
            BY <1>2, <2>2 DEF mark, IInv, BadgeEarned
      <2> QED BY <2>1, <2>2
<1>4. UNCHANGED <<lastProfile, granted>> /\ Become(p, Idle)
      BY DEF mark, Done
<1>5. Holds(Idle)'
      BY <1>4, IdleHolds DEF Holds
<1> QED BY <1>2, <1>3, <1>4, <1>5, IdleHolds, Moves

LEMMA IInvStep == IInv /\ [Next]_vars => IInv'
<1> SUFFICES ASSUME IInv, [Next]_vars PROVE IInv'
    OBVIOUS
<1>0. /\ lastProfile \in Nat /\ lastProfile \in 0..MaxProfiles /\ granted \subseteq 1..lastProfile
      /\ profile \in ProfileRow /\ profile.id <= lastProfile
      /\ NoProfile \in ProfileRow /\ NoProfile.id = 0 /\ ~ NoProfile.verified
      BY ProfileAssumption, Fresh DEF IInv, TypeOK, NoProfile
<1>1. CASE UNCHANGED vars
      BY <1>1 DEF vars, IInv, TypeOK, BadgeEarned, Holds
<1>2. ASSUME NEW p \in Requests, findOrCreateProfile(p) PROVE IInv'
      <2> DEFINE x == [Idle EXCEPT !.pc = "create"]
      <2>1. Become(p, x) /\ UNCHANGED <<profile, lastProfile, granted>>
            BY <1>2 DEF findOrCreateProfile
      <2>2. x \in Request /\ Holds(x) /\ x.row.id <= lastProfile
            BY <1>0, IdleHolds DEF Idle, Request, Holds
      <2> HIDE DEF x
      <2> QED BY <1>0, <2>1, <2>2, Stays
<1>3. ASSUME NEW p \in Requests, createProfile(p) PROVE IInv'
      <2>1. Become(p, Idle) /\ UNCHANGED granted
            BY <1>3 DEF createProfile, Done
      <2>2. CASE UNCHANGED <<profile, lastProfile>>
            BY <2>1, <2>2, Ends DEF Done
      <2>3. CASE lastProfile < MaxProfiles /\ lastProfile' = lastProfile + 1 /\ profile' = Profile(lastProfile')
            <3>1. lastProfile' \in 0..MaxProfiles /\ granted \subseteq 1..lastProfile' /\ lastProfile <= lastProfile'
                  BY <1>0, <2>3, ProfileAssumption
            <3>2. profile' \in ProfileRow /\ profile'.id = lastProfile' /\ ~ profile'.verified
                  BY <2>3, <3>1, Fresh
            <3>3. Holds(Idle)'
                  BY <2>1, IdleHolds DEF Holds
            <3> QED BY <1>0, <2>1, <3>1, <3>2, <3>3, IdleHolds, Moves
      <2> QED BY <1>3, <2>2, <2>3 DEF createProfile
<1>4. ASSUME NEW p \in Requests, updateProfile(p) PROVE IInv'
      BY <1>4, Loads DEF updateProfile, Ops
<1>5. ASSUME NEW p \in Requests, findDiploma(p) PROVE IInv'
      <2>1. CASE Done(p)
            BY <1>5, <2>1, Ends DEF findDiploma
      <2>2. CASE Become(p, [req[p] EXCEPT !.pc = "save"])
            <3>1. LET x == [req[p] EXCEPT !.pc = "save"]
                  IN  x \in Request /\ Holds(x) /\ x.row.id <= lastProfile
                  BY <1>5 DEF IInv, TypeOK, Holds, Request, findDiploma, At
            <3> QED BY <1>5, <2>2, <3>1, Stays DEF findDiploma
      <2> QED BY <1>5, <2>1, <2>2 DEF findDiploma
<1>6. ASSUME NEW p \in Requests, setModeration(p) PROVE IInv'
      BY <1>6, Loads DEF setModeration, Ops
<1>7. ASSUME NEW p \in Requests, calculateCompleteness(p) PROVE IInv'
      BY <1>7, Loads DEF calculateCompleteness, Ops
<1>8. ASSUME NEW p \in Requests, applyThresholds(p) PROVE IInv'
      BY <1>8, Loads DEF applyThresholds, Ops
<1>9. ASSUME NEW p \in Requests, profileGone(p) PROVE IInv'
      BY <1>9, Ends DEF profileGone
<1>10. ASSUME NEW p \in Requests, save(p) PROVE IInv'
      BY <1>10, SaveStep
<1>11. ASSUME NEW p \in Requests, approve(p) PROVE IInv'
      <2>1. profile.id \in 1..lastProfile /\ profile.id \in 0..MaxProfiles
            BY <1>0, <1>11, ProfileAssumption DEF approve, ProfileRow
      <2>2. PICK x : x = [pc |-> "mark", op |-> "none", row |-> Profile(profile.id)]
            OBVIOUS
      <2>3. x.pc = "mark" /\ x.row \in ProfileRow /\ x.row.id = profile.id /\ ~ x.row.verified /\ x \in Request
            BY <2>1, <2>2, Fresh DEF Request
      <2>4. granted' = granted \cup {profile.id} /\ UNCHANGED <<profile, lastProfile>> /\ Become(p, x)
            BY <1>11, <2>2 DEF approve
      <2>5. x.row.id \in granted' /\ x.row.id # 0
            BY <1>0, <2>1, <2>3, <2>4
      <2>6. Holds(x)'
            BY <2>3, <2>5 DEF Holds
      <2>7. granted' \subseteq 1..lastProfile' /\ granted \subseteq granted' /\ (profile'.verified => profile'.id \in granted')
            BY <1>0, <2>1, <2>4 DEF IInv, BadgeEarned
      <2>8. /\ profile' \in ProfileRow /\ profile'.id <= lastProfile' /\ x.row.id <= lastProfile'
            /\ lastProfile' \in 0..MaxProfiles /\ lastProfile <= lastProfile'
            BY <1>0, <2>3, <2>4
      <2> QED BY <2>3, <2>4, <2>6, <2>7, <2>8, Moves
<1>12. ASSUME NEW p \in Requests, mark(p) PROVE IInv'
      BY <1>12, MarkStep
<1>13. ASSUME NEW p \in Requests, deleteData(p) PROVE IInv'
      BY <1>13, Loads DEF deleteData
<1>14. ASSUME NEW p \in Requests, removeProfile(p) PROVE IInv'
      <2>1. Become(p, Idle) /\ UNCHANGED <<lastProfile, granted>> /\ profile' \in {profile, NoProfile}
            BY <1>14 DEF removeProfile, Done
      <2>2. Holds(Idle)'
            BY <2>1, IdleHolds DEF Holds
      <2>3. profile' \in ProfileRow /\ profile'.id <= lastProfile /\ (profile'.verified => profile'.id \in granted)
            BY <1>0, <2>1 DEF IInv, BadgeEarned
      <2> QED BY <1>0, <2>1, <2>2, <2>3, IdleHolds, Moves
<1>15. ASSUME NEW p \in Requests, Crash(p) PROVE IInv'
      BY <1>15, Ends DEF Crash
<1> QED BY <1>1, <1>2, <1>3, <1>4, <1>5, <1>6, <1>7, <1>8, <1>9, <1>10, <1>11, <1>12, <1>13, <1>14, <1>15 DEF Next

\* The strengthened invariant: every row in flight is one whose badge was earned.
THEOREM Invariance == Spec => []IInv
<1> QED BY Initially, IInvStep, PTL DEF Spec

\* Every variable keeps its type (candidate_profiles and the requests that write it).
THEOREM Typed == Spec => []TypeOK
<1>1. IInv => TypeOK
      BY DEF IInv
<1> QED BY <1>1, Invariance, PTL

\* schoolVerified is worn only by a profile whose own school was verified, whatever rows
\* are saved late and however often the data is erased and the profile created again.
THEOREM BadgesEarned == Spec => []BadgeEarned
<1>1. IInv => BadgeEarned
      BY DEF IInv
<1> QED BY <1>1, Invariance, PTL

\* What a step does to the profile: nothing, or the save of a request's row, or the new
\* row of a created profile, or the badge, or the removal.
LEMMA Writes ==
    ASSUME IInv, [Next]_vars
    PROVE  \/ UNCHANGED profile
           \/ \E p \in Requests : Saves(p) /\ profile' \in written(req[p].op, req[p].row)
           \/ profile.id = 0 /\ profile' = Profile(lastProfile + 1)
           \/ profile.id # 0 /\ profile' = [profile EXCEPT !.verified = TRUE]
           \/ profile.id # 0 /\ profile' = NoProfile
<1>1. CASE UNCHANGED vars
      BY <1>1 DEF vars
<1>2. ASSUME NEW p \in Requests, createProfile(p)
      PROVE  UNCHANGED profile \/ (profile.id = 0 /\ profile' = Profile(lastProfile + 1))
      BY <1>2 DEF createProfile
<1>3. ASSUME NEW p \in Requests, save(p)
      PROVE  UNCHANGED profile \/ (Saves(p) /\ profile' \in written(req[p].op, req[p].row))
      <2>1. PICK x \in {Idle, [Idle EXCEPT !.pc = "recalculate"], [Idle EXCEPT !.pc = "reindex"]} : Become(p, x)
            BY <1>3 DEF save, Followed, Done
      <2>2. req'[p] = x /\ x.pc # "save"
            BY <2>1 DEF Become, Idle, IInv, TypeOK
      <2> QED BY <1>3, <2>2 DEF save, Saves
<1>4. ASSUME NEW p \in Requests, mark(p)
      PROVE  UNCHANGED profile \/ (profile.id # 0 /\ profile' = [profile EXCEPT !.verified = TRUE])
      BY <1>4 DEF mark, At, IInv, Holds
<1>5. ASSUME NEW p \in Requests, removeProfile(p)
      PROVE  UNCHANGED profile \/ (profile.id # 0 /\ profile' = NoProfile)
      BY <1>5 DEF removeProfile, At, IInv, Holds
<1>6. ASSUME NEW p \in Requests,
             \/ findOrCreateProfile(p) \/ updateProfile(p) \/ findDiploma(p) \/ setModeration(p)
             \/ calculateCompleteness(p) \/ applyThresholds(p) \/ profileGone(p) \/ approve(p)
             \/ deleteData(p) \/ Crash(p)
      PROVE  UNCHANGED profile
      BY <1>6 DEF findOrCreateProfile, updateProfile, findDiploma, setModeration, calculateCompleteness,
                  applyThresholds, profileGone, approve, deleteData, Crash, Load
<1> QED BY <1>1, <1>2, <1>3, <1>4, <1>5, <1>6 DEF Next

\* One step, for each of the three action properties.
LEMMA SuspensionStep ==
    ASSUME IInv, [Next]_vars, profile.suspended, profile'.id = profile.id, ~ profile'.suspended
    PROVE  \E p \in Requests : Saves(p) /\ (req[p].op = "reinstate" \/ ~ req[p].row.suspended)
<1>1. profile' # profile
      OBVIOUS
<1>2. ASSUME NEW p \in Requests, Saves(p), profile' \in written(req[p].op, req[p].row)
      PROVE  req[p].op = "reinstate" \/ ~ req[p].row.suspended
      <2>1. req[p].op \in Ops /\ req[p].row \in ProfileRow
            BY <1>2 DEF Saves, At, IInv, Holds, TypeOK, Request
      <2> QED BY <1>2, <2>1, Written
<1>3. profile' # [profile EXCEPT !.verified = TRUE]
      BY DEF IInv, TypeOK, ProfileRow
<1>4. CASE profile.id = 0 /\ profile' = Profile(lastProfile + 1)
      <2>1. profile'.id = lastProfile + 1 /\ lastProfile \in Nat
            BY <1>4, ProfileAssumption DEF Profile, IInv, TypeOK
      <2> QED BY <1>4, <2>1
<1>5. CASE profile.id # 0 /\ profile' = NoProfile
      BY <1>5 DEF NoProfile, Profile
<1> QED BY <1>1, <1>2, <1>3, <1>4, <1>5, Writes

LEMMA BadgeStep ==
    ASSUME IInv, [Next]_vars, profile.verified, profile'.id = profile.id, ~ profile'.verified
    PROVE  \E p \in Requests : Saves(p) /\ ~ req[p].row.verified
<1>1. profile' # profile
      OBVIOUS
<1>2. ASSUME NEW p \in Requests, Saves(p), profile' \in written(req[p].op, req[p].row)
      PROVE  ~ req[p].row.verified
      <2>1. req[p].op \in Ops /\ req[p].row \in ProfileRow
            BY <1>2 DEF Saves, At, IInv, Holds, TypeOK, Request
      <2> QED BY <1>2, <2>1, Written
<1>3. profile' # [profile EXCEPT !.verified = TRUE]
      BY DEF IInv, TypeOK, ProfileRow
<1>4. CASE profile.id = 0 /\ profile' = Profile(lastProfile + 1)
      <2>1. profile'.id = lastProfile + 1 /\ lastProfile \in Nat
            BY <1>4, ProfileAssumption DEF Profile, IInv, TypeOK
      <2> QED BY <1>4, <2>1
<1>5. CASE profile.id # 0 /\ profile' = NoProfile
      BY <1>5 DEF NoProfile, Profile
<1> QED BY <1>1, <1>2, <1>3, <1>4, <1>5, Writes

LEMMA ErasureStep ==
    ASSUME IInv, [Next]_vars, profile.id = 0, profile'.id # 0
    PROVE  \/ profile' = Profile(lastProfile + 1)
           \/ \E p \in Requests : Saves(p) /\ req[p].row.id = profile'.id
<1>1. profile' # profile
      OBVIOUS
<1>2. ASSUME NEW p \in Requests, Saves(p), profile' \in written(req[p].op, req[p].row)
      PROVE  req[p].row.id = profile'.id
      <2>1. req[p].op \in Ops /\ req[p].row \in ProfileRow
            BY <1>2 DEF Saves, At, IInv, Holds, TypeOK, Request
      <2> QED BY <1>2, <2>1, Written
<1> QED BY <1>1, <1>2, Writes

\* A suspended profile is reinstated only by a moderator, or by a request that had loaded
\* it before setModeration's save.
THEOREM SuspensionsHold == Spec => SuspensionHolds
<1>1. IInv /\ [Next]_vars =>
        [profile.suspended /\ profile'.id = profile.id /\ ~ profile'.suspended
           => \E p \in Requests : Saves(p) /\ (req[p].op = "reinstate" \/ ~ req[p].row.suspended)]_vars
      BY SuspensionStep
<1> QED BY <1>1, Invariance, PTL DEF Spec, SuspensionHolds

\* The badge written by an approval is lost only to a request that had loaded the profile
\* before it.
THEOREM BadgesKept == Spec => BadgeKept
<1>1. IInv /\ [Next]_vars =>
        [profile.verified /\ profile'.id = profile.id /\ ~ profile'.verified
           => \E p \in Requests : Saves(p) /\ ~ req[p].row.verified]_vars
      BY BadgeStep
<1> QED BY <1>1, Invariance, PTL DEF Spec, BadgeKept

\* deleteData's removal is undone only by a request that had loaded the profile before;
\* otherwise the user starts again with an empty profile.
THEOREM ErasuresStay == Spec => ErasedStays
<1>1. IInv /\ [Next]_vars =>
        [profile.id = 0 /\ profile'.id # 0
           => \/ profile' = Profile(lastProfile + 1)
              \/ \E p \in Requests : Saves(p) /\ req[p].row.id = profile'.id]_vars
      BY ErasureStep
<1> QED BY <1>1, Invariance, PTL DEF Spec, ErasedStays

---------------------------------------------------------------------------------
(* Alerts.  Until an edit rewinds the watermark it only advances, and a sweep's     *)
(* claim finds the watermark that it has read.  So of two sweeps that count one     *)
(* update, the second has read its watermark after the first's claim and starts     *)
(* after the update: its own claim takes the watermark past it.  And what a claim   *)
(* passes is what its sweep has counted, or was committed after the count.          *)

Busy(x)    == x.pc \in {"start", "count", "claim"}
Started(x) == x.pc \in {"count", "claim"}

\* What a sweep has read lies in this order, whatever it will be told at its claim.
SweepOK(x) ==
    /\ Started(x) => x.since < x.start /\ x.start <= now
    /\ \A m \in Profiles, t \in Instants :
         <<m, t>> \in x.matches => t <= now /\ (x.pc = "claim" => x.since < t)

SweepRow == [pc : {"idle", "start", "count", "claim", "notify"}, since : 0..MaxTime,
             start : 0..MaxTime, matches : SUBSET (Profiles \X Instants)]

SearchRow == [saved : BOOLEAN, alert : BOOLEAN, last : 0..MaxTime]

\* An edit switches alerts on with a watermark or not at all.
EditOK(x) == x.pc = "save" /\ x.row.alert => x.row.last > 0

StampsOK == \A m \in Profiles : updating[m] <= now /\ updated[m] <= now

LocalOK ==
    /\ Anchored /\ StampsOK
    /\ \A s \in Sweeps : SweepOK(sweep[s])
    /\ \A o \in Owners : EditOK(edit[o])

LEMMA AlertTypes ==
    /\ NoSearch \in SearchRow /\ Asleep \in SweepRow
    /\ NoEdit \in [pc : {"idle", "save"}, row : SearchRow]
    /\ NoClaims \in [0..MaxTime -> Nat] /\ NothingTold \in [Profiles -> [Instants -> Nat]]
BY AlertAssumption DEF NoSearch, SearchRow, Asleep, SweepRow, NoEdit, NoClaims, NothingTold, Instants

LEMMA AlertTypeInit == AlertInit => AlertTypeOK
<1> SUFFICES ASSUME AlertInit PROVE AlertTypeOK
    OBVIOUS
<1>1. 0 \in 0..MaxTime /\ 1 \in Instants
      BY AlertAssumption DEF Instants
<1>2. /\ search \in SearchRow /\ sweep \in [Sweeps -> SweepRow]
      /\ edit \in [Owners -> [pc : {"idle", "save"}, row : SearchRow]]
      BY AlertTypes DEF AlertInit
<1>3. /\ updating \in [Profiles -> 0..MaxTime] /\ updated \in [Profiles -> 0..MaxTime]
      /\ optIn \in 0..MaxTime /\ rewound \in BOOLEAN /\ now \in Instants
      /\ missed \subseteq Profiles \X Instants
      BY <1>1 DEF AlertInit
<1>4. claims \in [0..MaxTime -> Nat] /\ told \in [Profiles -> [Instants -> Nat]]
      BY AlertTypes DEF AlertInit
<1> QED BY <1>2, <1>3, <1>4 DEF AlertTypeOK, SearchRow, SweepRow

LEMMA AlertTypeStep == AlertTypeOK /\ [AlertNext]_alertVars => AlertTypeOK'
<1> SUFFICES ASSUME AlertTypeOK, [AlertNext]_alertVars PROVE AlertTypeOK'
    OBVIOUS
<1>0. /\ MaxTime \in Nat /\ now \in Nat /\ now \in 1..MaxTime /\ Instants = 1..MaxTime
      /\ now \in 0..MaxTime /\ 0 \in 0..MaxTime
      BY AlertAssumption DEF AlertTypeOK, Instants
<1>t. /\ search \in SearchRow /\ sweep \in [Sweeps -> SweepRow]
      /\ edit \in [Owners -> [pc : {"idle", "save"}, row : SearchRow]]
      BY DEF AlertTypeOK, SearchRow, SweepRow
<1>u. /\ search' \in SearchRow /\ sweep' \in [Sweeps -> SweepRow]
      /\ edit' \in [Owners -> [pc : {"idle", "save"}, row : SearchRow]]
      /\ now' \in Instants
      /\ updating' \in [Profiles -> 0..MaxTime] /\ updated' \in [Profiles -> 0..MaxTime]
      /\ optIn' \in 0..MaxTime /\ rewound' \in BOOLEAN
      /\ claims' \in [0..MaxTime -> Nat]
      /\ told' \in [Profiles -> [Instants -> Nat]]
      /\ missed' \subseteq Profiles \X Instants
      => AlertTypeOK'
      BY DEF AlertTypeOK, SearchRow, SweepRow
<1> USE DEF historyVars, profileVars
<1>1. CASE Tick
      <2>1. now' \in Instants
            BY <1>0, <1>1 DEF Tick
      <2>2. UNCHANGED <<search, profileVars, sweep, edit, historyVars>>
            BY <1>1 DEF Tick
      <2>3. /\ updating' \in [Profiles -> 0..MaxTime] /\ updated' \in [Profiles -> 0..MaxTime]
            /\ optIn' \in 0..MaxTime /\ rewound' \in BOOLEAN
            BY <2>2 DEF AlertTypeOK
      <2>4. /\ claims' \in [0..MaxTime -> Nat] /\ told' \in [Profiles -> [Instants -> Nat]]
            /\ missed' \subseteq Profiles \X Instants
            BY <2>2 DEF AlertTypeOK
      <2>5. /\ search' \in SearchRow /\ sweep' \in [Sweeps -> SweepRow]
            /\ edit' \in [Owners -> [pc : {"idle", "save"}, row : SearchRow]]
            BY <1>t, <2>2
      <2> QED BY <1>u, <2>1, <2>3, <2>4, <2>5
<1>2. CASE create
      <2>1. PICK alert \in BOOLEAN : search' = [saved |-> TRUE, alert |-> alert, last |-> IF alert THEN now ELSE 0]
            BY <1>2 DEF create
      <2>2. search' \in SearchRow
            BY <1>0, <2>1 DEF SearchRow
      <2> QED BY <1>0, <1>t, <1>2, <2>2, <1>u DEF AlertTypeOK, create
<1>3. CASE remove
      BY <1>0, <1>t, <1>3, <1>u DEF AlertTypeOK, remove, SearchRow
<1>4. ASSUME NEW m \in Profiles, update(m) PROVE AlertTypeOK'
      <2>1. updating' \in [Profiles -> 0..MaxTime]
            BY <1>0, <1>4 DEF AlertTypeOK, update
      <2> QED BY <1>t, <1>4, <2>1, <1>u DEF AlertTypeOK, update
<1>5. ASSUME NEW m \in Profiles, commit(m) PROVE AlertTypeOK'
      <2>1. updating[m] \in Instants
            BY <1>0, <1>5 DEF AlertTypeOK, commit
      <2>2. missed' \subseteq Profiles \X Instants
            BY <1>5, <2>1 DEF AlertTypeOK, commit
      <2>3. updating' \in [Profiles -> 0..MaxTime] /\ updated' \in [Profiles -> 0..MaxTime]
            BY <1>0, <1>5 DEF AlertTypeOK, commit
      <2> QED BY <1>t, <1>5, <2>2, <2>3, <1>u DEF AlertTypeOK, commit
<1>6. ASSUME NEW o \in Owners, findOwned(o) PROVE AlertTypeOK'
      <2>1. PICK alert \in BOOLEAN : edit' = [edit EXCEPT ![o] = [pc |-> "save", row |-> Edited(search, alert)]]
            BY <1>6 DEF findOwned
      <2>2. Edited(search, alert) \in SearchRow
            <3>1. search.saved \in BOOLEAN /\ search.alert \in BOOLEAN /\ search.last \in 0..MaxTime
                  BY <1>t DEF SearchRow
            <3>2. [search EXCEPT !.alert = alert, !.last = now] \in SearchRow
                  BY <1>0, <1>t DEF SearchRow
            <3>3. [search EXCEPT !.alert = alert, !.last = search.last] \in SearchRow
                  BY <1>t, <3>1 DEF SearchRow
            <3> QED BY <3>2, <3>3 DEF Edited
      <2>3. edit' \in [Owners -> [pc : {"idle", "save"}, row : SearchRow]]
            BY <1>t, <2>1, <2>2
      <2> QED BY <1>0, <1>t, <1>6, <2>3, <1>u DEF AlertTypeOK, findOwned
<1>7. ASSUME NEW o \in Owners, saveEdit(o) PROVE AlertTypeOK'
      <2>1. edit[o].row \in SearchRow
            BY <1>t
      <2>2. edit[o].row.last \in 0..MaxTime
            BY <2>1 DEF SearchRow
      <2>3. edit' \in [Owners -> [pc : {"idle", "save"}, row : SearchRow]]
            BY <1>t, <1>7, AlertTypes DEF saveEdit
      <2>4. /\ claims' \in [0..MaxTime -> Nat] /\ told' \in [Profiles -> [Instants -> Nat]]
            /\ missed' \subseteq Profiles \X Instants /\ rewound' \in BOOLEAN
            BY <1>7, AlertTypes DEF saveEdit, AlertTypeOK
      <2> QED BY <1>0, <1>t, <1>7, <2>1, <2>2, <2>3, <2>4, <1>u DEF AlertTypeOK, saveEdit
<1>8. ASSUME NEW s \in Sweeps,
             find(s) \/ takeStart(s) \/ countNewMatches(s) \/ claimAdvance(s) \/ notify(s) \/ fail(s)
      PROVE  AlertTypeOK'
      <2> DEFINE x == sweep[s]
      <2>0. x \in SweepRow /\ Asleep \in SweepRow
            BY <1>t, AlertTypes
      <2>1. CASE find(s)
            <3>1. [Asleep EXCEPT !.pc = "start", !.since = search.last] \in SweepRow
                  BY <2>0, <1>t DEF SweepRow, SearchRow
            <3> QED BY <1>0, <1>t, <2>1, <3>1, <1>u DEF AlertTypeOK, find
      <2>2. CASE takeStart(s)
            <3>1. [x EXCEPT !.pc = "count", !.start = now] \in SweepRow
                  BY <2>0, <1>0 DEF SweepRow
            <3> QED BY <1>0, <1>t, <2>0, <2>2, <3>1, <1>u DEF AlertTypeOK, takeStart
      <2>3. CASE countNewMatches(s)
            <3> DEFINE matches == {<<m, updated[m]>> : m \in {n \in Profiles : updated[n] > sweep[s].since}}
            <3>1. matches \subseteq Profiles \X Instants
                  BY <1>0, <2>0 DEF SweepRow, AlertTypeOK
            <3>4. [x EXCEPT !.pc = "claim", !.matches = matches] \in SweepRow
                  BY <2>0, <3>1 DEF SweepRow
            <3>2. sweep' = [sweep EXCEPT ![s] = IF matches = {} THEN Asleep ELSE [x EXCEPT !.pc = "claim", !.matches = matches]]
                  BY <2>3 DEF countNewMatches
            <3> HIDE DEF matches
            <3>3. sweep' \in [Sweeps -> SweepRow]
                  BY <1>t, <2>0, <3>4, <3>2
            <3> QED BY <1>0, <1>t, <2>3, <3>3, <1>u DEF AlertTypeOK, countNewMatches
      <2>4. CASE claimAdvance(s)
            <3>1. [Asleep EXCEPT !.pc = "notify", !.matches = x.matches] \in SweepRow
                  BY <2>0 DEF SweepRow
            <3>2. sweep' \in [Sweeps -> SweepRow]
                  BY <1>t, <2>0, <2>4, <3>1 DEF claimAdvance
            <3>3. x.start \in 0..MaxTime /\ x.since \in 0..MaxTime
                  BY <2>0 DEF SweepRow
            <3>4. search' \in SearchRow
                  BY <1>t, <2>4, <3>3 DEF claimAdvance, SearchRow
            <3>5. claims' \in [0..MaxTime -> Nat]
                  <4>1. claims \in [0..MaxTime -> Nat] /\ claims[x.since] + 1 \in Nat
                        BY <3>3 DEF AlertTypeOK
                  <4>2. claims' = claims \/ claims' = [claims EXCEPT ![x.since] = claims[x.since] + 1]
                        BY <2>4 DEF claimAdvance
                  <4> QED BY <4>1, <4>2
            <3> QED BY <1>0, <1>t, <2>4, <3>2, <3>4, <3>5, <1>u DEF AlertTypeOK, claimAdvance
      <2>5. CASE notify(s)
            <3>1. told' \in [Profiles -> [Instants -> Nat]]
                  <4>1. told \in [Profiles -> [Instants -> Nat]]
                        BY DEF AlertTypeOK
                  <4>2. \A m \in Profiles : \A u \in Instants : told[m][u] + 1 \in Nat
                        BY <4>1
                  <4> QED BY <2>5, <4>1, <4>2 DEF notify
            <3>2. sweep' \in [Sweeps -> SweepRow]
                  BY <1>t, <2>0, <2>5 DEF notify
            <3> QED BY <1>0, <1>t, <2>5, <3>1, <3>2, <1>u DEF AlertTypeOK, notify
      <2>6. CASE fail(s)
            <3>1. x.matches \subseteq Profiles \X Instants
                  BY <2>0 DEF SweepRow
            <3>2. missed' \subseteq Profiles \X Instants
                  BY <2>6, <3>1 DEF fail, AlertTypeOK
            <3>3. sweep' \in [Sweeps -> SweepRow]
                  BY <1>t, <2>0, <2>6 DEF fail
            <3> QED BY <1>0, <1>t, <2>6, <3>2, <3>3, <1>u DEF AlertTypeOK, fail
      <2> QED BY <1>8, <2>1, <2>2, <2>3, <2>4, <2>5, <2>6
<1>9. CASE UNCHANGED alertVars
      BY <1>9 DEF AlertTypeOK, alertVars
<1> QED BY <1>1, <1>2, <1>3, <1>4, <1>5, <1>6, <1>7, <1>8, <1>9 DEF AlertNext

LEMMA AlertLocalInit == AlertInit => LocalOK
BY AlertAssumption DEF AlertInit, LocalOK, Anchored, StampsOK, SweepOK, Started, EditOK, NoSearch,
                       Asleep, NoEdit

\* A sweep that falls asleep has nothing to answer for.
LEMMA AsleepOK == SweepOK(Asleep)
BY DEF SweepOK, Asleep, Started

LEMMA AlertLocalStep == AlertTypeOK /\ LocalOK /\ [AlertNext]_alertVars => LocalOK'
<1> SUFFICES ASSUME AlertTypeOK, LocalOK, [AlertNext]_alertVars PROVE LocalOK'
    OBVIOUS
<1>0. /\ now \in Nat /\ now > 0 /\ now' \in Nat /\ now <= now' /\ Instants \subseteq Nat
      /\ search.last \in Nat
      <2>1. AlertTypeOK'
            BY AlertTypeStep
      <2>2. now' = now \/ now' = now + 1
            <3>1. Tick => now' = now + 1
                  BY DEF Tick
            <3>2. create \/ remove \/ UNCHANGED alertVars => now' = now
                  BY DEF create, remove, alertVars
            <3>3. \A m \in Profiles : update(m) \/ commit(m) => now' = now
                  BY DEF update, commit
            <3>4. \A o \in Owners : findOwned(o) \/ saveEdit(o) => now' = now
                  BY DEF findOwned, saveEdit
            <3>5. \A s \in Sweeps : find(s) \/ takeStart(s) \/ countNewMatches(s) \/ claimAdvance(s)
                                      \/ notify(s) \/ fail(s) => now' = now
                  <4>1. TAKE s \in Sweeps
                  <4>2. find(s) \/ takeStart(s) \/ countNewMatches(s) => now' = now
                        BY DEF find, takeStart, countNewMatches
                  <4>3. claimAdvance(s) \/ notify(s) \/ fail(s) => now' = now
                        BY DEF claimAdvance, notify, fail
                  <4> QED BY <4>2, <4>3
            <3> QED BY <3>1, <3>2, <3>3, <3>4, <3>5 DEF AlertNext
      <2> QED BY <2>1, <2>2, AlertAssumption DEF AlertTypeOK, Instants
<1>t. /\ \A s \in Sweeps : sweep[s] \in SweepRow
      /\ \A m \in Profiles : updating[m] \in Nat /\ updated[m] \in Nat
      /\ updating \in [Profiles -> 0..MaxTime] /\ updated \in [Profiles -> 0..MaxTime]
      BY AlertAssumption DEF AlertTypeOK, SweepRow
<1>s. ASSUME UNCHANGED sweep PROVE \A s \in Sweeps : SweepOK(sweep[s])'
      <2>1. TAKE s \in Sweeps
      <2>2. SweepOK(sweep[s]) /\ sweep'[s] = sweep[s] /\ sweep[s].start \in Nat
            BY <1>s, <1>t, AlertAssumption DEF LocalOK, SweepRow
      <2>3. Started(sweep[s])' => (sweep[s].since < sweep[s].start /\ sweep[s].start <= now)'
            BY <1>0, <2>2 DEF SweepOK, Started
      <2>4. \A m \in Profiles, t \in Instants : <<m, t>> \in sweep'[s].matches => t <= now'
            <3>1. TAKE m \in Profiles, t \in Instants
            <3>2. <<m, t>> \in sweep[s].matches => t <= now
                  BY <2>2 DEF SweepOK
            <3> QED BY <1>0, <2>2, <3>2
      <2>5. \A m \in Profiles, t \in Instants :
               <<m, t>> \in sweep'[s].matches => (sweep'[s].pc = "claim" => sweep'[s].since < t)
            BY <2>2 DEF SweepOK
      <2> QED BY <2>3, <2>4, <2>5 DEF SweepOK, Started
<1>e. UNCHANGED edit => \A o \in Owners : EditOK(edit[o])'
      BY DEF LocalOK, EditOK
<1>a. UNCHANGED search => Anchored'
      BY DEF LocalOK, Anchored
<1>p. UNCHANGED <<updating, updated>> => StampsOK'
      BY <1>0, <1>t DEF LocalOK, StampsOK
<1> USE DEF historyVars, profileVars
<1>1. CASE Tick
      BY <1>1, <1>s, <1>e, <1>a, <1>p DEF LocalOK, Tick
<1>2. CASE create
      <2>1. Anchored'
            BY <1>0, <1>2 DEF create, Anchored
      <2> QED BY <1>2, <1>s, <1>e, <1>p, <2>1 DEF LocalOK, create
<1>3. CASE remove
      <2>1. Anchored'
            <3>1. search' = [search EXCEPT !.saved = FALSE, !.alert = FALSE] /\ search \in SearchRow
                  BY <1>3 DEF remove, AlertTypeOK, SearchRow
            <3>2. search'.alert = FALSE
                  BY <3>1 DEF SearchRow
            <3> QED BY <3>2 DEF Anchored
      <2> QED BY <1>3, <1>s, <1>e, <1>p, <2>1 DEF LocalOK, remove
<1>4. ASSUME NEW m \in Profiles, update(m) PROVE LocalOK'
      <2>1. StampsOK'
            BY <1>0, <1>t, <1>4 DEF LocalOK, StampsOK, update
      <2> QED BY <1>4, <1>s, <1>e, <1>a, <2>1 DEF LocalOK, update
<1>5. ASSUME NEW m \in Profiles, commit(m) PROVE LocalOK'
      <2>1. StampsOK'
            BY <1>0, <1>t, <1>5 DEF LocalOK, StampsOK, commit
      <2> QED BY <1>5, <1>s, <1>e, <1>a, <2>1 DEF LocalOK, commit
<1>6. ASSUME NEW o \in Owners, findOwned(o) PROVE LocalOK'
      <2>1. PICK alert \in BOOLEAN : edit' = [edit EXCEPT ![o] = [pc |-> "save", row |-> Edited(search, alert)]]
            BY <1>6 DEF findOwned
      <2>2. /\ search.alert \in BOOLEAN /\ search \in SearchRow
            /\ edit \in [Owners -> [pc : {"idle", "save"}, row : SearchRow]]
            BY DEF AlertTypeOK, SearchRow
      <2>3. alert => Edited(search, alert).last > 0
            BY <1>0, <2>2 DEF LocalOK, Anchored, Edited, SearchRow
      <2>4. Edited(search, alert).alert = alert
            BY <2>2 DEF Edited, SearchRow
      <2>5. \A q \in Owners : EditOK(edit[q])'
            <3>1. TAKE q \in Owners
            <3>2. CASE q = o
                  BY <2>1, <2>2, <2>3, <2>4, <3>2 DEF EditOK
            <3>3. CASE q # o
                  BY <2>1, <2>2, <3>3 DEF EditOK, LocalOK
            <3> QED BY <3>2, <3>3
      <2> QED BY <1>6, <1>s, <1>a, <1>p, <2>5 DEF LocalOK, findOwned
<1>7. ASSUME NEW o \in Owners, saveEdit(o) PROVE LocalOK'
      <2>1. Anchored'
            BY <1>7 DEF LocalOK, EditOK, saveEdit, Anchored
      <2>2. \A q \in Owners : EditOK(edit[q])'
            <3>1. edit \in [Owners -> [pc : {"idle", "save"}, row : SearchRow]]
                  BY DEF AlertTypeOK, SearchRow
            <3>2. edit' = [edit EXCEPT ![o] = NoEdit]
                  BY <1>7 DEF saveEdit
            <3> QED BY <3>1, <3>2 DEF EditOK, LocalOK, NoEdit
      <2> QED BY <1>7, <1>s, <1>p, <2>1, <2>2 DEF LocalOK, saveEdit
<1>8. ASSUME NEW s \in Sweeps,
             find(s) \/ takeStart(s) \/ countNewMatches(s) \/ claimAdvance(s) \/ notify(s) \/ fail(s)
      PROVE  LocalOK'
      <2> DEFINE x == sweep[s]
      <2>0. x \in SweepRow /\ SweepOK(x) /\ x.start \in Nat /\ x.since \in Nat
            BY <1>t, AlertAssumption DEF LocalOK, SweepRow
      <2>u. UNCHANGED <<now, edit, updating, updated>>
            BY <1>8 DEF find, takeStart, countNewMatches, claimAdvance, notify, fail
      <2>m. ASSUME NEW y, sweep' = [sweep EXCEPT ![s] = y], SweepOK(y)
            PROVE  \A r \in Sweeps : SweepOK(sweep[r])'
            <3>1. TAKE r \in Sweeps
            <3>2. sweep \in [Sweeps -> SweepRow] /\ now' = now
                  BY <2>u DEF AlertTypeOK, SweepRow
            <3>3. sweep'[r] = IF r = s THEN y ELSE sweep[r]
                  BY <2>m, <3>2
            <3>4. SweepOK(sweep'[r])
                  BY <2>m, <3>3 DEF LocalOK
            <3> QED BY <3>2, <3>4 DEF SweepOK
      <2>1. CASE find(s)
            <3>1. SweepOK([Asleep EXCEPT !.pc = "start", !.since = search.last])
                  BY DEF SweepOK, Asleep, Started
            <3>2. \A r \in Sweeps : SweepOK(sweep[r])'
                  BY <2>1, <2>m, <3>1 DEF find
            <3> QED BY <2>1, <2>u, <1>e, <1>a, <1>p, <3>2 DEF LocalOK, find
      <2>2. CASE takeStart(s)
            <3>1. x.pc = "start" /\ now > x.since => SweepOK([x EXCEPT !.pc = "count", !.start = now])
                  BY <1>0, <2>0 DEF SweepOK, SweepRow, Started
            <3>2. \A r \in Sweeps : SweepOK(sweep[r])'
                  BY <2>2, <2>m, <3>1, AsleepOK DEF takeStart
            <3> QED BY <2>2, <2>u, <1>e, <1>a, <1>p, <3>2 DEF LocalOK, takeStart
      <2>3. CASE countNewMatches(s)
            <3> DEFINE matches == {<<m, updated[m]>> : m \in {n \in Profiles : updated[n] > sweep[s].since}}
            <3>1. \A m \in Profiles, t \in Instants : <<m, t>> \in matches => t <= now /\ x.since < t
                  BY <1>0, <1>t, <2>0 DEF LocalOK, StampsOK
            <3>2. sweep' = [sweep EXCEPT ![s] = IF matches = {} THEN Asleep ELSE [x EXCEPT !.pc = "claim", !.matches = matches]]
                  BY <2>3 DEF countNewMatches
            <3>3. x.pc = "count"
                  BY <2>3 DEF countNewMatches
            <3> HIDE DEF matches
            <3>4. SweepOK([x EXCEPT !.pc = "claim", !.matches = matches])
                  BY <2>0, <3>1, <3>3 DEF SweepOK, SweepRow, Started
            <3>5. \A r \in Sweeps : SweepOK(sweep[r])'
                  BY <2>m, <3>2, <3>4, AsleepOK
            <3> QED BY <2>3, <2>u, <1>e, <1>a, <1>p, <3>5 DEF LocalOK, countNewMatches
      <2>4. CASE claimAdvance(s)
            <3>1. SweepOK([Asleep EXCEPT !.pc = "notify", !.matches = x.matches])
                  BY <2>0 DEF SweepOK, SweepRow, Started, Asleep
            <3>2. \A r \in Sweeps : SweepOK(sweep[r])'
                  BY <2>4, <2>m, <3>1, AsleepOK DEF claimAdvance
            <3>3. x.start > 0
                  BY <2>0, <2>4 DEF SweepOK, Started, claimAdvance
            <3>4. search \in SearchRow
                  BY DEF AlertTypeOK, SearchRow
            <3>5. Anchored'
                  BY <2>4, <3>3, <3>4 DEF claimAdvance, Anchored, LocalOK, SearchRow
            <3> QED BY <2>4, <2>u, <1>e, <1>p, <3>2, <3>5 DEF LocalOK, claimAdvance
      <2>5. CASE notify(s) \/ fail(s)
            <3>1. sweep' = [sweep EXCEPT ![s] = Asleep] /\ search' = search
                  BY <2>5 DEF notify, fail
            <3>2. \A r \in Sweeps : SweepOK(sweep[r])'
                  BY <2>m, <3>1, AsleepOK
            <3> QED BY <2>u, <1>e, <1>a, <1>p, <3>1, <3>2 DEF LocalOK
      <2> QED BY <1>8, <2>1, <2>2, <2>3, <2>4, <2>5
<1>9. CASE UNCHANGED alertVars
      BY <1>9, <1>s, <1>e, <1>a, <1>p DEF LocalOK, alertVars
<1> QED BY <1>1, <1>2, <1>3, <1>4, <1>5, <1>6, <1>7, <1>8, <1>9 DEF AlertNext

\* Until an edit rewinds it, the watermark only advances: a sweep in flight has read the
\* present one or an older one.
Behind == \A s \in Sweeps : Busy(sweep[s]) => sweep[s].since <= search.last

\* A sweep that is about to claim has counted every match that its claim will pass.
Complete(x) ==
    x.pc = "claim" =>
        \A m \in Profiles :
            x.since < updated[m] /\ updated[m] <= x.start => <<m, updated[m]>> \in x.matches \cup missed

\* An update that sweep s has counted and will tell, and how often an update has been
\* told or will be by the sweeps that have claimed it.
Carries(s, m, t) == sweep[s].pc = "notify" /\ <<m, t>> \in sweep[s].matches

Once(m, t) == told[m][t] > 0 \/ \E s \in Sweeps : Carries(s, m, t)

Twice(m, t) ==
    \/ told[m][t] > 1
    \/ told[m][t] > 0 /\ \E s \in Sweeps : Carries(s, m, t)
    \/ \E s, r \in Sweeps : s # r /\ Carries(s, m, t) /\ Carries(r, m, t)

Thrice(m, t) ==
    \/ told[m][t] > 2
    \/ told[m][t] > 1 /\ \E s \in Sweeps : Carries(s, m, t)
    \/ told[m][t] > 0 /\ \E s, r \in Sweeps : s # r /\ Carries(s, m, t) /\ Carries(r, m, t)
    \/ \E s, r, q \in Sweeps : /\ s # r /\ r # q /\ s # q
                               /\ Carries(s, m, t) /\ Carries(r, m, t) /\ Carries(q, m, t)

\* A sweep that may still claim will take the watermark past t.
Passes(t) == \A s \in Sweeps : Started(sweep[s]) /\ sweep[s].since = search.last => t <= sweep[s].start

\* The first alert that counts an update comes before every sweep that may still claim
\* has started; the second takes the watermark past it; there is no third.
CountOK(m, t) ==
    /\ Once(m, t) => t <= now /\ Passes(t)
    /\ Twice(m, t) => t <= search.last
    /\ ~ Thrice(m, t)

Accounted(m) ==
    LET t == updated[m]
    IN  t = 0 \/ t > search.last \/ t <= optIn \/ Once(m, t) \/ <<m, t>> \in missed

\* A claimed watermark is past.
ClaimsOK == \A t \in 0..MaxTime : claims[t] <= 1 /\ (claims[t] > 0 => t < search.last)

Counts == (\A m \in Profiles, t \in Instants : CountOK(m, t)) /\ ClaimsOK

Unrewound ==
    /\ Behind
    /\ \A s \in Sweeps : Complete(sweep[s])
    /\ Counts
    /\ \A m \in Profiles : Accounted(m)

Histories == IF rewound THEN claims = NoClaims /\ told = NothingTold ELSE Unrewound

AlertIInv == AlertTypeOK /\ LocalOK /\ Histories

\* Three ways in which the number of alerts for an update can go: a step that tells
\* nobody and claims nothing ...
LEMMA CarriedLess ==
    ASSUME NEW m, NEW t, told'[m][t] = told[m][t],
           \A s \in Sweeps : Carries(s, m, t)' => Carries(s, m, t)
    PROVE  /\ Once(m, t)' => Once(m, t)
           /\ Twice(m, t)' => Twice(m, t)
           /\ Thrice(m, t)' => Thrice(m, t)
BY DEF Once, Twice, Thrice

\* ... an alert that a sweep has carried and now tells ...
LEMMA CarriedTold ==
    ASSUME NEW m, NEW t, NEW s \in Sweeps, Carries(s, m, t), ~ Carries(s, m, t)',
           told[m][t] \in Nat, told'[m][t] = told[m][t] + 1,
           \A r \in Sweeps : Carries(r, m, t)' => Carries(r, m, t)
    PROVE  /\ Twice(m, t)' => Twice(m, t)
           /\ Thrice(m, t)' => Thrice(m, t)
           /\ Once(m, t)'
<1>1. Once(m, t)'
      BY DEF Once
<1>2. Twice(m, t)' => Twice(m, t)
      BY DEF Twice
<1>3. Thrice(m, t)' => Thrice(m, t)
      BY DEF Thrice
<1> QED BY <1>1, <1>2, <1>3

\* ... and a sweep that claims.
LEMMA CarriedMore ==
    ASSUME NEW m, NEW t, NEW s \in Sweeps, ~ Carries(s, m, t), told'[m][t] = told[m][t],
           \A r \in Sweeps : r # s /\ Carries(r, m, t)' => Carries(r, m, t)
    PROVE  /\ Once(m, t)' => Once(m, t) \/ Carries(s, m, t)'
           /\ Twice(m, t)' => Twice(m, t) \/ (Once(m, t) /\ Carries(s, m, t)')
           /\ Thrice(m, t)' => Thrice(m, t) \/ (Twice(m, t) /\ Carries(s, m, t)')
<1>1. Once(m, t)' => Once(m, t) \/ Carries(s, m, t)'
      BY DEF Once
<1>2. Twice(m, t)' => Twice(m, t) \/ (Once(m, t) /\ Carries(s, m, t)')
      <2>1. SUFFICES ASSUME Twice(m, t)' PROVE Twice(m, t) \/ (Once(m, t) /\ Carries(s, m, t)')
            OBVIOUS
      <2>2. CASE told'[m][t] > 1
            BY <2>2 DEF Twice
      <2>3. CASE told'[m][t] > 0 /\ \E r \in Sweeps : Carries(r, m, t)'
            <3>1. PICK r \in Sweeps : Carries(r, m, t)'
                  BY <2>3
            <3> QED BY <2>3, <3>1 DEF Twice, Once
      <2>4. CASE \E q, r \in Sweeps : q # r /\ Carries(q, m, t)' /\ Carries(r, m, t)'
            <3>1. PICK q \in Sweeps, r \in Sweeps : q # r /\ Carries(q, m, t)' /\ Carries(r, m, t)'
                  BY <2>4
            <3> QED BY <3>1 DEF Twice, Once
      <2> QED BY <2>1, <2>2, <2>3, <2>4 DEF Twice
<1>3. Thrice(m, t)' => Thrice(m, t) \/ (Twice(m, t) /\ Carries(s, m, t)')
      <2>1. SUFFICES ASSUME Thrice(m, t)' PROVE Thrice(m, t) \/ (Twice(m, t) /\ Carries(s, m, t)')
            OBVIOUS
      <2>2. CASE told'[m][t] > 2
            BY <2>2 DEF Thrice
      <2>3. CASE told'[m][t] > 1 /\ \E r \in Sweeps : Carries(r, m, t)'
            <3>1. PICK r \in Sweeps : Carries(r, m, t)'
                  BY <2>3
            <3> QED BY <2>3, <3>1 DEF Thrice, Twice
      <2>4. CASE told'[m][t] > 0 /\ \E q, r \in Sweeps : q # r /\ Carries(q, m, t)' /\ Carries(r, m, t)'
            <3>1. PICK q \in Sweeps, r \in Sweeps : q # r /\ Carries(q, m, t)' /\ Carries(r, m, t)'
                  BY <2>4
            <3> QED BY <2>4, <3>1 DEF Thrice, Twice
      <2>5. CASE \E p, q, r \in Sweeps : /\ p # q /\ q # r /\ p # r
                                         /\ Carries(p, m, t)' /\ Carries(q, m, t)' /\ Carries(r, m, t)'
            <3>1. PICK p \in Sweeps, q \in Sweeps, r \in Sweeps :
                         /\ p # q /\ q # r /\ p # r
                         /\ Carries(p, m, t)' /\ Carries(q, m, t)' /\ Carries(r, m, t)'
                  BY <2>5
            <3> QED BY <3>1 DEF Thrice, Twice
      <2> QED BY <2>1, <2>2, <2>3, <2>4, <2>5 DEF Thrice
<1> QED BY <1>1, <1>2, <1>3

\* A step that tells nobody and claims nothing, and lets no sweep claim that starts too
\* early.
LEMMA QuietCounts ==
    ASSUME AlertTypeOK, AlertTypeOK', Counts, search.last <= search'.last, now <= now',
           told' = told, claims' = claims,
           \A s \in Sweeps, m \in Profiles, t \in Instants : Carries(s, m, t)' => Carries(s, m, t),
           \A s \in Sweeps : Started(sweep'[s]) /\ sweep'[s].since = search'.last =>
               \/ now <= sweep'[s].start
               \/ /\ Started(sweep[s]) /\ sweep[s].since = search.last
                  /\ sweep'[s].start = sweep[s].start
    PROVE  Counts'
<1>0. /\ now \in Nat /\ now' \in Nat /\ search.last \in Nat /\ search'.last \in Nat
      /\ \A s \in Sweeps : sweep'[s].start \in Nat
      /\ \A t \in 0..MaxTime : claims[t] \in Nat
      BY AlertAssumption DEF AlertTypeOK, Instants
<1>1. ASSUME NEW m \in Profiles, NEW t \in Instants PROVE CountOK(m, t)'
      <2>0. t \in Nat /\ CountOK(m, t)
            BY AlertAssumption DEF Counts, Instants
      <2>1. /\ Once(m, t)' => Once(m, t)
            /\ Twice(m, t)' => Twice(m, t)
            /\ Thrice(m, t)' => Thrice(m, t)
            BY CarriedLess
      <2>2. Once(m, t)' => t <= now' /\ Passes(t)'
            <3>1. SUFFICES ASSUME Once(m, t)' PROVE t <= now' /\ Passes(t)'
                  OBVIOUS
            <3>2. t <= now /\ Passes(t)
                  BY <2>0, <2>1, <3>1 DEF CountOK
            <3>3. Passes(t)'
                  BY <1>0, <2>0, <3>2 DEF Passes, Started
            <3> QED BY <1>0, <2>0, <3>2, <3>3
      <2>3. Twice(m, t)' => t <= search'.last
            BY <1>0, <2>0, <2>1 DEF CountOK
      <2> QED BY <2>0, <2>1, <2>2, <2>3 DEF CountOK
<1>2. ClaimsOK'
      BY <1>0 DEF Counts, ClaimsOK
<1> QED BY <1>1, <1>2 DEF Counts

\* A step that leaves the sweeps and the histories alone.
LEMMA StillSweeps ==
    ASSUME AlertTypeOK, AlertTypeOK', Unrewound, search'.last = search.last, now <= now',
           UNCHANGED <<sweep, updated, optIn, claims, told, missed>>
    PROVE  Unrewound'
<1>1. Counts'
      <2>1. \A s \in Sweeps, m \in Profiles, t \in Instants : Carries(s, m, t)' => Carries(s, m, t)
            BY DEF Carries
      <2>2. search.last <= search'.last
            BY AlertAssumption DEF AlertTypeOK
      <2>3. \A s \in Sweeps : Started(sweep'[s]) /\ sweep'[s].since = search'.last =>
               \/ now <= sweep'[s].start
               \/ /\ Started(sweep[s]) /\ sweep[s].since = search.last
                  /\ sweep'[s].start = sweep[s].start
            OBVIOUS
      <2> QED BY <2>1, <2>2, <2>3, QuietCounts DEF Unrewound
<1>2. Behind'
      BY DEF Unrewound, Behind, Busy
<1>3. \A s \in Sweeps : Complete(sweep[s])'
      BY DEF Unrewound, Complete
<1>4. \A m \in Profiles : Accounted(m)'
      BY DEF Unrewound, Accounted, Once, Carries
<1> QED BY <1>1, <1>2, <1>3, <1>4 DEF Unrewound

\* A step in which sweep s goes on and neither claims nor tells.
LEMMA StillSearch ==
    ASSUME AlertTypeOK, AlertTypeOK', LocalOK, Unrewound, NEW s \in Sweeps, NEW x,
           sweep' = [sweep EXCEPT ![s] = x],
           UNCHANGED <<now, search, updated, optIn, claims, told>>, missed \subseteq missed',
           x.pc # "notify", sweep[s].pc = "notify" => sweep[s].matches \subseteq missed',
           Busy(x) => x.since <= search.last,
           Complete(x),
           Started(x) => \/ now <= x.start
                         \/ Started(sweep[s]) /\ sweep[s].since = x.since /\ x.start = sweep[s].start
    PROVE  Unrewound'
<1>0. \A r \in Sweeps : sweep'[r] = IF r = s THEN x ELSE sweep[r]
      BY DEF AlertTypeOK
<1>1. Counts'
      <2>1. \A r \in Sweeps, m \in Profiles, t \in Instants : Carries(r, m, t)' => Carries(r, m, t)
            BY <1>0 DEF Carries
      <2>2. now \in Nat /\ search.last \in Nat
            BY AlertAssumption DEF AlertTypeOK, Instants
      <2>3. \A r \in Sweeps : Started(sweep'[r]) /\ sweep'[r].since = search'.last =>
               \/ now <= sweep'[r].start
               \/ /\ Started(sweep[r]) /\ sweep[r].since = search.last
                  /\ sweep'[r].start = sweep[r].start
            BY <1>0
      <2> QED BY <2>1, <2>2, <2>3, QuietCounts DEF Unrewound
<1>2. Behind'
      BY <1>0 DEF Unrewound, Behind, Busy
<1>3. \A r \in Sweeps : Complete(sweep[r])'
      <2>1. TAKE r \in Sweeps
      <2>2. Complete(sweep'[r])
            BY <1>0 DEF Unrewound
      <2> QED BY <2>2 DEF Complete
<1>4. \A m \in Profiles : Accounted(m)'
      <2>1. TAKE m \in Profiles
      <2>2. Accounted(m)
            BY DEF Unrewound
      <2>3. \A r \in Sweeps : Carries(r, m, updated[m]) =>
               Carries(r, m, updated[m])' \/ <<m, updated[m]>> \in missed'
            BY <1>0 DEF Carries
      <2> QED BY <2>2, <2>3 DEF Accounted, Once
<1> QED BY <1>1, <1>2, <1>3, <1>4 DEF Unrewound

\* A sweep's claim passes only what it carries, and nobody else may claim after it.
LEMMA ClaimSucceeds ==
    ASSUME AlertTypeOK, AlertTypeOK', LocalOK, Unrewound, ~ rewound, NEW s \in Sweeps, claimAdvance(s), Unmoved(s)
    PROVE  Unrewound'
<1> DEFINE x == sweep[s]
           y == [Asleep EXCEPT !.pc = "notify", !.matches = x.matches]
<1>1. /\ x.pc = "claim" /\ search.last = x.since
      /\ search' = [search EXCEPT !.last = x.start]
      /\ claims' = [claims EXCEPT ![x.since] = @ + 1]
      /\ sweep' = [sweep EXCEPT ![s] = y]
      /\ UNCHANGED <<now, updated, optIn, told, missed>>
      BY DEF claimAdvance, Unmoved, profileVars
<1>2. /\ now \in Nat /\ search.last \in Nat /\ x.start \in Nat /\ x.since \in 0..MaxTime
      /\ search \in SearchRow /\ x \in SweepRow
      <2>1. x \in SweepRow /\ search \in SearchRow
            BY DEF AlertTypeOK, SweepRow, SearchRow
      <2>2. now \in Nat
            BY AlertAssumption DEF AlertTypeOK, Instants
      <2> HIDE DEF x
      <2>3. /\ x.start \in 0..MaxTime /\ x.since \in 0..MaxTime /\ search.last \in 0..MaxTime
            BY <2>1 DEF SweepRow, SearchRow
      <2> QED BY <2>1, <2>2, <2>3, AlertAssumption
<1>3. search'.last = x.start
      BY <1>1, <1>2 DEF SearchRow
<1>4. x.since < x.start /\ SweepOK(x)
      BY <1>1 DEF LocalOK, SweepOK, Started
<1>5. /\ \A r \in Sweeps : sweep'[r] = IF r = s THEN y ELSE sweep[r]
      /\ y.pc = "notify" /\ y.matches = x.matches
      BY <1>1 DEF AlertTypeOK, Asleep
<1> HIDE DEF x, y
<1>6. \A r \in Sweeps : Busy(sweep'[r]) => /\ r # s /\ sweep'[r] = sweep[r]
                                           /\ sweep[r].since < search'.last
      <2>1. TAKE r \in Sweeps
      <2>2. HAVE Busy(sweep'[r])
      <2>3. r # s /\ sweep'[r] = sweep[r]
            BY <1>5, <2>2 DEF Busy
      <2>4. sweep[r].since <= search.last /\ sweep[r].since \in Nat
            BY <2>2, <2>3, AlertAssumption DEF Unrewound, Behind, AlertTypeOK
      <2> QED BY <1>1, <1>2, <1>3, <1>4, <2>3, <2>4
<1>7. \A r \in Sweeps : Started(sweep'[r]) => Busy(sweep'[r])
      BY DEF Started, Busy
<1>8. \A t : Passes(t)'
      <2>1. \A r \in Sweeps : ~ (Started(sweep'[r]) /\ sweep'[r].since = search'.last)
            <3>1. TAKE r \in Sweeps
            <3>2. sweep[r].since \in Nat /\ search'.last \in Nat
                  BY <1>2, <1>3, AlertAssumption DEF AlertTypeOK
            <3> QED BY <1>6, <1>7, <3>2
      <2> QED BY <2>1 DEF Passes
<1>9. ASSUME NEW m \in Profiles, NEW t \in Instants PROVE CountOK(m, t)'
      <2>0. t \in Nat /\ CountOK(m, t)
            BY AlertAssumption DEF Unrewound, Counts, Instants
      <2>1. /\ Once(m, t)' => Once(m, t) \/ Carries(s, m, t)'
            /\ Twice(m, t)' => Twice(m, t) \/ (Once(m, t) /\ Carries(s, m, t)')
            /\ Thrice(m, t)' => Thrice(m, t) \/ (Twice(m, t) /\ Carries(s, m, t)')
            <3>1. ~ Carries(s, m, t)
                  BY <1>1 DEF Carries, x
            <3>2. \A r \in Sweeps : r # s /\ Carries(r, m, t)' => Carries(r, m, t)
                  BY <1>5 DEF Carries
            <3> QED BY <1>1, <3>1, <3>2, CarriedMore
      <2>2. Carries(s, m, t)' => t <= now /\ x.since < t
            BY <1>1, <1>4, <1>5 DEF Carries, SweepOK
      <2>3. Once(m, t) => t <= x.start
            BY <1>1, <2>0 DEF CountOK, Passes, Started, x
      <2>4. Twice(m, t) => ~ Carries(s, m, t)'
            BY <1>1, <1>2, <2>0, <2>2 DEF CountOK
      <2>5. Once(m, t)' => t <= now'
            BY <1>1, <2>0, <2>1, <2>2 DEF CountOK
      <2>6. Twice(m, t)' => t <= search'.last
            BY <1>1, <1>2, <1>3, <1>4, <2>0, <2>1, <2>3 DEF CountOK
      <2> QED BY <1>8, <2>0, <2>1, <2>4, <2>5, <2>6 DEF CountOK
<1>10. ClaimsOK'
      <2>1. SUFFICES ASSUME NEW t \in 0..MaxTime
                     PROVE  claims'[t] <= 1 /\ (claims'[t] > 0 => t < search'.last)
            BY DEF ClaimsOK
      <2>2. /\ claims \in [0..MaxTime -> Nat] /\ t \in Nat
            /\ claims[t] <= 1 /\ (claims[t] > 0 => t < search.last)
            <3>1. t \in Nat
                  BY AlertAssumption
            <3>2. claims \in [0..MaxTime -> Nat]
                  BY DEF AlertTypeOK
            <3> QED BY <3>1, <3>2 DEF Unrewound, Counts, ClaimsOK
      <2>3. CASE t = x.since
            BY <1>1, <1>2, <1>3, <1>4, <2>2, <2>3
      <2>4. CASE t # x.since
            BY <1>1, <1>2, <1>3, <1>4, <2>2, <2>4
      <2> QED BY <2>3, <2>4
<1>11. Behind'
      <2>1. SUFFICES ASSUME NEW r \in Sweeps, Busy(sweep'[r]) PROVE sweep'[r].since <= search'.last
            BY DEF Behind, Busy
      <2>2. sweep[r].since \in Nat /\ search'.last \in Nat
            BY <1>2, <1>3, AlertAssumption DEF AlertTypeOK
      <2> QED BY <1>6, <2>1, <2>2
<1>12. \A r \in Sweeps : Complete(sweep[r])'
      <2>1. TAKE r \in Sweeps
      <2>2. Complete(sweep'[r])
            BY <1>5 DEF Unrewound, Complete
      <2> QED BY <1>1, <2>2 DEF Complete
<1>13. \A m \in Profiles : Accounted(m)'
      <2> TAKE m \in Profiles
      <2>1. PICK t : t = updated[m]
            OBVIOUS
      <2>2. Accounted(m) /\ Complete(x) /\ t \in Nat
            BY <2>1, AlertAssumption DEF Unrewound, AlertTypeOK, x
      <2>3. updated'[m] = t /\ told' = told /\ missed' = missed /\ optIn' = optIn
            BY <1>1, <2>1
      <2>4. \A r \in Sweeps : Carries(r, m, t) => Carries(r, m, t)'
            BY <1>1, <1>5 DEF Carries, x
      <2>5. <<m, t>> \in x.matches => Carries(s, m, t)'
            BY <1>5 DEF Carries
      <2>6. CASE x.since < t /\ t <= x.start
            <3>1. <<m, t>> \in x.matches \/ <<m, t>> \in missed
                  BY <1>1, <2>1, <2>2, <2>6 DEF Complete
            <3> QED BY <2>3, <2>5, <3>1 DEF Accounted, Once
      <2>7. CASE ~ (x.since < t) \/ ~ (t <= x.start)
            <3>1. t > search'.last \/ t <= search.last
                  BY <1>1, <1>2, <1>3, <2>2, <2>7
            <3>2. Once(m, t) => Once(m, t)'
                  BY <2>3, <2>4 DEF Once
            <3> QED BY <1>2, <2>1, <2>2, <2>3, <3>1, <3>2 DEF Accounted
      <2> QED BY <2>6, <2>7
<1> QED BY <1>9, <1>10, <1>11, <1>12, <1>13 DEF Unrewound, Counts

\* An alert: what a sweep has carried is told.
LEMMA NotifyTells ==
    ASSUME AlertTypeOK, AlertTypeOK', Unrewound, ~ rewound, NEW s \in Sweeps, notify(s)
    PROVE  Unrewound'
<1>1. /\ sweep[s].pc = "notify" /\ sweep' = [sweep EXCEPT ![s] = Asleep]
      /\ told' = [m \in Profiles |-> [t \in Instants |->
                    told[m][t] + (IF <<m, t>> \in sweep[s].matches /\ ~ rewound THEN 1 ELSE 0)]]
      /\ UNCHANGED <<now, search, updated, optIn, claims, missed>>
      BY DEF notify, profileVars
<1>2. /\ \A r \in Sweeps : sweep'[r] = IF r = s THEN Asleep ELSE sweep[r]
      /\ ~ Busy(Asleep) /\ ~ Started(Asleep) /\ Asleep.pc # "claim" /\ Asleep.pc # "notify"
      BY <1>1 DEF AlertTypeOK, Asleep, Busy, Started
<1>3. ASSUME NEW m \in Profiles, NEW t \in Instants
      PROVE  /\ Once(m, t) => Once(m, t)'
             /\ Once(m, t)' => Once(m, t)
             /\ Twice(m, t)' => Twice(m, t)
             /\ Thrice(m, t)' => Thrice(m, t)
      <2>1. told[m][t] \in Nat
            BY DEF AlertTypeOK
      <2>2. \A r \in Sweeps : Carries(r, m, t)' <=> r # s /\ Carries(r, m, t)
            BY <1>2 DEF Carries
      <2>3. CASE Carries(s, m, t)
            <3>1. told'[m][t] = told[m][t] + 1
                  BY <1>1, <2>3 DEF Carries
            <3>2. Once(m, t)
                  BY <2>3 DEF Once
            <3> QED BY <2>1, <2>2, <2>3, <3>1, <3>2, CarriedTold
      <2>4. CASE ~ Carries(s, m, t)
            <3>1. told'[m][t] = told[m][t]
                  BY <1>1, <2>1, <2>4 DEF Carries
            <3>2. Once(m, t) => Once(m, t)'
                  BY <2>2, <2>4, <3>1 DEF Once
            <3> QED BY <2>2, <3>1, <3>2, CarriedLess
      <2> QED BY <2>3, <2>4
<1>4. ASSUME NEW m \in Profiles, NEW t \in Instants PROVE CountOK(m, t)'
      <2>1. CountOK(m, t)
            BY DEF Unrewound, Counts
      <2>2. Passes(t) => Passes(t)'
            BY <1>1, <1>2 DEF Passes
      <2> QED BY <1>1, <1>3, <2>1, <2>2 DEF CountOK
<1>5. ClaimsOK'
      BY <1>1 DEF Unrewound, Counts, ClaimsOK
<1>6. Behind'
      BY <1>1, <1>2 DEF Unrewound, Behind, Busy
<1>7. \A r \in Sweeps : Complete(sweep[r])'
      <2>1. TAKE r \in Sweeps
      <2>2. Complete(sweep'[r])
            BY <1>2 DEF Unrewound, Complete
      <2> QED BY <1>1, <2>2 DEF Complete
<1>8. \A m \in Profiles : Accounted(m)'
      <2> TAKE m \in Profiles
      <2>1. PICK t : t = updated[m]
            OBVIOUS
      <2>2. Accounted(m) /\ (t # 0 => t \in Instants)
            BY <2>1 DEF Unrewound, AlertTypeOK, Instants
      <2>3. updated'[m] = t
            BY <1>1, <2>1
      <2> QED BY <1>1, <1>3, <2>1, <2>2, <2>3 DEF Accounted
<1> QED BY <1>4, <1>5, <1>6, <1>7, <1>8 DEF Unrewound, Counts

\* An update that commits behind a sweep that has counted, or behind the watermark, is missed.
LEMMA CommitAccounted ==
    ASSUME AlertTypeOK, AlertTypeOK', Unrewound, ~ rewound, NEW m \in Profiles, commit(m)
    PROVE  Unrewound'
<1>1. /\ updated' = [updated EXCEPT ![m] = updating[m]]
      /\ missed' = IF TooLate(updating[m]) THEN missed \cup {<<m, updating[m]>>} ELSE missed
      /\ UNCHANGED <<now, search, sweep, optIn, claims, told>>
      BY DEF commit
<1>2. /\ now \in Nat /\ search.last \in Nat /\ updating[m] \in Nat
      /\ \A s \in Sweeps : sweep[s].start \in Nat
      BY AlertAssumption DEF AlertTypeOK, Instants
<1>3. \A n \in Profiles : updated'[n] = IF n = m THEN updating[m] ELSE updated[n]
      BY <1>1 DEF AlertTypeOK
<1>4. Counts'
      <2>1. \A s \in Sweeps, n \in Profiles, t \in Instants : Carries(s, n, t)' => Carries(s, n, t)
            BY <1>1 DEF Carries
      <2>2. \A s \in Sweeps : Started(sweep'[s]) /\ sweep'[s].since = search'.last =>
               \/ now <= sweep'[s].start
               \/ /\ Started(sweep[s]) /\ sweep[s].since = search.last
                  /\ sweep'[s].start = sweep[s].start
            BY <1>1
      <2> QED BY <1>1, <1>2, <2>1, <2>2, QuietCounts DEF Unrewound
<1>5. Behind'
      BY <1>1 DEF Unrewound, Behind, Busy
<1>6. \A s \in Sweeps : Complete(sweep[s])'
      <2>1. SUFFICES ASSUME NEW s \in Sweeps, sweep[s].pc = "claim", NEW n \in Profiles,
                            sweep[s].since < updated'[n], updated'[n] <= sweep[s].start
                     PROVE  <<n, updated'[n]>> \in sweep[s].matches \cup missed'
            BY <1>1 DEF Complete
      <2>2. CASE n = m
            <3>1. TooLate(updating[m])
                  BY <1>2, <1>3, <2>1, <2>2 DEF TooLate
            <3> QED BY <1>1, <1>3, <2>2, <3>1
      <2>3. CASE n # m
            BY <1>1, <1>3, <2>1, <2>3 DEF Unrewound, Complete
      <2> QED BY <2>2, <2>3
<1>7. \A n \in Profiles : Accounted(n)'
      <2>1. TAKE n \in Profiles
      <2>2. CASE n = m
            <3>1. updating[m] > search.last \/ <<m, updating[m]>> \in missed'
                  BY <1>1, <1>2 DEF TooLate
            <3> QED BY <1>1, <1>3, <2>2, <3>1 DEF Accounted
      <2>3. CASE n # m
            <3>1. updated'[n] = updated[n] /\ missed \subseteq missed' /\ Accounted(n)
                  BY <1>1, <1>3, <2>3 DEF Unrewound
            <3> QED BY <1>1, <3>1 DEF Accounted, Once, Carries
      <2> QED BY <2>2, <2>3
<1> QED BY <1>4, <1>5, <1>6, <1>7 DEF Unrewound

\* The owner anchors or advances the watermark: he wishes to be told from then on.
LEMMA OwnerAdvances ==
    ASSUME AlertTypeOK, AlertTypeOK', LocalOK, Unrewound, search.last <= search'.last,
           search'.last = search.last => search.last = 0 \/ optIn <= optIn',
           search'.last # search.last => search'.last <= optIn',
           UNCHANGED <<now, sweep, updated, claims, told, missed>>
    PROVE  Unrewound'
<1>0. /\ now \in Nat /\ search.last \in Nat /\ search'.last \in Nat /\ optIn \in Nat /\ optIn' \in Nat
      /\ \A s \in Sweeps : sweep[s].since \in Nat
      /\ \A m \in Profiles : updated[m] \in Nat
      BY AlertAssumption DEF AlertTypeOK, Instants
<1>1. Counts'
      <2>1. \A s \in Sweeps, m \in Profiles, t \in Instants : Carries(s, m, t)' => Carries(s, m, t)
            BY DEF Carries
      <2>2. \A s \in Sweeps : Started(sweep'[s]) /\ sweep'[s].since = search'.last =>
               \/ now <= sweep'[s].start
               \/ /\ Started(sweep[s]) /\ sweep[s].since = search.last
                  /\ sweep'[s].start = sweep[s].start
            BY <1>0 DEF Unrewound, Behind, Busy, Started
      <2> QED BY <1>0, <2>1, <2>2, QuietCounts DEF Unrewound
<1>2. Behind'
      BY <1>0 DEF Unrewound, Behind, Busy
<1>3. \A s \in Sweeps : Complete(sweep[s])'
      BY DEF Unrewound, Complete
<1>4. \A m \in Profiles : Accounted(m)'
      <2> TAKE m \in Profiles
      <2>1. PICK t : t = updated[m] /\ t = updated'[m]
            OBVIOUS
      <2>2. Accounted(m) /\ t \in Nat
            BY <1>0, <2>1 DEF Unrewound
      <2>3. Once(m, t) => Once(m, t)'
            BY DEF Once, Carries
      <2>4. CASE search'.last = search.last
            BY <1>0, <2>1, <2>2, <2>3, <2>4 DEF Accounted
      <2>5. CASE search'.last # search.last
            BY <1>0, <2>1, <2>2, <2>5 DEF Accounted
      <2> QED BY <2>4, <2>5
<1> QED BY <1>1, <1>2, <1>3, <1>4 DEF Unrewound

LEMMA HistoriesStep == AlertIInv /\ [AlertNext]_alertVars => Histories'
<1> SUFFICES ASSUME AlertIInv, [AlertNext]_alertVars PROVE Histories'
    OBVIOUS
<1>0. AlertTypeOK /\ AlertTypeOK' /\ LocalOK /\ LocalOK' /\ Histories
      BY AlertTypeStep, AlertLocalStep DEF AlertIInv
<1>t. /\ now \in Nat /\ now' \in Nat /\ now > 0 /\ search.last \in Nat /\ search'.last \in Nat
      /\ optIn \in Nat /\ optIn' \in Nat
      BY <1>0, AlertAssumption DEF AlertTypeOK, Instants
<1> USE DEF historyVars, profileVars
<1>1. CASE Tick \/ remove \/ (\E m \in Profiles : update(m)) \/ (\E o \in Owners : findOwned(o)) \/ UNCHANGED alertVars
      <2>1. /\ UNCHANGED <<sweep, updated, optIn, claims, told, missed, rewound>>
            /\ search'.last = search.last /\ now <= now'
            <3>1. CASE Tick
                  BY <1>t, <3>1 DEF Tick
            <3>2. CASE remove
                  <4>1. search \in SearchRow
                        BY <1>0 DEF AlertTypeOK, SearchRow
                  <4> QED BY <1>t, <3>2, <4>1 DEF remove, SearchRow
            <3>3. ASSUME NEW m \in Profiles, update(m)
                  PROVE  UNCHANGED <<now, search, sweep, updated, optIn, claims, told, missed, rewound>>
                  BY <3>3 DEF update
            <3>4. ASSUME NEW o \in Owners, findOwned(o)
                  PROVE  UNCHANGED <<now, search, sweep, updated, optIn, claims, told, missed, rewound>>
                  BY <3>4 DEF findOwned
            <3>5. CASE UNCHANGED alertVars
                  BY <1>t, <3>5 DEF alertVars
            <3> QED BY <1>1, <1>t, <3>1, <3>2, <3>3, <3>4, <3>5
      <2> QED BY <1>0, <2>1, StillSweeps DEF Histories
<1>2. CASE create
      <2>1. CASE rewound
            BY <1>0, <1>2, <2>1 DEF Histories, create
      <2>2. CASE ~ rewound
            <3>1. PICK alert \in BOOLEAN : search' = [saved |-> TRUE, alert |-> alert, last |-> IF alert THEN now ELSE 0]
                  BY <1>2 DEF create
            <3>2. search.last = 0 /\ optIn' = now
                  BY <1>2 DEF create
            <3>3. search'.last = 0 \/ search'.last = optIn'
                  BY <3>1, <3>2
            <3>4. UNCHANGED <<now, sweep, updated, claims, told, missed, rewound>>
                  BY <1>2 DEF create
            <3> QED BY <1>0, <1>t, <2>2, <3>2, <3>3, <3>4, OwnerAdvances DEF Histories
      <2> QED BY <2>1, <2>2
<1>3. ASSUME NEW m \in Profiles, commit(m) PROVE Histories'
      <2>1. CASE rewound
            BY <1>0, <1>3, <2>1 DEF Histories, commit
      <2>2. CASE ~ rewound
            BY <1>0, <1>3, <2>2, CommitAccounted DEF Histories, commit
      <2> QED BY <2>1, <2>2
<1>4. ASSUME NEW o \in Owners, saveEdit(o) PROVE Histories'
      <2>1. search' = edit[o].row
            BY <1>4 DEF saveEdit
      <2>2. CASE search'.last < search.last
            BY <1>4, <2>1, <2>2 DEF saveEdit, Histories
      <2>3. CASE ~ (search'.last < search.last)
            <3>1. UNCHANGED <<now, sweep, updated, claims, told, missed, rewound>>
                  BY <1>4, <2>1, <2>3 DEF saveEdit
            <3>2. CASE rewound
                  BY <1>0, <3>1, <3>2 DEF Histories
            <3>3. CASE ~ rewound
                  <4>1. optIn' = IF search'.last > search.last THEN search'.last ELSE optIn
                        BY <1>4, <2>1 DEF saveEdit
                  <4> QED BY <1>0, <1>t, <2>3, <3>1, <3>3, <4>1, OwnerAdvances DEF Histories
            <3> QED BY <3>2, <3>3
      <2> QED BY <2>2, <2>3
<1>5. ASSUME NEW s \in Sweeps,
             find(s) \/ takeStart(s) \/ countNewMatches(s) \/ claimAdvance(s) \/ notify(s) \/ fail(s)
      PROVE  Histories'
      <2> DEFINE x == sweep[s]
      <2>0. /\ x \in SweepRow /\ x.since \in Nat /\ x.start \in Nat
            /\ rewound' = rewound /\ (Busy(x) /\ ~ rewound => x.since <= search.last)
            <3>1. x \in SweepRow
                  BY <1>0 DEF AlertTypeOK, SweepRow
            <3>2. rewound' = rewound
                  BY <1>5 DEF find, takeStart, countNewMatches, claimAdvance, notify, fail
            <3>3. x.since \in 0..MaxTime /\ x.start \in 0..MaxTime
                  BY <3>1 DEF SweepRow
            <3>4. Busy(x) /\ ~ rewound => x.since <= search.last
                  BY <1>0 DEF Histories, Unrewound, Behind
            <3> QED BY <3>1, <3>2, <3>3, <3>4, AlertAssumption
      <2>a. ~ Busy(Asleep) /\ ~ Started(Asleep) /\ Complete(Asleep) /\ Asleep.pc # "notify"
            BY DEF Busy, Started, Complete, Asleep
      <2>1. CASE rewound
            <3>1. claims' = claims
                  BY <1>5, <2>1 DEF find, takeStart, countNewMatches, claimAdvance, notify, fail
            <3>2. CASE notify(s)
                  <4>1. told' = [m \in Profiles |-> [t \in Instants |-> told[m][t] + 0]]
                        BY <2>1, <3>2 DEF notify
                  <4>2. told = NothingTold
                        BY <1>0, <2>1 DEF Histories
                  <4>3. told' = NothingTold
                        BY <4>1, <4>2 DEF NothingTold
                  <4> QED BY <1>0, <2>0, <2>1, <3>1, <4>3 DEF Histories
            <3>3. CASE ~ notify(s)
                  <4>1. told' = told
                        BY <1>5, <3>3 DEF find, takeStart, countNewMatches, claimAdvance, fail
                  <4> QED BY <1>0, <2>0, <2>1, <3>1, <4>1 DEF Histories
            <3> QED BY <3>2, <3>3
      <2>2. CASE ~ rewound /\ find(s)
            <3> DEFINE y == [Asleep EXCEPT !.pc = "start", !.since = search.last]
            <3>1. /\ sweep' = [sweep EXCEPT ![s] = y] /\ x.pc = "idle"
                  /\ UNCHANGED <<now, search, updated, optIn, claims, told, missed>>
                  BY <2>2 DEF find
            <3>2. y.pc = "start" /\ y.since = search.last
                  BY DEF Asleep
            <3>3. Complete(y) /\ ~ Started(y) /\ y.pc # "notify" /\ y.since <= search.last
                  BY <1>t, <3>2 DEF Complete, Started
            <3> HIDE DEF y
            <3> QED BY <1>0, <2>0, <2>2, <3>1, <3>3, StillSearch DEF Histories
      <2>3. CASE ~ rewound /\ takeStart(s)
            <3>1. PICK y : /\ sweep' = [sweep EXCEPT ![s] = y]
                           /\ y = Asleep \/ y = [x EXCEPT !.pc = "count", !.start = now]
                  BY <2>3 DEF takeStart
            <3>2. x.pc = "start" /\ UNCHANGED <<now, search, updated, optIn, claims, told, missed>>
                  BY <2>3 DEF takeStart
            <3>3. y = Asleep \/ (y.pc = "count" /\ y.since = x.since /\ y.start = now)
                  BY <2>0, <3>1 DEF SweepRow
            <3>4. /\ y.pc # "notify" /\ Complete(y) /\ (Started(y) => now <= y.start)
                  /\ (Busy(y) => y.since <= search.last)
                  BY <1>t, <2>0, <2>3, <2>a, <3>2, <3>3 DEF Complete, Busy
            <3> QED BY <1>0, <2>0, <2>3, <3>1, <3>2, <3>4, StillSearch DEF Histories
      <2>4. CASE ~ rewound /\ countNewMatches(s)
            <3> DEFINE matches == {<<m, updated[m]>> : m \in {n \in Profiles : updated[n] > sweep[s].since}}
                       counted == [x EXCEPT !.pc = "claim", !.matches = matches]
            <3>1. PICK y : sweep' = [sweep EXCEPT ![s] = y] /\ (y = Asleep \/ y = counted)
                  BY <2>4 DEF countNewMatches
            <3>2. x.pc = "count" /\ UNCHANGED <<now, search, updated, optIn, claims, told, missed>>
                  BY <2>4 DEF countNewMatches
            <3>3. counted.pc = "claim" /\ counted.since = x.since /\ counted.start = x.start /\ counted.matches = matches
                  BY <2>0 DEF SweepRow
            <3>4. Complete(counted)
                  BY <2>0, <3>3, <1>0 DEF Complete, AlertTypeOK
            <3> HIDE DEF counted, matches
            <3>5. /\ y.pc # "notify" /\ Complete(y) /\ (Busy(y) => y.since <= search.last)
                  /\ (Started(y) => Started(x) /\ x.since = y.since /\ y.start = x.start)
                  BY <2>0, <2>4, <2>a, <3>1, <3>2, <3>3, <3>4 DEF Busy, Started
            <3> QED BY <1>0, <2>0, <2>4, <3>1, <3>2, <3>5, StillSearch DEF Histories
      <2>5. CASE ~ rewound /\ claimAdvance(s)
            <3>1. CASE Unmoved(s)
                  BY <1>0, <2>0, <2>5, <3>1, ClaimSucceeds DEF Histories
            <3>2. CASE ~ Unmoved(s)
                  <4>1. /\ sweep' = [sweep EXCEPT ![s] = Asleep] /\ x.pc = "claim"
                        /\ UNCHANGED <<now, search, updated, optIn, claims, told, missed>>
                        BY <2>5, <3>2 DEF claimAdvance
                  <4> QED BY <1>0, <2>0, <2>5, <2>a, <4>1, StillSearch DEF Histories
            <3> QED BY <3>1, <3>2
      <2>6. CASE ~ rewound /\ notify(s)
            BY <1>0, <2>0, <2>6, NotifyTells DEF Histories
      <2>7. CASE ~ rewound /\ fail(s)
            <3>1. /\ sweep' = [sweep EXCEPT ![s] = Asleep] /\ missed \subseteq missed'
                  /\ x.pc = "notify" => x.matches \subseteq missed'
                  /\ UNCHANGED <<now, search, updated, optIn, claims, told>>
                  BY <2>7 DEF fail
            <3> QED BY <1>0, <2>0, <2>7, <2>a, <3>1, StillSearch DEF Histories
      <2> QED BY <1>5, <2>1, <2>2, <2>3, <2>4, <2>5, <2>6, <2>7
<1> QED BY <1>1, <1>2, <1>3, <1>4, <1>5 DEF AlertNext

LEMMA AlertInvInit == AlertInit => AlertIInv
<1> SUFFICES ASSUME AlertInit PROVE AlertIInv
    OBVIOUS
<1>1. \A s \in Sweeps, m \in Profiles, t \in Instants : ~ Carries(s, m, t)
      BY DEF AlertInit, Carries, Asleep
<1>2. \A m \in Profiles, t \in Instants : told[m][t] = 0
      BY DEF AlertInit, NothingTold
<1>3. \A m \in Profiles, t \in Instants : CountOK(m, t)
      BY <1>1, <1>2 DEF CountOK, Once, Twice, Thrice
<1>4. ClaimsOK
      BY DEF AlertInit, ClaimsOK, NoClaims
<1>5. Behind /\ \A s \in Sweeps : Complete(sweep[s])
      BY DEF AlertInit, Behind, Busy, Complete, Asleep
<1>6. \A m \in Profiles : Accounted(m)
      BY DEF AlertInit, Accounted
<1>7. rewound = FALSE
      BY DEF AlertInit
<1> QED BY <1>3, <1>4, <1>5, <1>6, <1>7, AlertTypeInit, AlertLocalInit DEF AlertIInv, Histories, Unrewound, Counts

LEMMA AlertInvariance == AlertSpec => []AlertIInv
<1>1. AlertIInv /\ [AlertNext]_alertVars => AlertIInv'
      BY HistoriesStep, AlertTypeStep, AlertLocalStep DEF AlertIInv
<1> QED BY <1>1, AlertInvInit, PTL DEF AlertSpec

\* Every variable keeps its type (AlertTypeOK).
THEOREM AlertsTyped == AlertSpec => []AlertTypeOK
<1>1. AlertIInv => AlertTypeOK
      BY DEF AlertIInv
<1> QED BY <1>1, AlertInvariance, PTL

\* However the owner's edits overlap, alerts are on with a watermark only: no sweep counts
\* the whole back-catalogue (saved-search.service.ts, update).
THEOREM AlertsAnchored == AlertSpec => []Anchored
<1>1. AlertIInv => Anchored
      BY DEF AlertIInv, LocalOK
<1> QED BY <1>1, AlertInvariance, PTL

\* Of any number of sweeps that have read one watermark, one claims it
\* (saved-search-alert.service.ts, claimAdvance).
THEOREM OneClaimPerWatermark == AlertSpec => []ClaimedOnce
<1>1. AlertIInv => ClaimedOnce
      <2>1. SUFFICES ASSUME AlertIInv, NEW t \in 0..MaxTime PROVE claims[t] <= 1
            BY DEF ClaimedOnce
      <2>2. CASE rewound
            <3>1. claims[t] = 0
                  BY <2>1, <2>2 DEF AlertIInv, Histories, NoClaims
            <3> QED BY <3>1
      <2>3. CASE ~ rewound
            BY <2>1, <2>3 DEF AlertIInv, Histories, Unrewound, Counts, ClaimsOK
      <2> QED BY <2>2, <2>3
<1> QED BY <1>1, AlertInvariance, PTL

\* One update of a profile is in at most two alerts: of the sweep that was under way when
\* it happened and of the next (saved-search-alert.service.ts, "at worst ... twice").
THEOREM AtMostTwoAlerts == AlertSpec => []CountedTwiceAtWorst
<1>1. AlertIInv => CountedTwiceAtWorst
      <2>1. SUFFICES ASSUME AlertIInv, NEW m \in Profiles, NEW t \in Instants PROVE told[m][t] <= 2
            BY DEF CountedTwiceAtWorst
      <2>2. told[m][t] \in Nat
            BY <2>1 DEF AlertIInv, AlertTypeOK
      <2>3. CASE rewound
            <3>1. told[m][t] = 0
                  BY <2>1, <2>3 DEF AlertIInv, Histories, NothingTold
            <3> QED BY <3>1
      <2>4. CASE ~ rewound
            BY <2>1, <2>2, <2>4 DEF AlertIInv, Histories, Unrewound, Counts, CountOK, Thrice
      <2> QED BY <2>3, <2>4
<1> QED BY <1>1, AlertInvariance, PTL

\* A match that the watermark has passed is told, being told, late, lost with its alert, or
\* older than the owner's wish to be told (saved-search-alert.service.ts, runAlertSweep).
THEOREM DroppedOnlyWhenLate == AlertSpec => []DroppedOnlyIfLate
<1>1. AlertIInv => DroppedOnlyIfLate
      <2>1. SUFFICES ASSUME AlertIInv, ~ rewound, NEW m \in Profiles, NEW t, t = updated[m]
                     PROVE  \/ t = 0 \/ t > search.last \/ t <= optIn \/ told[m][t] > 0 \/ <<m, t>> \in missed
                            \/ \E s \in Sweeps : sweep[s].pc = "notify" /\ <<m, t>> \in sweep[s].matches
            BY DEF DroppedOnlyIfLate
      <2>2. Accounted(m)
            BY <2>1 DEF AlertIInv, Histories, Unrewound
      <2> QED BY <2>1, <2>2 DEF Accounted, Once, Carries
<1> QED BY <1>1, AlertInvariance, PTL
==================================================================================
