----------------------------- MODULE RecruitersProofs -----------------------------
(***************************************************************************)
(* Proofs about Recruiters, for any number of users, companies,            *)
(* invitations, seats and requests.                                        *)
(*                                                                         *)
(* The inductive invariant says what each request in flight still knows    *)
(* between two of its writes (ReqOK), that a company has one founder and   *)
(* everything else about a company comes after him (Founders), and counts  *)
(* the seats and the invitations that are still under way.                 *)
(***************************************************************************)
EXTENDS Recruiters, FiniteSetTheorems, TLAPS

IsFounder(u)  == \E x \in recruiters : x.user = u /\ x.via = "found"
HasFounder(k) == \E x \in recruiters : x.company = k /\ x.via = "found"

\* The operations whose request may stand at pc.
OpsAt(pc) ==
    CASE pc \in {"company", "subscribe"}        -> {"found"}
      [] pc \in {"revokePending", "invitation"} -> {"invite"}
      [] pc = "account"                         -> {"accept", "provision"}
      [] pc = "insert"                          -> {"found", "add", "invite", "accept", "provision"}
      [] pc = "readRoles"                       -> {"invite", "accept", "remove"}
      [] pc = "roles"                           -> {"found", "add", "invite", "accept", "remove"}
      [] pc = "accepted"                        -> {"accept"}
      [] pc = "delete"                          -> {"remove"}
      [] OTHER                                  -> {"none"}

Counted == {"add", "invite", "accept"}

\* What a request's record may rely on, whatever the others do.
ReqOK(x) ==
    /\ x.op \in OpsAt(x.pc)
    /\ x.row <= lastId
    /\ x.pc # "idle" => x.user \in Users /\ x.company \in Companies
    /\ x.pc \in {"company", "insert"} => account[x.user] = "verified"
    /\ "company_admin" \in x.roles => IsFounder(x.user)
    /\ x.pc = "roles" /\ x.op = "found" => IsFounder(x.user)
    /\ x.pc \in {"insert", "roles", "subscribe"} /\ x.op = "found" => x.company \in companies
    /\ x.pc = "insert" /\ x.op = "found" => ~ HasFounder(x.company)
    /\ x.pc = "delete" => \A y \in recruiters : y.id = x.row => y.via # "found"
    /\ x.op \in Counted => HasFounder(x.company)
    /\ x.op = "accept" => x.invitation \in Invitations

RequestsOK == \A p \in Requests : ReqOK(req[p])

\* Two requests never found the same company.
FoundsAlone ==
    \A p, q \in Requests :
        /\ req[p].pc = "insert" /\ req[p].op = "found"
        /\ req[q].pc = "insert" /\ req[q].op = "found"
        /\ req[p].company = req[q].company
        => p = q

\* The founder comes first, is one, and his company exists.
Founders ==
    /\ \A x \in recruiters : x.id <= lastId
    /\ \A x, y \in recruiters : x.id = y.id => x = y
    /\ \A x, y \in recruiters : x.via = "found" /\ y.via = "found" /\ x.company = y.company => x = y
    /\ \A x \in recruiters : x.via = "found" => x.company \in companies
    /\ \A x \in recruiters : x.via # "provision" => HasFounder(x.company)
    /\ \A n \in Invitations : invitations[n].status = "pending" =>
         /\ invitations[n].email \in Users
         /\ invitations[n].company \in Companies
         /\ HasFounder(invitations[n].company)

IInv ==
    /\ TypeOK /\ IsFiniteSet(recruiters)
    /\ RequestsOK /\ FoundsAlone /\ Founders
    /\ OneCompanyPerUser /\ RecruiterIsVerified /\ AdminIsFounder
    /\ SeatsWithinRace /\ InvitationsNotStacked

---------------------------------------------------------------------------------
\* The stages and operations of a request.
LEMMA OpsAtStage ==
    /\ OpsAt("company") = {"found"} /\ OpsAt("subscribe") = {"found"}
    /\ OpsAt("revokePending") = {"invite"} /\ OpsAt("invitation") = {"invite"}
    /\ OpsAt("account") = {"accept", "provision"}
    /\ OpsAt("insert") = {"found", "add", "invite", "accept", "provision"}
    /\ OpsAt("readRoles") = {"invite", "accept", "remove"}
    /\ OpsAt("roles") = {"found", "add", "invite", "accept", "remove"}
    /\ OpsAt("accepted") = {"accept"} /\ OpsAt("delete") = {"remove"}
    /\ OpsAt("idle") = {"none"}
BY DEF OpsAt

LEMMA NextStage ==
    /\ AfterInsert("found") = "roles" /\ AfterInsert("add") = "roles"
    /\ AfterInsert("invite") = "readRoles" /\ AfterInsert("accept") = "readRoles"
    /\ AfterInsert("provision") = "idle"
    /\ AfterRoles("found") = "subscribe" /\ AfterRoles("accept") = "accepted"
    /\ AfterRoles("add") = "idle" /\ AfterRoles("invite") = "idle" /\ AfterRoles("remove") = "idle"
BY DEF AfterInsert, AfterRoles

LEMMA IdleOK ==
    /\ Idle \in Request /\ Idle.pc = "idle" /\ Idle.op = "none"
    /\ IInv => ReqOK(Idle)
<1>1. Idle \in Request /\ Idle.pc = "idle" /\ Idle.op = "none"
  BY RecruiterAssumption DEF Idle, Request
<1>2. IInv => ReqOK(Idle)
  BY RecruiterAssumption, OpsAtStage DEF IInv, TypeOK, Idle, ReqOK, Counted
<1> QED BY <1>1, <1>2

\* A cardinality is a number, and a subset's is not larger.
LEMMA Counting ==
    ASSUME IInv
    PROVE  /\ \A S \in SUBSET Requests : Cardinality(S) \in Nat /\ Cardinality(S) <= Cardinality(Requests)
           /\ \A S, T \in SUBSET Requests : S \subseteq T => Cardinality(S) <= Cardinality(T)
           /\ \A S \in SUBSET Invitations : Cardinality(S) \in Nat
           /\ \A S, T \in SUBSET Invitations : S \subseteq T => Cardinality(S) <= Cardinality(T)
           /\ \A S \in SUBSET recruiters : Cardinality(S) \in Nat
           /\ \A S, T \in SUBSET recruiters : S \subseteq T => Cardinality(S) <= Cardinality(T)
           /\ Cardinality(Requests) \in Nat
<1>1. IsFiniteSet(Requests) /\ IsFiniteSet(Invitations) /\ IsFiniteSet(recruiters)
  BY RecruiterAssumption DEF IInv
<1>2. ASSUME NEW S, NEW T, IsFiniteSet(T), S \subseteq T
      PROVE  Cardinality(S) \in Nat /\ Cardinality(S) <= Cardinality(T) /\ IsFiniteSet(S)
  BY <1>2, FS_Subset, FS_CardinalityType
<1> QED BY <1>1, <1>2, FS_CardinalityType, FS_Subset

---------------------------------------------------------------------------------
\* Request p has now a record x that is in order, and that counts as seated or under
\* way only if it did before or the seats have just been counted.
Moved(p, x) ==
    /\ x \in Request /\ ReqOK(x)'
    /\ x.pc \in {"account", "insert"} /\ x.op \in Counted =>
         p \in Seating(x.company) \/ Cardinality(Of(x.company)) < seats[x.company]
    /\ x.pc = "insert" /\ x.op = "found" => x.company \notin companies

\* What the statements that do not touch recruiters leave of the tables.
Tables ==
    /\ recruiters' = recruiters /\ lastId' = lastId
    /\ account' \in [Users -> {"none", "unverified", "verified"}]
    /\ \A u \in Users : account[u] = "verified" => account'[u] = "verified"
    /\ roles' \in [Users -> SUBSET Roles]
    /\ \A u \in Users : "company_admin" \in roles'[u] => IsFounder(u)
    /\ companies \subseteq companies' /\ companies' \subseteq Companies
    /\ subscribed' \subseteq companies'
    /\ seats' \in [Companies -> Nat \ {0}] /\ \A k \in Companies : seats[k] <= seats'[k]
    /\ invitations' \in [Invitations -> [status : {"none", "pending", "accepted", "revoked", "expired"},
                                         email : Users \cup {Nobody}, company : Companies \cup {Nobody}]]
    /\ \A n \in Invitations : invitations'[n].status = "pending" =>
         \/ invitations'[n] = invitations[n]
         \/ /\ invitations'[n].email \in Users
            /\ invitations'[n].company \in Companies
            /\ HasFounder(invitations'[n].company)

\* Most open no invitation either.
Frame ==
    /\ Tables
    /\ \A n \in Invitations : invitations'[n].status = "pending" => invitations'[n] = invitations[n]

\* A statement within the frame leaves the records of the others in order.
LEMMA OthersOK ==
    ASSUME IInv, Tables, NEW x \in Request, ReqOK(x)
    PROVE  ReqOK(x)'
<1>1. \A u : IsFounder(u) <=> IsFounder(u)'
  BY DEF Frame, Tables, IsFounder
<1>2. \A k : HasFounder(k) <=> HasFounder(k)'
  BY DEF Frame, Tables, HasFounder
<1> QED BY <1>1, <1>2 DEF ReqOK, Frame, Tables

LEMMA SeatsKept ==
    ASSUME IInv, Tables, NEW p, NEW x,
           \A q \in Requests : q # p => req'[q] = req[q],
           p \in Requests => req'[p] = req[p] \/ (req'[p] = x /\ Moved(p, x))
    PROVE  SeatsWithinRace'
<1> SUFFICES ASSUME NEW k \in Companies
             PROVE  Cardinality(Seated(k)') + Cardinality(Seating(k)') + 1 <= seats'[k] + Cardinality(Requests)
  BY DEF SeatsWithinRace
<1>1. Seated(k)' = Seated(k) /\ Of(k) \subseteq recruiters /\ Seated(k) \subseteq Of(k)
  BY DEF Seated, Of, Frame, Tables
<1>2. Seating(k)' \subseteq Requests /\ Seating(k) \subseteq Requests
  BY DEF Seating
<1>3. seats[k] \in Nat /\ seats'[k] \in Nat /\ seats[k] <= seats'[k]
  BY DEF IInv, TypeOK, Frame, Tables
<1>4. /\ Cardinality(Seated(k)) \in Nat /\ Cardinality(Of(k)) \in Nat
      /\ Cardinality(Seated(k)) <= Cardinality(Of(k))
      /\ Cardinality(Seating(k)) \in Nat /\ Cardinality(Seating(k)') \in Nat
      /\ Cardinality(Requests) \in Nat /\ Cardinality(Seating(k)') <= Cardinality(Requests)
  BY <1>1, <1>2, Counting
<1>5. CASE Seating(k)' \subseteq Seating(k)
  <2>1. Cardinality(Seating(k)') <= Cardinality(Seating(k))
    BY <1>2, <1>5, Counting
  <2>2. Cardinality(Seated(k)) + Cardinality(Seating(k)) + 1 <= seats[k] + Cardinality(Requests)
    BY DEF IInv, SeatsWithinRace
  <2> QED BY <1>1, <1>3, <1>4, <2>1, <2>2
<1>6. CASE ~ (Seating(k)' \subseteq Seating(k))
  <2>1. p \in Seating(k)' /\ p \notin Seating(k) /\ p \in Requests
    BY <1>6 DEF Seating
  <2>2. Cardinality(Of(k)) < seats[k]
    BY <2>1 DEF Moved, Seating, Counted
  <2> QED BY <1>1, <1>3, <1>4, <2>2
<1> QED BY <1>5, <1>6

LEMMA InvitationsKept ==
    ASSUME IInv, NEW p, NEW x,
           \A n \in Invitations : invitations'[n].status = "pending" => invitations'[n] = invitations[n],
           \A q \in Requests : q # p => req'[q] = req[q],
           p \in Requests => req'[p] = req[p] \/ (req'[p] = x /\ x.pc # "invitation")
    PROVE  InvitationsNotStacked'
<1> SUFFICES ASSUME NEW u \in Users, NEW k \in Companies
             PROVE  Cardinality(OpenInvitations(u, k)') + Cardinality(Inviting(u, k)') <= Cardinality(Requests)
  BY DEF InvitationsNotStacked
<1>1. /\ OpenInvitations(u, k)' \subseteq OpenInvitations(u, k)
      /\ OpenInvitations(u, k) \subseteq Invitations
  BY DEF OpenInvitations, Pending
<1>2. Inviting(u, k)' \subseteq Inviting(u, k) /\ Inviting(u, k) \subseteq Requests
  BY DEF Inviting, Moved
<1>3. Cardinality(OpenInvitations(u, k)) + Cardinality(Inviting(u, k)) <= Cardinality(Requests)
  BY DEF IInv, InvitationsNotStacked
<1>4. /\ Cardinality(OpenInvitations(u, k)') <= Cardinality(OpenInvitations(u, k))
      /\ Cardinality(OpenInvitations(u, k)') \in Nat /\ Cardinality(OpenInvitations(u, k)) \in Nat
  BY <1>1, Counting
<1>5. /\ Cardinality(Inviting(u, k)') <= Cardinality(Inviting(u, k))
      /\ Cardinality(Inviting(u, k)') \in Nat /\ Cardinality(Inviting(u, k)) \in Nat
      /\ Cardinality(Requests) \in Nat
  BY <1>2, Counting
<1> QED BY <1>3, <1>4, <1>5

\* A statement that moves one request, or none, and leaves recruiters alone keeps
\* everything but the count of the invitations.
LEMMA AllButInvitations ==
    ASSUME IInv, Tables, NEW p, NEW x, req' \in [Requests -> Request],
           \A q \in Requests : q # p => req'[q] = req[q],
           p \in Requests => req'[p] = req[p] \/ (req'[p] = x /\ Moved(p, x))
    PROVE  /\ (TypeOK /\ IsFiniteSet(recruiters) /\ RequestsOK /\ FoundsAlone /\ Founders)'
           /\ (OneCompanyPerUser /\ RecruiterIsVerified /\ AdminIsFounder /\ SeatsWithinRace)'
<1>1. TypeOK' /\ IsFiniteSet(recruiters)'
  BY DEF IInv, TypeOK, Frame, Tables
<1>2. RequestsOK'
  <2> SUFFICES ASSUME NEW q \in Requests PROVE ReqOK(req[q])'
    BY DEF RequestsOK
  <2>1. CASE req'[q] = req[q]
    <3>1. req[q] \in Request /\ ReqOK(req[q])
      BY DEF IInv, TypeOK, RequestsOK
    <3>2. PICK y : y = req[q]
      OBVIOUS
    <3>3. ReqOK(y)'
      BY <3>1, <3>2, OthersOK
    <3> QED BY <2>1, <3>2, <3>3 DEF ReqOK
  <2>2. CASE req'[q] # req[q]
    BY <2>2 DEF Moved, ReqOK
  <2> QED BY <2>1, <2>2
<1>3. FoundsAlone'
  <2>1. \A q \in Requests : req[q].pc = "insert" /\ req[q].op = "found" => req[q].company \in companies
    BY DEF IInv, RequestsOK, ReqOK
  <2> QED BY <2>1 DEF IInv, FoundsAlone, Moved
<1>4. Founders'
  BY DEF IInv, Founders, Frame, Tables, HasFounder
<1>5. (OneCompanyPerUser /\ AdminIsFounder)'
  BY DEF IInv, OneCompanyPerUser, AdminIsFounder, Frame, Tables, IsFounder
<1>6. RecruiterIsVerified'
  BY DEF IInv, RecruiterIsVerified, Frame, Tables, TypeOK, Row
<1> QED BY <1>1, <1>2, <1>3, <1>4, <1>5, <1>6, SeatsKept

\* A statement within the frame keeps the invariant.
LEMMA Within ==
    ASSUME IInv, Frame, NEW p, NEW x, req' \in [Requests -> Request],
           \A q \in Requests : q # p => req'[q] = req[q],
           p \in Requests => req'[p] = req[p] \/ (req'[p] = x /\ Moved(p, x) /\ x.pc # "invitation")
    PROVE  IInv'
<1>1. Tables
  BY DEF Frame
<1>2. InvitationsNotStacked'
  BY InvitationsKept DEF Frame
<1> QED BY <1>1, <1>2, AllButInvitations DEF IInv

LEMMA Still ==
    ASSUME IInv, Frame, req' = req
    PROVE  IInv'
<1>1. PICK p, x : p = Nobody /\ x = Idle
  OBVIOUS
<1>2. req' \in [Requests -> Request]
  BY DEF IInv, TypeOK
<1> QED BY <1>1, <1>2, Within

\* What a start or a move makes of req.
LEMMA Becomes ==
    ASSUME IInv, NEW p \in Requests, NEW x, req' = [req EXCEPT ![p] = x], Frame, Moved(p, x),
           x.pc # "invitation"
    PROVE  IInv'
<1>1. req' \in [Requests -> Request] /\ req'[p] = x /\ \A q \in Requests : q # p => req'[q] = req[q]
  BY DEF IInv, TypeOK, Moved
<1> QED BY <1>1, Within

\* The statements that only read leave a frame.
LEMMA SameTables ==
    ASSUME IInv, UNCHANGED <<account, roles, companies, subscribed, seats, recruiters, lastId, invitations>>
    PROVE  Frame
BY DEF IInv, TypeOK, Frame, Tables, AdminIsFounder, IsFounder

LEMMA UserSteps ==
    ASSUME IInv, NEW u \in Users, register(u) \/ verifyEmail(u)
    PROVE  IInv'
<1>1. Frame /\ req' = req
  BY DEF IInv, TypeOK, Frame, Tables, AdminIsFounder, IsFounder, register, verifyEmail
<1> QED BY <1>1, Still

LEMMA UpgradeStep ==
    ASSUME IInv, NEW k \in Companies, Upgrade(k)
    PROVE  IInv'
<1>1. Frame /\ req' = req
  BY DEF IInv, TypeOK, Frame, Tables, AdminIsFounder, IsFounder, Upgrade
<1> QED BY <1>1, Still

LEMMA InvitationSteps ==
    ASSUME IInv, NEW n \in Invitations, Expire(n) \/ revoke(n)
    PROVE  IInv'
<1>1. Frame /\ req' = req
  BY DEF IInv, TypeOK, Frame, Tables, AdminIsFounder, IsFounder, Expire, revoke
<1> QED BY <1>1, Still

\* A request that goes back to idle.
LEMMA ToIdle ==
    ASSUME IInv, NEW p \in Requests, Goto(p, "idle"), Frame
    PROVE  IInv'
<1>1. PICK x : x = Idle
  OBVIOUS
<1>2. req' = [req EXCEPT ![p] = x]
  BY <1>1 DEF Goto
<1>3. x \in Request /\ ReqOK(x) /\ x.pc = "idle"
  BY <1>1, IdleOK
<1>4. Moved(p, x)
  BY <1>3, OthersOK DEF Moved, Frame
<1> QED BY <1>3, <1>2, <1>4, Becomes

\* The record of a request that starts.
LEMMA Begun ==
    ASSUME IInv, NEW p \in Requests, NEW u \in Users, NEW k \in Companies, NEW op, NEW pc,
           pc \in {"company", "insert", "revokePending", "account"}, op \in OpsAt(pc),
           Begin(p, pc, op, u, k), Frame,
           pc = "insert" => op # "found",
           pc \in {"company", "insert"} => account[u] = "verified",
           op \in Counted => HasFounder(k) /\ op # "accept" /\ Cardinality(Of(k)) < seats[k]
    PROVE  IInv'
<1>1. PICK x : x = [Idle EXCEPT !.pc = pc, !.op = op, !.user = u, !.company = k,
                                !.known = account[u], !.roles = roles[u]]
  OBVIOUS
<1>2. req' = [req EXCEPT ![p] = x]
  BY <1>1 DEF Begin
<1>3. account[u] \in {"none", "unverified", "verified"} /\ roles[u] \in SUBSET Roles
  BY DEF IInv, TypeOK
<1>4. /\ x.pc = pc /\ x.op = op /\ x.user = u /\ x.company = k /\ x.roles = roles[u] /\ x.row = 0
      /\ x = [pc |-> pc, op |-> op, user |-> u, company |-> k, known |-> account[u],
              roles |-> roles[u], row |-> 0, invitation |-> 0]
  BY <1>1 DEF Idle
<1>5. op \in {"found", "add", "invite", "accept", "provision"}
  BY OpsAtStage
<1>6. x \in Request
  BY <1>3, <1>4, <1>5, RecruiterAssumption DEF Request
<1>7. "company_admin" \in x.roles => IsFounder(u)
  BY <1>4 DEF IInv, AdminIsFounder, IsFounder
<1>8. ReqOK(x)
  BY <1>4, <1>5, <1>7, OpsAtStage DEF ReqOK, Counted, IInv, TypeOK
<1>9. Moved(p, x)
  BY <1>4, <1>6, <1>8, OthersOK DEF Moved, Frame
<1> QED BY <1>4, <1>2, <1>9, Becomes

---------------------------------------------------------------------------------
\* An administrator is the founder of the company he is attached to.
LEMMA AdminIsTheFounder ==
    ASSUME IInv, NEW u, NEW k, AdminOf(u, k), u \in Users
    PROVE  /\ HasFounder(k)
           /\ \A x \in recruiters : x.company = k /\ x.via = "found" => x.user = u
<1>1. PICK x \in recruiters : x.user = u /\ x.via = "found"
  BY DEF IInv, AdminIsFounder, AdminOf
<1>2. PICK y \in Of(k) : y.user = u
  BY DEF AdminOf
<1>3. x = y /\ x.company = k
  BY <1>1, <1>2 DEF IInv, OneCompanyPerUser, Of
<1> QED BY <1>1, <1>3 DEF IInv, Founders, HasFounder

LEMMA CreateCompanyStep ==
    ASSUME IInv, NEW p \in Requests, NEW u \in Users, NEW k \in Companies, createCompany(p, u, k)
    PROVE  IInv'
<1>1. Frame
  BY SameTables DEF createCompany
<1>2. Begin(p, "company", "found", u, k) /\ account[u] = "verified"
  BY DEF createCompany
<1> QED BY <1>1, <1>2, Begun, OpsAtStage DEF Counted

LEMMA AddRecruiterStep ==
    ASSUME IInv, NEW p \in Requests, NEW caller \in Users, NEW u \in Users, NEW k \in Companies,
           addRecruiter(p, caller, k, u)
    PROVE  IInv'
<1>1. Frame
  BY SameTables DEF addRecruiter
<1>2. Begin(p, "insert", "add", u, k) /\ account[u] = "verified" /\ Cardinality(Of(k)) < seats[k]
  BY DEF addRecruiter
<1>3. HasFounder(k)
  BY AdminIsTheFounder DEF addRecruiter
<1> QED BY <1>1, <1>2, <1>3, Begun, OpsAtStage DEF Counted

LEMMA InviteStep ==
    ASSUME IInv, NEW p \in Requests, NEW caller \in Users, NEW u \in Users, NEW k \in Companies,
           invite(p, caller, k, u)
    PROVE  IInv'
<1>1. Frame
  BY SameTables DEF invite
<1>2. HasFounder(k)
  BY AdminIsTheFounder DEF invite
<1>3. Cardinality(Of(k)) < seats[k]
  <2>1. Of(k) \subseteq recruiters /\ Pending(k) \subseteq Invitations
    BY DEF Of, Pending
  <2>2. Cardinality(Of(k)) \in Nat /\ Cardinality(Pending(k)) \in Nat /\ seats[k] \in Nat
    BY <2>1, Counting DEF IInv, TypeOK
  <2> QED BY <2>2 DEF invite
<1>4. CASE account[u] = "verified"
  <2>1. Begin(p, "insert", "invite", u, k)
    BY <1>4 DEF invite
  <2> QED BY <1>1, <1>2, <1>3, <1>4, <2>1, Begun, OpsAtStage DEF Counted
<1>5. CASE account[u] # "verified"
  <2>1. Begin(p, "revokePending", "invite", u, k)
    BY <1>5 DEF invite
  <2> QED BY <1>1, <1>2, <1>3, <2>1, Begun, OpsAtStage DEF Counted
<1> QED BY <1>4, <1>5

LEMMA CreateRecruiterStep ==
    ASSUME IInv, NEW p \in Requests, NEW u \in Users, NEW k \in Companies, createRecruiter(p, u, k)
    PROVE  IInv'
<1>1. Frame
  BY DEF IInv, TypeOK, Frame, Tables, AdminIsFounder, IsFounder, createRecruiter
<1>2. Begin(p, "account", "provision", u, k)
  BY DEF createRecruiter
<1> QED BY <1>1, <1>2, Begun, OpsAtStage DEF Counted

LEMMA AcceptStep ==
    ASSUME IInv, NEW p \in Requests, NEW n \in Invitations, accept(p, n)
    PROVE  IInv'
<1> DEFINE i == invitations[n]
<1>1. i.email \in Users /\ i.company \in Companies /\ HasFounder(i.company)
  BY DEF IInv, Founders, accept
<1>2. PICK x : x = [pc |-> "account", op |-> "accept", user |-> i.email, company |-> i.company,
                    known |-> account[i.email], roles |-> {}, row |-> 0, invitation |-> n]
  OBVIOUS
<1>3. req' = [req EXCEPT ![p] = x]
  BY <1>2 DEF accept
<1>4. x \in Request
  BY <1>1, <1>2, RecruiterAssumption DEF IInv, TypeOK, Request
<1>5. ReqOK(x)
  BY <1>1, <1>2, OpsAtStage DEF ReqOK, IInv, TypeOK
<1>6. Frame
  BY SameTables DEF accept
<1>7. Cardinality(Of(x.company)) < seats[x.company]
  BY <1>2 DEF accept
<1>8. Moved(p, x)
  BY <1>2, <1>4, <1>5, <1>6, <1>7, OthersOK DEF Moved, Frame
<1> QED BY <1>2, <1>3, <1>6, <1>8, Becomes

LEMMA RemoveStep ==
    ASSUME IInv, NEW p \in Requests, NEW caller \in Users, NEW r \in recruiters,
           removeRecruiter(p, caller, r)
    PROVE  IInv'
<1>1. PICK x : x = [Idle EXCEPT !.pc = "delete", !.op = "remove", !.user = r.user,
                                !.company = r.company, !.row = r.id]
  OBVIOUS
<1>2. req' = [req EXCEPT ![p] = x]
  BY <1>1 DEF removeRecruiter
<1>3. x = [pc |-> "delete", op |-> "remove", user |-> r.user, company |-> r.company, known |-> "none",
           roles |-> {}, row |-> r.id, invitation |-> 0]
  BY <1>1 DEF Idle
<1>4. r \in Row
  BY DEF IInv, TypeOK
<1>5. x \in Request
  BY <1>3, <1>4, RecruiterAssumption DEF Request, Row
<1>6. \A y \in recruiters : y.id = r.id => y.via # "found"
  <2> SUFFICES ASSUME NEW y \in recruiters, y.id = r.id, y.via = "found" PROVE FALSE
    OBVIOUS
  <2>1. y = r /\ r.user # caller /\ AdminOf(caller, r.company)
    BY DEF IInv, Founders, removeRecruiter
  <2> QED BY <2>1, AdminIsTheFounder
<1>7. ReqOK(x)
  BY <1>3, <1>4, <1>6, OpsAtStage DEF ReqOK, Row, IInv, Founders, Counted
<1>8. Frame
  BY SameTables DEF removeRecruiter
<1>9. Moved(p, x)
  BY <1>3, <1>5, <1>7, <1>8, OthersOK DEF Moved, Frame
<1> QED BY <1>3, <1>2, <1>8, <1>9, Becomes

---------------------------------------------------------------------------------
\* A request that goes on keeps what it has read.
LEMMA GoesOn ==
    ASSUME TypeOK, NEW p \in Requests, NEW pc, Goto(p, pc), pc # "idle",
           pc \in {"company", "subscribe", "revokePending", "invitation", "account", "insert",
                   "readRoles", "roles", "accepted", "delete"}
    PROVE  \E x \in Request :
             /\ req' = [req EXCEPT ![p] = x]
             /\ x.pc = pc /\ x.op = req[p].op /\ x.user = req[p].user /\ x.company = req[p].company
             /\ x.roles = req[p].roles /\ x.row = req[p].row /\ x.invitation = req[p].invitation
             /\ x.known = req[p].known
<1>1. req[p] \in Request
  BY DEF TypeOK
<1> DEFINE x == [req[p] EXCEPT !.pc = pc]
<1>2. x \in Request
  BY <1>1 DEF Request
<1>3. /\ x.pc = pc /\ x.op = req[p].op /\ x.user = req[p].user /\ x.company = req[p].company
      /\ x.roles = req[p].roles /\ x.row = req[p].row /\ x.invitation = req[p].invitation
      /\ x.known = req[p].known
  BY <1>1 DEF Request
<1>4. req' = [req EXCEPT ![p] = x]
  BY DEF Goto
<1> HIDE DEF x
<1> QED BY <1>2, <1>3, <1>4

LEMMA CrashStep ==
    ASSUME IInv, NEW p \in Requests, Crash(p)
    PROVE  IInv'
BY SameTables, ToIdle DEF Crash

LEMMA InsertCompanyStep ==
    ASSUME IInv, NEW p \in Requests, insertCompany(p)
    PROVE  IInv'
<1>1. ReqOK(req[p]) /\ req[p].op = "found" /\ req[p].company \in Companies
  BY OpsAtStage DEF IInv, RequestsOK, ReqOK, insertCompany
<1>2. CASE req[p].company \in companies
  BY <1>2, SameTables, ToIdle DEF insertCompany
<1>3. CASE req[p].company \notin companies
  <2>1. Goto(p, "insert")
    BY <1>3 DEF insertCompany
  <2>2. Frame
    BY <1>1, <1>3 DEF IInv, TypeOK, Frame, Tables, AdminIsFounder, IsFounder, insertCompany
  <2>3. PICK x \in Request :
          /\ req' = [req EXCEPT ![p] = x]
          /\ x.pc = "insert" /\ x.op = req[p].op /\ x.user = req[p].user
          /\ x.company = req[p].company /\ x.roles = req[p].roles /\ x.row = req[p].row
    BY <2>1, GoesOn DEF IInv
  <2>4. ~ HasFounder(x.company) /\ x.company \in companies'
    BY <1>3, <2>3 DEF IInv, Founders, HasFounder, insertCompany
  <2>5. x.user \in Users /\ account'[x.user] = "verified"
    BY <2>3 DEF IInv, RequestsOK, ReqOK, insertCompany
  <2>6. ReqOK(x)'
    <3>1. /\ x.op = "found" /\ x.op \in OpsAt("insert") /\ x.op \notin Counted
          /\ x.company \in Companies
      BY <1>1, <2>3, OpsAtStage DEF Counted
    <3>2. recruiters' = recruiters /\ lastId' = lastId
      BY <2>2 DEF Frame, Tables
    <3>3. (HasFounder(x.company)' <=> HasFounder(x.company)) /\ (IsFounder(x.user)' <=> IsFounder(x.user))
      BY <3>2 DEF HasFounder, IsFounder
    <3>4. x.row <= lastId' /\ ("company_admin" \in x.roles => IsFounder(x.user)')
      BY <1>1, <2>3, <3>2, <3>3 DEF ReqOK
    <3> QED BY <2>3, <2>4, <2>5, <3>1, <3>3, <3>4 DEF ReqOK
  <2>7. Moved(p, x)
    BY <1>1, <1>3, <2>3, <2>6 DEF Moved, Counted
  <2> QED BY <2>2, <2>3, <2>7, Becomes
<1> QED BY <1>2, <1>3

\* A request that goes on after a statement within the frame.
LEMMA Advance ==
    ASSUME IInv, Frame, NEW p \in Requests, NEW pc, Goto(p, pc),
           pc \in {"insert", "roles", "subscribe", "accepted"},
           req[p].op \in OpsAt(pc), req[p].op \in OpsAt(req[p].pc), req[p].pc # "idle",
           pc = "insert" => p \in Seating(req[p].company) \/ req[p].op = "provision",
           pc = "insert" => account'[req[p].user] = "verified",
           pc \in {"roles", "subscribe"} /\ req[p].op = "found" => req[p].pc = "roles"
    PROVE  IInv'
<1>1. PICK x \in Request :
        /\ req' = [req EXCEPT ![p] = x]
        /\ x.pc = pc /\ x.op = req[p].op /\ x.user = req[p].user /\ x.company = req[p].company
        /\ x.roles = req[p].roles /\ x.row = req[p].row /\ x.invitation = req[p].invitation
  BY GoesOn DEF IInv
<1>2. ReqOK(req[p])
  BY DEF IInv, RequestsOK
<1>3. pc = "insert" => x.op \notin {"found"}
  BY <1>1 DEF Seating
<1>4. \A u : IsFounder(u) => IsFounder(u)'
  BY DEF Frame, Tables, IsFounder
<1>5. \A k : HasFounder(k) => HasFounder(k)'
  BY DEF Frame, Tables, HasFounder
<1>6. ReqOK(x)'
  BY <1>1, <1>2, <1>3, <1>4, <1>5, OpsAtStage DEF ReqOK, Frame, Tables
<1>7. Moved(p, x)
  BY <1>1, <1>3, <1>6 DEF Moved, Counted
<1> QED BY <1>1, <1>7, Becomes

LEMMA InsertSubscriptionStep ==
    ASSUME IInv, NEW p \in Requests, insertSubscription(p)
    PROVE  IInv'
<1>1. req[p].company \in companies
  BY OpsAtStage DEF IInv, RequestsOK, ReqOK, insertSubscription
<1>2. Frame
  BY <1>1 DEF IInv, TypeOK, Frame, Tables, AdminIsFounder, IsFounder, insertSubscription
<1> QED BY <1>2, ToIdle DEF insertSubscription

LEMMA ProvideAccountStep ==
    ASSUME IInv, NEW p \in Requests, provideAccount(p)
    PROVE  IInv'
<1>1. /\ ReqOK(req[p]) /\ req[p].op \in {"accept", "provision"} /\ req[p].op \in OpsAt(req[p].pc)
      /\ req[p].user \in Users /\ req[p].company \in Companies
  BY OpsAtStage DEF IInv, RequestsOK, ReqOK, provideAccount
<1>2. Frame
  BY <1>1 DEF IInv, TypeOK, Frame, Tables, AdminIsFounder, IsFounder, Roles, provideAccount
<1>3. CASE Goto(p, "idle")
  BY <1>2, <1>3, ToIdle
<1>4. CASE Goto(p, "insert") /\ account' = [account EXCEPT ![req[p].user] = "verified"]
  <2>1. account'[req[p].user] = "verified"
    BY <1>1, <1>4 DEF IInv, TypeOK
  <2>2. p \in Seating(req[p].company) \/ req[p].op = "provision"
    BY <1>1 DEF Seating, provideAccount
  <2>3. req[p].op \in OpsAt("insert") /\ req[p].pc # "idle"
    BY <1>1, OpsAtStage DEF provideAccount
  <2> QED BY <1>1, <1>2, <1>4, <2>1, <2>2, <2>3, Advance
<1> QED BY <1>3, <1>4 DEF provideAccount

LEMMA ReadRolesStep ==
    ASSUME IInv, NEW p \in Requests, readRoles(p)
    PROVE  IInv'
<1>1. ReqOK(req[p]) /\ req[p] \in Request /\ req[p].op \in {"invite", "accept", "remove"}
  BY OpsAtStage DEF IInv, RequestsOK, ReqOK, TypeOK, readRoles
<1>2. PICK x : x = [req[p] EXCEPT !.pc = "roles", !.roles = roles[req[p].user]]
  OBVIOUS
<1>3. req' = [req EXCEPT ![p] = x]
  BY <1>2 DEF readRoles
<1>4. req[p].user \in Users /\ roles[req[p].user] \in SUBSET Roles
  BY <1>1 DEF ReqOK, readRoles, IInv, TypeOK
<1>5. /\ x.pc = "roles" /\ x.op = req[p].op /\ x.user = req[p].user /\ x.company = req[p].company
      /\ x.roles = roles[req[p].user] /\ x.row = req[p].row /\ x.invitation = req[p].invitation
  BY <1>1, <1>2 DEF Request
<1>6. x \in Request
  BY <1>1, <1>2, <1>4 DEF Request
<1>7. "company_admin" \in x.roles => IsFounder(x.user)
  BY <1>4, <1>5 DEF IInv, AdminIsFounder, IsFounder
<1>8. ReqOK(x)
  BY <1>1, <1>5, <1>7, OpsAtStage DEF ReqOK, readRoles
<1>9. Frame
  BY SameTables DEF readRoles
<1>10. Moved(p, x)
  BY <1>5, <1>6, <1>8, <1>9, OthersOK DEF Moved, Frame
<1> QED BY <1>5, <1>3, <1>9, <1>10, Becomes

LEMMA SaveRolesStep ==
    ASSUME IInv, NEW p \in Requests, saveRoles(p)
    PROVE  IInv'
<1>1. /\ ReqOK(req[p]) /\ req[p] \in Request /\ req[p].op \in {"found", "add", "invite", "accept", "remove"}
      /\ req[p].op \in OpsAt(req[p].pc) /\ req[p].pc # "idle" /\ req[p].user \in Users
  BY OpsAtStage DEF IInv, RequestsOK, ReqOK, TypeOK, saveRoles
<1> DEFINE new == NewRoles(req[p].op, req[p].roles)
<1>2. new \in SUBSET Roles /\ ("company_admin" \in new => IsFounder(req[p].user))
  <2>1. req[p].roles \in SUBSET Roles
    BY <1>1 DEF Request
  <2>2. "company_admin" \in new => req[p].op = "found" \/ "company_admin" \in req[p].roles
    BY <1>1 DEF NewRoles
  <2>3. new \in SUBSET Roles
    BY <1>1, <2>1 DEF NewRoles, Roles
  <2> QED BY <1>1, <2>2, <2>3 DEF ReqOK, saveRoles
<1>3. roles' = roles \/ roles' = [roles EXCEPT ![req[p].user] = new]
  BY DEF saveRoles
<1> HIDE DEF new
<1>4. Frame
  <2>1. roles' \in [Users -> SUBSET Roles] /\ \A u \in Users : "company_admin" \in roles'[u] => IsFounder(u)
    BY <1>1, <1>2, <1>3 DEF IInv, TypeOK, AdminIsFounder, IsFounder
  <2> QED BY <2>1 DEF IInv, TypeOK, Frame, Tables, saveRoles
<1>5. CASE req[p].op = "found"
  <2>1. Goto(p, "subscribe")
    BY <1>5, NextStage DEF saveRoles
  <2> QED BY <1>1, <1>4, <1>5, <2>1, Advance, OpsAtStage DEF saveRoles
<1>6. CASE req[p].op = "accept"
  <2>1. Goto(p, "accepted")
    BY <1>6, NextStage DEF saveRoles
  <2> QED BY <1>1, <1>4, <1>6, <2>1, Advance, OpsAtStage DEF saveRoles
<1>7. CASE req[p].op \in {"add", "invite", "remove"}
  <2>1. Goto(p, "idle")
    BY <1>7, NextStage DEF saveRoles
  <2> QED BY <1>4, <2>1, ToIdle
<1> QED BY <1>1, <1>5, <1>6, <1>7

LEMMA SaveAcceptedStep ==
    ASSUME IInv, NEW p \in Requests, saveAccepted(p)
    PROVE  IInv'
<1>1. req[p].invitation \in Invitations
  BY OpsAtStage DEF IInv, RequestsOK, ReqOK, saveAccepted
<1>2. Frame
  BY <1>1 DEF IInv, TypeOK, Frame, Tables, AdminIsFounder, IsFounder, saveAccepted
<1> QED BY <1>2, ToIdle DEF saveAccepted

LEMMA RevokePendingStep ==
    ASSUME IInv, NEW p \in Requests, revokePending(p)
    PROVE  IInv'
<1>1. /\ ReqOK(req[p]) /\ req[p].op = "invite" /\ req[p].user \in Users /\ req[p].company \in Companies
      /\ Goto(p, "invitation")
  BY OpsAtStage DEF IInv, RequestsOK, ReqOK, revokePending
<1>2. Frame
  BY DEF IInv, TypeOK, Frame, Tables, AdminIsFounder, IsFounder, revokePending
<1>3. PICK x \in Request :
        /\ req' = [req EXCEPT ![p] = x]
        /\ x.pc = "invitation" /\ x.op = req[p].op /\ x.user = req[p].user /\ x.company = req[p].company
        /\ x.roles = req[p].roles /\ x.row = req[p].row /\ x.invitation = req[p].invitation
  BY <1>1, GoesOn DEF IInv
<1>4. ReqOK(x)
  BY <1>1, <1>3, OpsAtStage DEF ReqOK, revokePending
<1>5. Moved(p, x)
  BY <1>2, <1>3, <1>4, OthersOK DEF Moved, Frame
<1>6. /\ req' \in [Requests -> Request] /\ req'[p] = x
      /\ \A q \in Requests : q # p => req'[q] = req[q]
  BY <1>3 DEF IInv, TypeOK
<1>7. InvitationsNotStacked'
  <2> SUFFICES ASSUME NEW u \in Users, NEW k \in Companies
               PROVE  Cardinality(OpenInvitations(u, k)') + Cardinality(Inviting(u, k)') <= Cardinality(Requests)
    BY DEF InvitationsNotStacked
  <2>1. CASE u = req[p].user /\ k = req[p].company
    <3>1. OpenInvitations(u, k)' = {}
      BY <2>1 DEF OpenInvitations, Pending, revokePending, IInv, TypeOK
    <3>2. Inviting(u, k)' \subseteq Requests
      BY DEF Inviting
    <3> QED BY <3>1, <3>2, Counting, FS_EmptySet
  <2>2. CASE ~ (u = req[p].user /\ k = req[p].company)
    <3>1. OpenInvitations(u, k)' \subseteq OpenInvitations(u, k) /\ OpenInvitations(u, k) \subseteq Invitations
      BY <1>2 DEF OpenInvitations, Pending, Frame
    <3>2. Inviting(u, k)' \subseteq Inviting(u, k) /\ Inviting(u, k) \subseteq Requests
      BY <1>3, <1>6, <2>2 DEF Inviting
    <3>3. Cardinality(OpenInvitations(u, k)) + Cardinality(Inviting(u, k)) <= Cardinality(Requests)
      BY DEF IInv, InvitationsNotStacked
    <3>4. /\ Cardinality(OpenInvitations(u, k)') <= Cardinality(OpenInvitations(u, k))
          /\ Cardinality(OpenInvitations(u, k)') \in Nat /\ Cardinality(OpenInvitations(u, k)) \in Nat
      BY <3>1, Counting
    <3>5. /\ Cardinality(Inviting(u, k)') <= Cardinality(Inviting(u, k))
          /\ Cardinality(Inviting(u, k)') \in Nat /\ Cardinality(Inviting(u, k)) \in Nat
          /\ Cardinality(Requests) \in Nat
      BY <3>2, Counting
    <3> QED BY <3>3, <3>4, <3>5
  <2> QED BY <2>1, <2>2
<1>8. Tables
  BY <1>2 DEF Frame
<1> QED BY <1>5, <1>6, <1>7, <1>8, AllButInvitations DEF IInv

LEMMA InsertInvitationStep ==
    ASSUME IInv, NEW p \in Requests, insertInvitation(p)
    PROVE  IInv'
<1>1. /\ ReqOK(req[p]) /\ req[p].op = "invite" /\ req[p].user \in Users /\ req[p].company \in Companies
      /\ HasFounder(req[p].company) /\ req[p].pc = "invitation"
  BY OpsAtStage DEF IInv, RequestsOK, ReqOK, insertInvitation, Counted
<1>2. PICK n \in Invitations :
        /\ invitations[n].status = "none"
        /\ invitations' = [invitations EXCEPT ![n] =
                             [status |-> "pending", email |-> req[p].user, company |-> req[p].company]]
  BY DEF insertInvitation
<1>3. PICK x : x = Idle
  OBVIOUS
<1>4. /\ req' \in [Requests -> Request] /\ req'[p] = x /\ x.pc = "idle" /\ x \in Request
      /\ \A q \in Requests : q # p => req'[q] = req[q]
  BY <1>3, IdleOK DEF IInv, TypeOK, insertInvitation, Goto
<1>5. Tables
  BY <1>1, <1>2 DEF IInv, TypeOK, Tables, AdminIsFounder, IsFounder, insertInvitation
<1>6. Moved(p, x)
  BY <1>3, <1>4, <1>5, IdleOK, OthersOK DEF Moved
<1>7. InvitationsNotStacked'
  <2> SUFFICES ASSUME NEW u \in Users, NEW k \in Companies
               PROVE  Cardinality(OpenInvitations(u, k)') + Cardinality(Inviting(u, k)') <= Cardinality(Requests)
    BY DEF InvitationsNotStacked
  <2>1. /\ OpenInvitations(u, k) \subseteq Invitations /\ Inviting(u, k) \subseteq Requests
        /\ IsFiniteSet(Invitations) /\ IsFiniteSet(Requests)
    BY RecruiterAssumption DEF OpenInvitations, Pending, Inviting
  <2>2. /\ Cardinality(OpenInvitations(u, k)) + Cardinality(Inviting(u, k)) <= Cardinality(Requests)
        /\ Cardinality(OpenInvitations(u, k)) \in Nat /\ Cardinality(Inviting(u, k)) \in Nat
        /\ Cardinality(Requests) \in Nat
        /\ IsFiniteSet(OpenInvitations(u, k)) /\ IsFiniteSet(Inviting(u, k))
    BY <2>1, Counting, FS_Subset DEF IInv, InvitationsNotStacked
  <2>3. CASE u = req[p].user /\ k = req[p].company
    <3>1. OpenInvitations(u, k)' = OpenInvitations(u, k) \cup {n} /\ n \notin OpenInvitations(u, k)
      BY <1>2, <2>3 DEF OpenInvitations, Pending, IInv, TypeOK
    <3>2. Inviting(u, k)' = Inviting(u, k) \ {p} /\ p \in Inviting(u, k)
      BY <1>1, <1>4, <2>3 DEF Inviting
    <3>3. Cardinality(OpenInvitations(u, k)') = Cardinality(OpenInvitations(u, k)) + 1
      BY <2>2, <3>1, FS_AddElement
    <3>4. Cardinality(Inviting(u, k)') = Cardinality(Inviting(u, k)) - 1
      BY <2>2, <3>2, FS_RemoveElement
    <3> QED BY <2>2, <3>3, <3>4
  <2>4. CASE ~ (u = req[p].user /\ k = req[p].company)
    <3>1. OpenInvitations(u, k)' = OpenInvitations(u, k)
      BY <1>2, <2>4 DEF OpenInvitations, Pending, IInv, TypeOK
    <3>2. Inviting(u, k)' = Inviting(u, k)
      BY <1>1, <1>4, <2>4 DEF Inviting
    <3> QED BY <2>2, <3>1, <3>2
  <2> QED BY <2>3, <2>4
<1> QED BY <1>4, <1>5, <1>6, <1>7, AllButInvitations DEF IInv

---------------------------------------------------------------------------------
LEMMA InsertRecruiterStep ==
    ASSUME IInv, NEW p \in Requests, insertRecruiter(p)
    PROVE  IInv'
<1>0. PICK r : r = [id |-> lastId + 1, user |-> req[p].user, company |-> req[p].company, via |-> req[p].op]
  OBVIOUS
<1>1. /\ ReqOK(req[p]) /\ req[p] \in Request /\ req[p].pc = "insert"
      /\ req[p].op \in {"found", "add", "invite", "accept", "provision"}
      /\ req[p].user \in Users /\ req[p].company \in Companies /\ account[req[p].user] = "verified"
  BY OpsAtStage DEF IInv, RequestsOK, ReqOK, TypeOK, insertRecruiter
<1>2. CASE ~ UniqueUser(req[p].user)
  BY <1>2, SameTables, ToIdle DEF insertRecruiter
<1>3. CASE UniqueUser(req[p].user)
  <2>1. /\ lastId < MaxRows /\ lastId' = lastId + 1 /\ recruiters' = recruiters \cup {r}
        /\ Goto(p, AfterInsert(req[p].op))
        /\ UNCHANGED <<account, roles, companies, subscribed, seats, invitations>>
        /\ lastId \in Nat
    BY <1>0, <1>3 DEF insertRecruiter, IInv, TypeOK
  <2>2. /\ r \in Row /\ r.user = req[p].user /\ r.company = req[p].company /\ r.via = req[p].op
        /\ r.id = lastId + 1
    BY <1>0, <1>1, <2>1, RecruiterAssumption DEF Row
  <2>3. \A y \in recruiters : y.user # r.user /\ y.id < r.id
    BY <1>3, <2>1, <2>2 DEF UniqueUser, Attached, IInv, Founders, TypeOK, Row
  <2>4. PICK x \in Request :
          /\ req' = [req EXCEPT ![p] = x]
          /\ \/ x = Idle
             \/ /\ x.pc \in {"roles", "readRoles"} /\ x.op = req[p].op /\ x.op \in OpsAt(x.pc)
                /\ x.pc = "readRoles" => x.op # "found"
                /\ x.user = req[p].user /\ x.company = req[p].company
                /\ x.roles = req[p].roles /\ x.row = req[p].row /\ x.invitation = req[p].invitation
    <3>1. CASE req[p].op = "provision"
      BY <2>1, <3>1, NextStage, IdleOK DEF Goto
    <3>2. CASE req[p].op # "provision"
      <4>1. /\ AfterInsert(req[p].op) \in {"roles", "readRoles"}
            /\ req[p].op \in OpsAt(AfterInsert(req[p].op))
            /\ AfterInsert(req[p].op) = "readRoles" => req[p].op # "found"
        BY <1>1, <3>2, NextStage, OpsAtStage
      <4> QED BY <2>1, <4>1, GoesOn DEF IInv
    <3> QED BY <3>1, <3>2
  <2>5. /\ req' \in [Requests -> Request] /\ req'[p] = x /\ x.pc \in {"idle", "roles", "readRoles"}
        /\ \A q \in Requests : q # p => req'[q] = req[q]
    BY <2>4, IdleOK DEF IInv, TypeOK
  <2>6. \A u : IsFounder(u) => IsFounder(u)'
    BY <2>1 DEF IsFounder
  <2>7. \A k : HasFounder(k) => HasFounder(k)'
    BY <2>1 DEF HasFounder
  <2>8. TypeOK'
    BY <2>1, <2>2, <2>5, RecruiterAssumption DEF IInv, TypeOK
  <2>9. IsFiniteSet(recruiters)'
    BY <2>1, FS_AddElement DEF IInv
  <2>10. RequestsOK'
    <3> SUFFICES ASSUME NEW q \in Requests PROVE ReqOK(req[q])'
      BY DEF RequestsOK
    <3>1. CASE q # p
      <4>1. ReqOK(req[q]) /\ req[q] \in Request /\ req'[q] = req[q]
        BY <2>5, <3>1 DEF IInv, RequestsOK, TypeOK
      <4>2. req[q].pc = "insert" /\ req[q].op = "found" => ~ HasFounder(req[q].company)'
        BY <1>1, <2>1, <2>2, <3>1, <4>1 DEF IInv, FoundsAlone, HasFounder, ReqOK
      <4>3. req[q].row \in Nat /\ req[q].row <= lastId
        BY <4>1, RecruiterAssumption DEF Request, ReqOK
      <4>4. req[q].pc = "delete" => \A y \in recruiters' : y.id = req[q].row => y.via # "found"
        BY <2>1, <2>2, <4>1, <4>3 DEF ReqOK
      <4> QED BY <2>1, <2>6, <2>7, <4>1, <4>2, <4>3, <4>4 DEF ReqOK
    <3>2. CASE q = p
      <4>1. CASE x = Idle
        BY <2>1, <2>5, <3>2, <4>1, OpsAtStage, IdleOK DEF ReqOK, Idle, Counted
      <4>2. CASE x # Idle
        <5>1. req[p].row \in Nat
          BY <1>1, RecruiterAssumption DEF Request
        <5>2. req[p].op = "found" => IsFounder(r.user)'
          BY <2>1, <2>2 DEF IsFounder
        <5>3. /\ x.pc \in {"roles", "readRoles"} /\ x.op = req[p].op /\ x.op \in OpsAt(x.pc)
              /\ x.user = req[p].user /\ x.company = req[p].company
              /\ x.roles = req[p].roles /\ x.row = req[p].row /\ x.invitation = req[p].invitation
          BY <2>4, <4>2
        <5>4. ReqOK(x)'
          BY <1>1, <2>1, <2>2, <2>6, <2>7, <5>1, <5>2, <5>3 DEF ReqOK
        <5> QED BY <2>5, <3>2, <5>4 DEF ReqOK
      <4> QED BY <4>1, <4>2
    <3> QED BY <3>1, <3>2
  <2>11. FoundsAlone'
    BY <2>5 DEF IInv, FoundsAlone
  <2>12. Founders'
    <3>1. (\A y \in recruiters : y.id <= lastId)'
      BY <2>1, <2>2, <2>3 DEF IInv, TypeOK, Row, Founders
    <3>2. (\A y, z \in recruiters : y.id = z.id => y = z)'
      BY <2>1, <2>2, <2>3 DEF IInv, TypeOK, Row, Founders
    <3>3. (\A y, z \in recruiters : y.via = "found" /\ z.via = "found" /\ y.company = z.company => y = z)'
      BY <1>1, <2>1, <2>2 DEF IInv, Founders, ReqOK, HasFounder
    <3>4. (\A y \in recruiters : y.via = "found" => y.company \in companies)'
      BY <1>1, <2>1, <2>2 DEF IInv, Founders, ReqOK
    <3>5. (\A y \in recruiters : y.via # "provision" => HasFounder(y.company))'
      <4>1. r.via # "provision" => HasFounder(r.company)'
        <5>1. CASE r.via = "found"
          BY <2>1, <5>1 DEF HasFounder
        <5>2. CASE r.via \in Counted
          BY <1>1, <2>2, <2>7, <5>2 DEF ReqOK
        <5> QED BY <1>1, <2>2, <5>1, <5>2 DEF Counted
      <4> QED BY <2>1, <2>7, <4>1 DEF IInv, Founders
    <3> QED BY <2>1, <2>7, <3>1, <3>2, <3>3, <3>4, <3>5 DEF IInv, Founders
  <2>13. (OneCompanyPerUser /\ RecruiterIsVerified /\ AdminIsFounder)'
    BY <1>1, <2>1, <2>2, <2>3 DEF IInv, OneCompanyPerUser, RecruiterIsVerified, AdminIsFounder
  <2>14. SeatsWithinRace'
    <3> SUFFICES ASSUME NEW k \in Companies
                 PROVE  Cardinality(Seated(k)') + Cardinality(Seating(k)') + 1 <= seats[k] + Cardinality(Requests)
      BY <2>1 DEF SeatsWithinRace
    <3>1. /\ Seated(k) \subseteq recruiters /\ Seating(k) \subseteq Requests
          /\ IsFiniteSet(recruiters) /\ IsFiniteSet(Requests)
      BY RecruiterAssumption DEF IInv, Seated, Of, Seating
    <3>2. /\ Cardinality(Seated(k)) + Cardinality(Seating(k)) + 1 <= seats[k] + Cardinality(Requests)
          /\ Cardinality(Seated(k)) \in Nat /\ Cardinality(Seating(k)) \in Nat
          /\ Cardinality(Requests) \in Nat /\ seats[k] \in Nat \ {0}
          /\ IsFiniteSet(Seated(k)) /\ IsFiniteSet(Seating(k))
      BY <3>1, Counting, FS_Subset DEF IInv, SeatsWithinRace, TypeOK
    <3>3. Seating(k)' = Seating(k) \ {p}
      BY <2>5 DEF Seating
    <3>4. Cardinality(Seating(k)') = Cardinality(Seating(k)) - (IF p \in Seating(k) THEN 1 ELSE 0)
      <4>1. CASE p \in Seating(k)
        <5>1. Cardinality(Seating(k) \ {p}) = Cardinality(Seating(k)) - 1
          BY <3>2, <4>1, FS_RemoveElement
        <5> QED BY <3>3, <4>1, <5>1
      <4>2. CASE p \notin Seating(k)
        <5>1. Seating(k)' = Seating(k)
          BY <3>3, <4>2
        <5> QED BY <3>2, <4>2, <5>1
      <4> QED BY <4>1, <4>2
    <3>5. CASE k # r.company \/ r.via = "provision"
      <4>1. Seated(k)' = Seated(k)
        BY <2>1, <3>5 DEF Seated, Of
      <4> QED BY <3>2, <3>4, <4>1
    <3>6. CASE k = r.company /\ r.via \in Counted
      <4>1. Seated(k)' = Seated(k) \cup {r} /\ r \notin Seated(k)
        BY <2>1, <2>3, <3>6 DEF Seated, Of, Counted
      <4>2. p \in Seating(k)
        BY <1>1, <2>2, <3>6 DEF Seating, Counted
      <4>3. Cardinality(Seated(k)') = Cardinality(Seated(k)) + 1
        BY <3>2, <4>1, FS_AddElement
      <4> QED BY <3>2, <3>4, <4>2, <4>3
    <3>7. CASE k = r.company /\ r.via = "found"
      <4>1. Seated(k) = {}
        BY <1>1, <2>2, <3>7 DEF Seated, Of, IInv, Founders, ReqOK
      <4>2. Seated(k)' = Seated(k) \cup {r} /\ r \notin Seated(k)
        BY <2>1, <2>3, <3>7 DEF Seated, Of
      <4>3. Cardinality(Seated(k)') = 1
        <5>1. Seated(k)' = {r}
          BY <4>1, <4>2
        <5> QED BY <5>1, FS_Singleton
      <4>4. Seating(k)' \subseteq Requests \ {p}
        BY <3>1, <3>3
      <4>5. Cardinality(Requests \ {p}) = Cardinality(Requests) - 1 /\ IsFiniteSet(Requests \ {p})
        BY <3>1, FS_RemoveElement
      <4>6. Cardinality(Seating(k)') <= Cardinality(Requests) - 1 /\ Cardinality(Seating(k)') \in Nat
        BY <4>4, <4>5, FS_Subset, FS_CardinalityType
      <4> QED BY <3>2, <4>3, <4>6
    <3> QED BY <1>1, <2>2, <3>5, <3>6, <3>7 DEF Counted
  <2>15. InvitationsNotStacked'
    BY <2>1, <2>5, InvitationsKept
  <2> QED BY <2>8, <2>9, <2>10, <2>11, <2>12, <2>13, <2>14, <2>15 DEF IInv
<1> QED BY <1>2, <1>3

LEMMA DeleteRecruiterStep ==
    ASSUME IInv, NEW p \in Requests, deleteRecruiter(p)
    PROVE  IInv' /\ \A y \in recruiters : y.via = "found" => y \in recruiters'
<1>1. /\ ReqOK(req[p]) /\ req[p].pc = "delete" /\ req[p].op = "remove"
      /\ Goto(p, "readRoles")
      /\ UNCHANGED <<account, roles, companies, subscribed, seats, lastId, invitations>>
  BY OpsAtStage DEF IInv, RequestsOK, ReqOK, deleteRecruiter
<1>2. /\ recruiters' \subseteq recruiters
      /\ \A y \in recruiters : y.via = "found" => y \in recruiters'
  BY <1>1 DEF deleteRecruiter, ReqOK
<1>3. PICK x \in Request :
        /\ req' = [req EXCEPT ![p] = x]
        /\ x.pc = "readRoles" /\ x.op = req[p].op /\ x.user = req[p].user /\ x.company = req[p].company
        /\ x.roles = req[p].roles /\ x.row = req[p].row /\ x.invitation = req[p].invitation
  BY <1>1, GoesOn DEF IInv
<1>4. /\ req' \in [Requests -> Request] /\ req'[p] = x
      /\ \A q \in Requests : q # p => req'[q] = req[q]
  BY <1>3 DEF IInv, TypeOK
<1>5. \A u : IsFounder(u) <=> IsFounder(u)'
  BY <1>2 DEF IsFounder
<1>6. \A k : HasFounder(k) <=> HasFounder(k)'
  BY <1>2 DEF HasFounder
<1>7. TypeOK' /\ IsFiniteSet(recruiters)'
  BY <1>1, <1>2, <1>4, FS_Subset DEF IInv, TypeOK
<1>8. RequestsOK'
  <2> SUFFICES ASSUME NEW q \in Requests PROVE ReqOK(req[q])'
    BY DEF RequestsOK
  <2>1. ReqOK(req[q])
    BY DEF IInv, RequestsOK
  <2>2. CASE q # p
    BY <1>1, <1>2, <1>4, <1>5, <1>6, <2>1, <2>2 DEF ReqOK
  <2>3. CASE q = p
    <3>1. ReqOK(x)'
      BY <1>1, <1>3, <1>5, <1>6, OpsAtStage DEF ReqOK, Counted
    <3> QED BY <1>4, <2>3, <3>1 DEF ReqOK
  <2> QED BY <2>2, <2>3
<1>9. FoundsAlone'
  BY <1>3, <1>4 DEF IInv, FoundsAlone
<1>10. Founders'
  BY <1>1, <1>2, <1>6 DEF IInv, Founders
<1>11. (OneCompanyPerUser /\ RecruiterIsVerified /\ AdminIsFounder)'
  BY <1>1, <1>2, <1>5 DEF IInv, OneCompanyPerUser, RecruiterIsVerified, AdminIsFounder, IsFounder
<1>12. SeatsWithinRace'
  <2> SUFFICES ASSUME NEW k \in Companies
               PROVE  Cardinality(Seated(k)') + Cardinality(Seating(k)') + 1 <= seats[k] + Cardinality(Requests)
    BY <1>1 DEF SeatsWithinRace
  <2>1. Seated(k)' \subseteq Seated(k) /\ Seated(k) \subseteq recruiters
    BY <1>2 DEF Seated, Of
  <2>2. Seating(k)' \subseteq Seating(k) /\ Seating(k) \subseteq Requests
    BY <1>3, <1>4 DEF Seating
  <2>3. /\ Cardinality(Seated(k)') <= Cardinality(Seated(k))
        /\ Cardinality(Seated(k)') \in Nat /\ Cardinality(Seated(k)) \in Nat
    BY <2>1, Counting
  <2>4. /\ Cardinality(Seating(k)') <= Cardinality(Seating(k))
        /\ Cardinality(Seating(k)') \in Nat /\ Cardinality(Seating(k)) \in Nat
        /\ Cardinality(Requests) \in Nat
    BY <2>2, Counting
  <2>5. Cardinality(Seated(k)) + Cardinality(Seating(k)) + 1 <= seats[k] + Cardinality(Requests) /\ seats[k] \in Nat
    BY DEF IInv, SeatsWithinRace, TypeOK
  <2> QED BY <2>3, <2>4, <2>5
<1>13. InvitationsNotStacked'
  BY <1>1, <1>3, <1>4, InvitationsKept
<1> QED BY <1>2, <1>7, <1>8, <1>9, <1>10, <1>11, <1>12, <1>13 DEF IInv

---------------------------------------------------------------------------------
LEMMA InitIInv == Init => IInv
<1> SUFFICES ASSUME Init PROVE IInv
  OBVIOUS
<1>1. TypeOK /\ recruiters = {}
  BY IdleOK, RecruiterAssumption DEF Init, TypeOK
<1>2. IsFiniteSet(recruiters) /\ Cardinality(recruiters) = 0 /\ IsFiniteSet(Requests)
  BY <1>1, FS_EmptySet, RecruiterAssumption
<1>3. RequestsOK /\ FoundsAlone
  <2>1. \A p \in Requests : req[p] = Idle
    BY DEF Init
  <2>2. lastId = 0
    BY DEF Init
  <2> QED BY <2>1, <2>2, OpsAtStage DEF RequestsOK, ReqOK, FoundsAlone, Idle, Counted
<1>4. Founders /\ OneCompanyPerUser /\ RecruiterIsVerified /\ AdminIsFounder
  BY DEF Init, Founders, OneCompanyPerUser, RecruiterIsVerified, AdminIsFounder
<1>5. Cardinality({}) = 0 /\ Cardinality(Requests) \in Nat
  BY <1>2, FS_EmptySet, FS_CardinalityType
<1>6. SeatsWithinRace
  <2>1. \A k \in Companies : Seated(k) = {} /\ Seating(k) = {} /\ seats[k] = 1
    BY DEF Init, Seated, Of, Seating, Idle
  <2>2. \A k \in Companies : Cardinality(Seated(k)) = 0 /\ Cardinality(Seating(k)) = 0 /\ seats[k] = 1
    BY <1>5, <2>1
  <2> QED BY <1>5, <2>2 DEF SeatsWithinRace
<1>7. InvitationsNotStacked
  <2>1. \A u \in Users, k \in Companies : OpenInvitations(u, k) = {} /\ Inviting(u, k) = {}
    BY DEF Init, OpenInvitations, Pending, Inviting, Idle
  <2> QED BY <1>5, <2>1 DEF InvitationsNotStacked
<1> QED BY <1>1, <1>2, <1>3, <1>4, <1>6, <1>7 DEF IInv

\* Every step keeps the invariant and every founder.
LEMMA NextIInv ==
    ASSUME IInv, [Next]_vars
    PROVE  IInv' /\ \A x \in recruiters : x.via = "found" => x \in recruiters'
<1>1. CASE UNCHANGED vars
  <2>1. Frame /\ req' = req
    BY <1>1, SameTables DEF vars
  <2> QED BY <1>1, <2>1, Still DEF vars
<1>2. ASSUME NEW u \in Users, register(u) \/ verifyEmail(u)
      PROVE  IInv' /\ recruiters' = recruiters
  BY <1>2, UserSteps DEF register, verifyEmail
<1>3. ASSUME NEW k \in Companies, Upgrade(k)
      PROVE  IInv' /\ recruiters' = recruiters
  BY <1>3, UpgradeStep DEF Upgrade
<1>4. ASSUME NEW n \in Invitations, Expire(n) \/ revoke(n)
      PROVE  IInv' /\ recruiters' = recruiters
  BY <1>4, InvitationSteps DEF Expire, revoke
<1>5. ASSUME NEW n \in Invitations, NEW p \in Requests, accept(p, n)
      PROVE  IInv' /\ recruiters' = recruiters
  BY <1>5, AcceptStep DEF accept
<1>6. ASSUME NEW p \in Requests, Step(p)
      PROVE  IInv' /\ \A x \in recruiters : x.via = "found" => x \in recruiters'
  <2>1. CASE insertCompany(p) \/ insertSubscription(p) \/ revokePending(p) \/ insertInvitation(p)
    BY <2>1, InsertCompanyStep, InsertSubscriptionStep, RevokePendingStep, InsertInvitationStep
       DEF insertCompany, insertSubscription, revokePending, insertInvitation
  <2>2. CASE provideAccount(p) \/ readRoles(p) \/ saveRoles(p) \/ saveAccepted(p)
    BY <2>2, ProvideAccountStep, ReadRolesStep, SaveRolesStep, SaveAcceptedStep
       DEF provideAccount, readRoles, saveRoles, saveAccepted
  <2>3. CASE insertRecruiter(p)
    BY <2>3, InsertRecruiterStep DEF insertRecruiter
  <2>4. CASE deleteRecruiter(p)
    BY <2>4, DeleteRecruiterStep
  <2> QED BY <1>6, <2>1, <2>2, <2>3, <2>4 DEF Step
<1>7. ASSUME NEW p \in Requests, Crash(p)
      PROVE  IInv' /\ recruiters' = recruiters
  BY <1>7, CrashStep DEF Crash
<1>8. ASSUME NEW p \in Requests, NEW u \in Users, NEW k \in Companies,
             createCompany(p, u, k) \/ createRecruiter(p, u, k)
      PROVE  IInv' /\ recruiters' = recruiters
  BY <1>8, CreateCompanyStep, CreateRecruiterStep DEF createCompany, createRecruiter
<1>9. ASSUME NEW p \in Requests, NEW u \in Users, NEW k \in Companies, NEW caller \in Users,
             addRecruiter(p, caller, k, u) \/ invite(p, caller, k, u)
      PROVE  IInv' /\ recruiters' = recruiters
  BY <1>9, AddRecruiterStep, InviteStep DEF addRecruiter, invite
<1>10. ASSUME NEW p \in Requests, NEW caller \in Users, NEW x \in recruiters, removeRecruiter(p, caller, x)
       PROVE  IInv' /\ recruiters' = recruiters
  BY <1>10, RemoveStep DEF removeRecruiter
<1> QED BY <1>1, <1>2, <1>3, <1>4, <1>5, <1>6, <1>7, <1>8, <1>9, <1>10 DEF Next

THEOREM Invariance == Spec => []IInv
BY InitIInv, NextIInv, PTL DEF Spec

\* Every variable keeps its type.
THEOREM Typed == Spec => []TypeOK
<1>1. IInv => TypeOK
  BY DEF IInv
<1> QED BY <1>1, Invariance, PTL

\* However the ways of attaching a user race (an invitation accepted twice, an invitation
\* and an administrator's addition), he belongs to one company at most.
THEOREM OneAttachment == Spec => []OneCompanyPerUser
<1>1. IInv => OneCompanyPerUser
  BY DEF IInv
<1> QED BY <1>1, Invariance, PTL

\* Whoever is attached to a company, by whatever way, has a verified address.
THEOREM RecruitersVerified == Spec => []RecruiterIsVerified
<1>1. IInv => RecruiterIsVerified
  BY DEF IInv
<1> QED BY <1>1, Invariance, PTL

\* The seats of a company are exceeded by at most the requests that counted them at the
\* same moment, less one.
THEOREM SeatsBounded == Spec => []SeatsWithinRace
<1>1. IInv => SeatsWithinRace
  BY DEF IInv
<1> QED BY <1>1, Invariance, PTL

\* The open invitations of an address are at most the requests that can send one at the
\* same moment.
THEOREM InvitationsBounded == Spec => []InvitationsNotStacked
<1>1. IInv => InvitationsNotStacked
  BY DEF IInv
<1> QED BY <1>1, Invariance, PTL

\* Nobody but the founder of a company is its administrator.
THEOREM Administrators == Spec => []AdminIsFounder
<1>1. IInv => AdminIsFounder
  BY DEF IInv
<1> QED BY <1>1, Invariance, PTL

\* A founder is never removed.
THEOREM FoundersStay == Spec => FounderStays
<1>1. IInv /\ [Next]_vars => [\A x \in recruiters : x.via = "found" => x \in recruiters']_vars
  BY NextIInv
<1> QED BY <1>1, Invariance, PTL DEF Spec, FounderStays
=================================================================================
