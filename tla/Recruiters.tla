-------------------------------- MODULE Recruiters --------------------------------
(***************************************************************************)
(* Who belongs to a company: its creation, the seats of its plan, direct   *)
(* additions, invitations, removals and the recruiters an operator         *)
(* provisions.                                                             *)
(*                                                                         *)
(* No handler here has a transaction.  Each reads what it needs, judges    *)
(* it, and then writes row after row, every write committed by itself; two *)
(* requests may do so at the same time and a request may die between two   *)
(* writes.  What the database enforces is the uniqueness of users.email,   *)
(* companies.ice and recruiters.user_id.  users.roles is written as a      *)
(* whole, from the roles that were read before.                            *)
(***************************************************************************)
EXTENDS Naturals, FiniteSets

CONSTANTS
    Users,         \* people, each with one email address
    Companies,
    Nobody,        \* neither a user nor a company
    Invitations,   \* bound: invitations ever sent
    Requests,      \* requests in flight at once
    MaxSeats,      \* bound: seats of the largest plan
    MaxRows        \* bound: rows of recruiters ever inserted

ASSUME RecruiterAssumption ==
    /\ Nobody \notin Users \cup Companies
    /\ IsFiniteSet(Requests) /\ IsFiniteSet(Invitations)
    /\ MaxSeats \in Nat /\ MaxRows \in Nat

VARIABLES
    account,       \* account[u]: none, unverified or verified
    roles,         \* roles[u]: users.roles, without CANDIDATE
    companies,     \* rows of companies
    subscribed,    \* companies whose trial subscription is inserted
    seats,         \* seats[k]: the largest getSeatLimit company k has had
    recruiters,    \* rows of recruiters
    lastId,        \* the last row's id
    invitations,   \* invitations[n]: the row and its status
    req            \* req[p]: where request p stands and what it has read

vars == <<account, roles, companies, subscribed, seats, recruiters, lastId, invitations, req>>

Roles == {"recruiter", "company_admin"}

Idle == [pc |-> "idle", op |-> "none", user |-> Nobody, company |-> Nobody, known |-> "none",
         roles |-> {}, row |-> 0, invitation |-> 0]

Init ==
    /\ account = [u \in Users |-> "none"]
    /\ roles = [u \in Users |-> {}]
    /\ companies = {}
    /\ subscribed = {}
    /\ seats = [k \in Companies |-> 1]
    /\ recruiters = {}
    /\ lastId = 0
    /\ invitations = [n \in Invitations |-> [status |-> "none", email |-> Nobody, company |-> Nobody]]
    /\ req = [p \in Requests |-> Idle]

---------------------------------------------------------------------------------
\* A user registers himself (as a candidate) and confirms his address.
register(u) ==
    /\ account[u] = "none"
    /\ account' = [account EXCEPT ![u] = "unverified"]
    /\ UNCHANGED <<roles, companies, subscribed, seats, recruiters, lastId, invitations, req>>

verifyEmail(u) ==
    /\ account[u] = "unverified"
    /\ account' = [account EXCEPT ![u] = "verified"]
    /\ UNCHANGED <<roles, companies, subscribed, seats, recruiters, lastId, invitations, req>>

\* A larger plan (module Subscriptions); a trial is STARTER, with one seat.  A smaller plan
\* removes nobody and lets the checks below refuse more: behaviours that are here already.
Upgrade(k) ==
    /\ k \in subscribed
    /\ seats[k] < MaxSeats
    /\ seats' = [seats EXCEPT ![k] = @ + 1]
    /\ UNCHANGED <<account, roles, companies, subscribed, recruiters, lastId, invitations, req>>

---------------------------------------------------------------------------------
Attached(u)  == \E x \in recruiters : x.user = u
Of(k)        == {x \in recruiters : x.company = k}
Pending(k)   == {n \in Invitations : invitations[n].status = "pending" /\ invitations[n].company = k}

\* The callers' endpoints are for COMPANY_ADMIN; resolveCompanyId needs the row.
AdminOf(u, k) == "company_admin" \in roles[u] /\ \E x \in Of(k) : x.user = u

\* A request that has passed its checks.
Begin(p, pc, op, u, k) ==
    /\ req[p].pc = "idle"
    /\ req' = [req EXCEPT ![p] = [Idle EXCEPT !.pc = pc, !.op = op, !.user = u, !.company = k,
                                              !.known = account[u], !.roles = roles[u]]]

Goto(p, pc) == req' = [req EXCEPT ![p] = IF pc = "idle" THEN Idle ELSE [@ EXCEPT !.pc = pc]]

\* company.service.ts: createCompany
createCompany(p, u, k) ==
    /\ account[u] = "verified"
    /\ ~ Attached(u)
    /\ k \notin companies
    /\ Begin(p, "company", "found", u, k)
    /\ UNCHANGED <<account, roles, companies, subscribed, seats, recruiters, lastId, invitations>>

insertCompany(p) ==
    /\ req[p].pc = "company"
    /\ IF req[p].company \in companies
         THEN Goto(p, "idle") /\ UNCHANGED companies
         ELSE Goto(p, "insert") /\ companies' = companies \cup {req[p].company}
    /\ UNCHANGED <<account, roles, subscribed, seats, recruiters, lastId, invitations>>

\* The STARTER trial, the last write of createCompany.
insertSubscription(p) ==
    /\ req[p].pc = "subscribe"
    /\ subscribed' = subscribed \cup {req[p].company}
    /\ Goto(p, "idle")
    /\ UNCHANGED <<account, roles, companies, seats, recruiters, lastId, invitations>>

\* recruiter.service.ts: addRecruiter.  Only recruiters count, not invitations.
addRecruiter(p, caller, k, u) ==
    /\ AdminOf(caller, k)
    /\ Cardinality(Of(k)) < seats[k]
    /\ account[u] = "verified"
    /\ ~ Attached(u)
    /\ Begin(p, "insert", "add", u, k)
    /\ UNCHANGED <<account, roles, companies, subscribed, seats, recruiters, lastId, invitations>>

\* recruiter-invitation.service.ts: invite.  Recruiters and open invitations count; a
\* verified account is attached, any other address is sent an invitation.
invite(p, caller, k, u) ==
    /\ AdminOf(caller, k)
    /\ Cardinality(Of(k)) + Cardinality(Pending(k)) < seats[k]
    /\ ~ Attached(u)
    /\ Begin(p, IF account[u] = "verified" THEN "insert" ELSE "revokePending", "invite", u, k)
    /\ UNCHANGED <<account, roles, companies, subscribed, seats, recruiters, lastId, invitations>>

\* Mutant: the earlier invitations of the address stay open.
keepPending(p) ==
    /\ req[p].pc = "revokePending"
    /\ Goto(p, "invitation")
    /\ UNCHANGED <<account, roles, companies, subscribed, seats, recruiters, lastId, invitations>>

\* The open invitations of the same address and company are revoked ...
revokePending(p) ==
    /\ req[p].pc = "revokePending"
    /\ invitations' = [n \in Invitations |->
                         IF n \in Pending(req[p].company) /\ invitations[n].email = req[p].user
                           THEN [invitations[n] EXCEPT !.status = "revoked"] ELSE invitations[n]]
    /\ Goto(p, "invitation")
    /\ UNCHANGED <<account, roles, companies, subscribed, seats, recruiters, lastId>>

\* ... and a new one is inserted and mailed.
insertInvitation(p) ==
    /\ req[p].pc = "invitation"
    /\ \E n \in Invitations :
        /\ invitations[n].status = "none"
        /\ invitations' = [invitations EXCEPT ![n] =
                             [status |-> "pending", email |-> req[p].user, company |-> req[p].company]]
    /\ Goto(p, "idle")
    /\ UNCHANGED <<account, roles, companies, subscribed, seats, recruiters, lastId>>

\* expiresAt passes.
Expire(n) ==
    /\ invitations[n].status = "pending"
    /\ invitations' = [invitations EXCEPT ![n].status = "expired"]
    /\ UNCHANGED <<account, roles, companies, subscribed, seats, recruiters, lastId, req>>

\* revoke looks at no status.
revoke(n) ==
    /\ \E u \in Users : AdminOf(u, invitations[n].company)
    /\ invitations' = [invitations EXCEPT ![n].status = "revoked"]
    /\ UNCHANGED <<account, roles, companies, subscribed, seats, recruiters, lastId, req>>

\* Mutant: the seats are only counted when the invitation is sent.
acceptUncounted(p, n) ==
    LET i == invitations[n]
    IN  /\ i.status = "pending"
        /\ ~ Attached(i.email)
        /\ req[p].pc = "idle"
        /\ req' = [req EXCEPT ![p] =
                     [pc |-> "account", op |-> "accept", user |-> i.email, company |-> i.company,
                      known |-> account[i.email], roles |-> {}, row |-> 0, invitation |-> n]]
        /\ UNCHANGED <<account, roles, companies, subscribed, seats, recruiters, lastId, invitations>>

\* accept: the invitation is found by its token, recruiters are counted again and the
\* address must not belong to a recruiter.
accept(p, n) ==
    LET i == invitations[n]
    IN  /\ i.status = "pending"
        /\ Cardinality(Of(i.company)) < seats[i.company]
        /\ ~ Attached(i.email)
        /\ req[p].pc = "idle"
        /\ req' = [req EXCEPT ![p] =
                     [pc |-> "account", op |-> "accept", user |-> i.email, company |-> i.company,
                      known |-> account[i.email], roles |-> {}, row |-> 0, invitation |-> n]]
        /\ UNCHANGED <<account, roles, companies, subscribed, seats, recruiters, lastId, invitations>>

\* recruiter-admin.service.ts: createRecruiter, by an operator; a company that has only
\* a name is created.  Seats are not counted.
createRecruiter(p, u, k) ==
    /\ account[u] = "none"
    /\ Begin(p, "account", "provision", u, k)
    /\ companies' = companies \cup {k}
    /\ UNCHANGED <<account, roles, subscribed, seats, recruiters, lastId, invitations>>

\* Mutant: a known account is attached as it is.
createAccountOnly(p) ==
    /\ req[p].pc = "account"
    /\ IF req[p].known # "none"
         THEN Goto(p, "insert") /\ UNCHANGED <<account, roles>>
         ELSE /\ Goto(p, IF account[req[p].user] = "none" THEN "insert" ELSE "idle")
              /\ account' = [account EXCEPT ![req[p].user] = IF @ = "none" THEN "verified" ELSE @]
              /\ roles' = [roles EXCEPT ![req[p].user] =
                             IF account[req[p].user] = "none" THEN {"recruiter"} ELSE @]
    /\ UNCHANGED <<companies, subscribed, seats, recruiters, lastId, invitations>>

\* The account of accept and createRecruiter: a known one is verified, an unknown one
\* is created as RECRUITER, unless the address has been registered in the meantime.
provideAccount(p) ==
    LET u == req[p].user
    IN  /\ req[p].pc = "account"
        /\ IF req[p].known # "none"
             THEN /\ account' = [account EXCEPT ![u] = "verified"]
                  /\ Goto(p, "insert") /\ UNCHANGED roles
             ELSE IF account[u] = "none"
               THEN /\ account' = [account EXCEPT ![u] = "verified"]
                    /\ roles' = [roles EXCEPT ![u] = {"recruiter"}]
                    /\ Goto(p, "insert")
               ELSE Goto(p, "idle") /\ UNCHANGED <<account, roles>>
        /\ UNCHANGED <<companies, subscribed, seats, recruiters, lastId, invitations>>

---------------------------------------------------------------------------------
\* UNIQUE(user_id)
UniqueUser(u) == ~ Attached(u)

\* What each handler does next; attach reads the user again.
AfterInsert(op) == CASE op \in {"found", "add"}     -> "roles"
                     [] op \in {"invite", "accept"} -> "readRoles"
                     [] OTHER                       -> "idle"

\* The insert into recruiters.
insertRecruiter(p) ==
    /\ req[p].pc = "insert"
    /\ IF UniqueUser(req[p].user)
         THEN /\ lastId < MaxRows
              /\ lastId' = lastId + 1
              /\ recruiters' = recruiters \cup
                   {[id |-> lastId', user |-> req[p].user, company |-> req[p].company, via |-> req[p].op]}
              /\ Goto(p, AfterInsert(req[p].op))
         ELSE Goto(p, "idle") /\ UNCHANGED <<lastId, recruiters>>
    /\ UNCHANGED <<account, roles, companies, subscribed, seats, invitations>>

\* attach and removeRecruiter read the user.
readRoles(p) ==
    /\ req[p].pc = "readRoles"
    /\ req' = [req EXCEPT ![p] = [@ EXCEPT !.pc = "roles", !.roles = roles[req[p].user]]]
    /\ UNCHANGED <<account, roles, companies, subscribed, seats, recruiters, lastId, invitations>>

\* Mutant: a recruiter who joins a company gets the administrator's role.
AdminRoles(op, read) == IF op = "remove" THEN {} ELSE read \cup {"company_admin"}

\* What becomes of the roles that were read: createCompany adds COMPANY_ADMIN, the
\* others RECRUITER, removeRecruiter drops both.
NewRoles(op, read) ==
    CASE op = "found"  -> read \cup {"company_admin"}
      [] op = "remove" -> {}
      [] OTHER         -> read \cup {"recruiter"}

AfterRoles(op) == CASE op = "found"  -> "subscribe"
                    [] op = "accept" -> "accepted"
                    [] OTHER         -> "idle"

\* users.roles is written unless the role was there when they were read.
saveRoles(p) ==
    LET new == NewRoles(req[p].op, req[p].roles)
    IN  /\ req[p].pc = "roles"
        /\ roles' = IF new = req[p].roles /\ req[p].op # "remove" THEN roles
                    ELSE [roles EXCEPT ![req[p].user] = new]
        /\ Goto(p, AfterRoles(req[p].op))
        /\ UNCHANGED <<account, companies, subscribed, seats, recruiters, lastId, invitations>>

\* accept saves the invitation it read at the start.
saveAccepted(p) ==
    /\ req[p].pc = "accepted"
    /\ invitations' = [invitations EXCEPT ![req[p].invitation].status = "accepted"]
    /\ Goto(p, "idle")
    /\ UNCHANGED <<account, roles, companies, subscribed, seats, recruiters, lastId>>

\* Mutant: an administrator may remove himself.
removeAnyone(p, caller, x) ==
    /\ AdminOf(caller, x.company)
    /\ req[p].pc = "idle"
    /\ req' = [req EXCEPT ![p] = [Idle EXCEPT !.pc = "delete", !.op = "remove", !.user = x.user,
                                              !.company = x.company, !.row = x.id]]
    /\ UNCHANGED <<account, roles, companies, subscribed, seats, recruiters, lastId, invitations>>

\* removeRecruiter: the row is found, and it is not the caller's ...
removeRecruiter(p, caller, x) ==
    /\ AdminOf(caller, x.company)
    /\ x.user # caller
    /\ req[p].pc = "idle"
    /\ req' = [req EXCEPT ![p] = [Idle EXCEPT !.pc = "delete", !.op = "remove", !.user = x.user,
                                              !.company = x.company, !.row = x.id]]
    /\ UNCHANGED <<account, roles, companies, subscribed, seats, recruiters, lastId, invitations>>

\* ... and it is deleted by its id; the roles follow.
deleteRecruiter(p) ==
    /\ req[p].pc = "delete"
    /\ recruiters' = {x \in recruiters : x.id # req[p].row}
    /\ Goto(p, "readRoles")
    /\ UNCHANGED <<account, roles, companies, subscribed, seats, lastId, invitations>>

\* The process dies, or a statement fails: what is written stays written.
Crash(p) ==
    /\ req[p].pc # "idle"
    /\ Goto(p, "idle")
    /\ UNCHANGED <<account, roles, companies, subscribed, seats, recruiters, lastId, invitations>>

Step(p) ==
    \/ insertCompany(p) \/ insertSubscription(p) \/ revokePending(p) \/ insertInvitation(p)
    \/ provideAccount(p) \/ insertRecruiter(p) \/ readRoles(p) \/ saveRoles(p)
    \/ saveAccepted(p) \/ deleteRecruiter(p)

Next ==
    \/ \E u \in Users : register(u) \/ verifyEmail(u)
    \/ \E k \in Companies : Upgrade(k)
    \/ \E n \in Invitations : Expire(n) \/ revoke(n) \/ \E p \in Requests : accept(p, n)
    \/ \E p \in Requests :
        \/ Step(p) \/ Crash(p)
        \/ \E u \in Users, k \in Companies :
            \/ createCompany(p, u, k) \/ createRecruiter(p, u, k)
            \/ \E caller \in Users : addRecruiter(p, caller, k, u) \/ invite(p, caller, k, u)
        \/ \E caller \in Users, x \in recruiters : removeRecruiter(p, caller, x)

Spec == Init /\ [][Next]_vars

---------------------------------------------------------------------------------
Row == [id : 1..MaxRows, user : Users, company : Companies,
        via : {"found", "add", "invite", "accept", "provision"}]

Request ==
    [pc : {"idle", "company", "subscribe", "revokePending", "invitation", "account", "insert",
           "readRoles", "roles", "accepted", "delete"},
     op : {"none", "found", "add", "invite", "accept", "provision", "remove"},
     user : Users \cup {Nobody}, company : Companies \cup {Nobody},
     known : {"none", "unverified", "verified"}, roles : SUBSET Roles,
     row : 0..MaxRows, invitation : Invitations \cup {0}]

\* Every variable keeps its type.
TypeOK ==
    /\ account \in [Users -> {"none", "unverified", "verified"}]
    /\ roles \in [Users -> SUBSET Roles]
    /\ companies \subseteq Companies
    /\ subscribed \subseteq companies
    /\ seats \in [Companies -> Nat \ {0}]
    /\ recruiters \subseteq Row
    /\ lastId \in 0..MaxRows
    /\ invitations \in [Invitations -> [status : {"none", "pending", "accepted", "revoked", "expired"},
                                        email : Users \cup {Nobody}, company : Companies \cup {Nobody}]]
    /\ req \in [Requests -> Request]

\* A user is attached to one company at most, however a foundation, an addition, an
\* invitation and an acceptance for him race.
OneCompanyPerUser == \A x, y \in recruiters : x.user = y.user => x = y

\* Every recruiter has a verified address: whoever attaches one has checked it or sets
\* it first, and a crash in between attaches nobody.
RecruiterIsVerified == \A x \in recruiters : account[x.user] = "verified"

\* A request that has counted the seats and not yet inserted its recruiter.
Seating(k) == {p \in Requests : /\ req[p].pc \in {"account", "insert"}
                                /\ req[p].op \in {"add", "invite", "accept"}
                                /\ req[p].company = k}

Seated(k) == {x \in Of(k) : x.via # "provision"}

\* The seats of a company are exceeded by at most one recruiter for each further
\* request that has counted them at the same moment; handled one by one, never.  After a
\* change to a smaller plan, the seats are those of the larger one.
\* Provisioned recruiters are the operator's own.
SeatsWithinRace ==
    \A k \in Companies :
        Cardinality(Seated(k)) + Cardinality(Seating(k)) + 1 <= seats[k] + Cardinality(Requests)

\* invite leaves one open invitation for an address, or one for each request that
\* invites it at the same moment: "Avoid stacking duplicate pending invites".
OpenInvitations(u, k) == {n \in Pending(k) : invitations[n].email = u}

Inviting(u, k) == {p \in Requests : /\ req[p].pc = "invitation"
                                    /\ req[p].user = u /\ req[p].company = k}

InvitationsNotStacked ==
    \A u \in Users, k \in Companies :
        Cardinality(OpenInvitations(u, k)) + Cardinality(Inviting(u, k))
            <= Cardinality(Requests)

\* Whoever has the role COMPANY_ADMIN is attached to the company he has founded: the
\* whole-array writes of other handlers, from roles read earlier, never bring the role
\* back or hand it on.
AdminIsFounder ==
    \A u \in Users : "company_admin" \in roles[u] => \E x \in recruiters : x.user = u /\ x.via = "found"

\* A company never loses its founder: he cannot remove himself, and nobody else is
\* ever an administrator of the same company.
FounderStays == [][\A x \in recruiters : x.via = "found" => x \in recruiters']_vars

---------------------------------------------------------------------------------
(* What comments in the code say and the code does not do (see README).            *)

\* recruiter.service.ts: "a company cannot exceed its plan's user count".
SeatLimit == \A k \in Companies : Cardinality(Seated(k)) <= seats[k]
=================================================================================
