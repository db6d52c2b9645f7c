-------------------------------- MODULE Messaging --------------------------------
(***************************************************************************)
(* Conversations and interviews.  A recruiter opens a thread with a        *)
(* candidate in one transaction of three statements: the conditional       *)
(* UPDATE that spends a contact and locks the subscription's row until the *)
(* end, the insert that UNIQUE(candidate_id, company_id) guards, and the   *)
(* first message.  A violation of the index rolls everything back and the  *)
(* existing thread is returned.  Messages, attachments, reading and        *)
(* interviews are sequences of statements without a transaction.           *)
(*                                                                         *)
(* A request that dies between two statements leaves what it has           *)
(* committed: Crash.  Notifications are best effort: a step that sends one *)
(* may fail to.                                                            *)
(***************************************************************************)
EXTENDS Naturals, Sequences

CONSTANTS
    Candidates, Recruiters, Companies,
    companyOf,      \* the company each recruiter is attached to
    contactQuota,   \* contact_quota of each company's subscription
    Interviews,     \* ids of interviews
    Requests,       \* requests in flight at once
    MaxMessages,    \* bound: messages sent after the opening ones
    MaxFiles        \* bound: objects uploaded

ASSUME MessagingAssumption ==
    /\ companyOf \in [Recruiters -> Companies]
    /\ contactQuota \in [Companies -> Nat]

VARIABLES
    used,        \* used[k]: contacts_used of company k's subscription
    threads,     \* rows of conversations
    messages,    \* rows of messages, in the order of their insertion
    stored,      \* number of attachment objects in storage: keys 1..stored
    interviews,  \* interviews[i]: the row, if there is one
    notified,    \* users with a messaging notification
    req          \* req[p]: where request p stands and what it has read

vars == <<used, threads, messages, stored, interviews, notified, req>>

Users == Candidates \cup Recruiters
Pairs == Candidates \X Companies
Roles == {"candidate", "recruiter"}

Idle == [pc |-> "idle"]

NoInterview == [status |-> "none"]

Init ==
    /\ used = [k \in Companies |-> 0]
    /\ threads = {}
    /\ messages = <<>>
    /\ stored = 0
    /\ interviews = [i \in Interviews |-> NoInterview]
    /\ notified = {}
    /\ req = [p \in Requests |-> Idle]

---------------------------------------------------------------------------------
\* findAuthorizedConversation: the recruiter's company is on the thread, or the
\* candidate is.
Authorized(u, t, role) ==
    \/ role = "recruiter" /\ u \in Recruiters /\ companyOf[u] = t.pair[2]
    \/ role = "candidate" /\ u = t.pair[1]

\* resolveRecipient: a recruiter's message is for the candidate, a candidate's for
\* the recruiter who opened the thread.
Recipient(t, role) == IF role = "candidate" THEN t.opener ELSE t.pair[1]

\* notifyNewMessage, notifyCounterpart: a failure is logged and forgotten.
Notify(u) == notified' \in {notified, notified \cup {u}}

InTransaction(p) == req[p].pc \in {"insert", "message"}

\* The UPDATE of contacts_used keeps the subscription's row locked until commit.
RowFree(k) == \A p \in Requests : InTransaction(p) => companyOf[req[p].user] # k

---------------------------------------------------------------------------------
\* openConversation: the access guard and the profile are read (external).
openConversation(p, r, c) ==
    /\ req[p].pc = "idle"
    /\ req' = [req EXCEPT ![p] = [pc |-> "consume", user |-> r, candidate |-> c]]
    /\ UNCHANGED <<used, threads, messages, stored, interviews, notified>>

Pair(p) == <<req[p].candidate, companyOf[req[p].user]>>

\* consumeOneContact with the transaction's manager; an exhausted quota is an error
\* that ends the request, also when the thread exists already.
consumeOneContact(p) ==
    LET k == companyOf[req[p].user]
    IN  /\ req[p].pc = "consume"
        /\ RowFree(k)
        /\ req' = [req EXCEPT ![p] = IF used[k] < contactQuota[k]
                                       THEN [@ EXCEPT !.pc = "insert"] ELSE Idle]
        /\ UNCHANGED <<used, threads, messages, stored, interviews, notified>>

HasThread(pair) == \E t \in threads : t.pair = pair

\* The insert: a 23505 rolls the transaction back.  An uncommitted row of the same
\* pair would make it wait, but its transaction holds the subscription's row.
insertConversation(p) ==
    /\ req[p].pc = "insert"
    /\ req' = [req EXCEPT ![p].pc = IF HasThread(Pair(p)) THEN "reread" ELSE "message"]
    /\ UNCHANGED <<used, threads, messages, stored, interviews, notified>>

\* Mutant: the contact is spent outside the transaction that opens the thread, and
\* lost to the caller who finds the thread opened.
rereadSpends(p) ==
    /\ req[p].pc = "reread"
    /\ used' = [used EXCEPT ![companyOf[req[p].user]] = @ + 1]
    /\ req' = [req EXCEPT ![p] = Idle]
    /\ UNCHANGED <<threads, messages, stored, interviews, notified>>

\* The existing thread is read again, outside the transaction, and returned.
reread(p) ==
    /\ req[p].pc = "reread"
    /\ req' = [req EXCEPT ![p] = Idle]
    /\ UNCHANGED <<used, threads, messages, stored, interviews, notified>>

\* The first message is inserted, the transaction commits, the candidate is notified.
commitConversation(p) ==
    LET r == req[p].user
        t == [pair |-> Pair(p), opener |-> r]
    IN  /\ req[p].pc = "message"
        /\ threads' = threads \cup {t}
        /\ messages' = Append(messages, [pair |-> t.pair, sender |-> r, file |-> 0, read |-> FALSE])
        /\ used' = [used EXCEPT ![companyOf[r]] = @ + 1]
        /\ Notify(Recipient(t, "recruiter"))
        /\ req' = [req EXCEPT ![p] = Idle]
        /\ UNCHANGED <<stored, interviews>>

\* Stripe's renewal resets the consumption (activateSubscription, renewSubscription:
\* module Subscriptions); it waits for the row.
renew(k) ==
    /\ RowFree(k)
    /\ used' = [used EXCEPT ![k] = 0]
    /\ UNCHANGED <<threads, messages, stored, interviews, notified, req>>

---------------------------------------------------------------------------------
\* The insert of a message and the notification of the counterpart.
Insert(t, u, role, file) ==
    /\ messages' = Append(messages, [pair |-> t.pair, sender |-> u, file |-> file, read |-> FALSE])
    /\ Notify(Recipient(t, role))

sendMessage(t, u, role) ==
    /\ Authorized(u, t, role)
    /\ Len(messages) < MaxMessages
    /\ Insert(t, u, role, 0)
    /\ UNCHANGED <<used, threads, stored, interviews, req>>

\* sendAttachment: a clean file is uploaded under a fresh key ...
sendAttachment(p, t, u, role) ==
    /\ req[p].pc = "idle"
    /\ Authorized(u, t, role)
    /\ stored < MaxFiles
    /\ stored' = stored + 1
    /\ req' = [req EXCEPT ![p] = [pc |-> "attach", user |-> u, thread |-> t, role |-> role,
                                  file |-> stored + 1]]
    /\ UNCHANGED <<used, threads, messages, interviews, notified>>

\* ... and then the message is inserted.
insertAttachment(p) ==
    /\ req[p].pc = "attach"
    /\ Insert(req[p].thread, req[p].user, req[p].role, req[p].file)
    /\ req' = [req EXCEPT ![p] = Idle]
    /\ UNCHANGED <<used, threads, stored, interviews>>

\* listMessages: whoever opens the thread marks what others have sent as read.
listMessages(t, u, role) ==
    /\ Authorized(u, t, role)
    /\ messages' = [n \in DOMAIN messages |->
                      IF messages[n].pair = t.pair /\ messages[n].sender # u
                        THEN [messages[n] EXCEPT !.read = TRUE] ELSE messages[n]]
    /\ UNCHANGED <<used, threads, stored, interviews, notified, req>>

---------------------------------------------------------------------------------
\* interview.service.ts: propose
propose(i, t, u, role) ==
    /\ Authorized(u, t, role)
    /\ interviews[i] = NoInterview
    /\ interviews' = [interviews EXCEPT ![i] =
                        [status |-> "proposed", thread |-> t, proposedByRole |-> role]]
    /\ Notify(Recipient(t, role))
    /\ UNCHANGED <<used, threads, messages, stored, req>>

Answers(i, role) ==
    IF interviews[i].proposedByRole = role THEN {"cancelled"} ELSE {"accepted", "declined"}

\* Mutant: only a cancelled interview is refused.
respondCancelledOnly(p, i, u, role, answer) ==
    /\ req[p].pc = "idle"
    /\ interviews[i].status \in {"proposed", "accepted", "declined"}
    /\ Authorized(u, interviews[i].thread, role)
    /\ answer \in Answers(i, role)
    /\ req' = [req EXCEPT ![p] = [pc |-> "respond", user |-> u, interview |-> i, role |-> role,
                                  answer |-> answer]]
    /\ UNCHANGED <<used, threads, messages, stored, interviews, notified>>

\* respond: the interview is read and judged ...
respond(p, i, u, role, answer) ==
    /\ req[p].pc = "idle"
    /\ interviews[i].status = "proposed"
    /\ Authorized(u, interviews[i].thread, role)
    /\ answer \in Answers(i, role)
    /\ req' = [req EXCEPT ![p] = [pc |-> "respond", user |-> u, interview |-> i, role |-> role,
                                  answer |-> answer]]
    /\ UNCHANGED <<used, threads, messages, stored, interviews, notified>>

\* ... and saved, whatever it has become since.
saveAnswer(p) ==
    LET i == req[p].interview
    IN  /\ req[p].pc = "respond"
        /\ interviews' = [interviews EXCEPT ![i].status = req[p].answer]
        /\ Notify(Recipient(interviews[i].thread, req[p].role))
        /\ req' = [req EXCEPT ![p] = Idle]
        /\ UNCHANGED <<used, threads, messages, stored>>

---------------------------------------------------------------------------------
\* The process dies or the client goes away; an open transaction is rolled back.
Crash(p) ==
    /\ req[p].pc # "idle"
    /\ req' = [req EXCEPT ![p] = Idle]
    /\ UNCHANGED <<used, threads, messages, stored, interviews, notified>>

Step(p) ==
    \/ consumeOneContact(p) \/ insertConversation(p) \/ reread(p) \/ commitConversation(p)
    \/ insertAttachment(p) \/ saveAnswer(p)

Next ==
    \/ \E k \in Companies : renew(k)
    \/ \E p \in Requests :
        \/ Step(p) \/ Crash(p)
        \/ \E r \in Recruiters, c \in Candidates : openConversation(p, r, c)
        \/ \E t \in threads, u \in Users, role \in Roles : sendAttachment(p, t, u, role)
        \/ \E i \in Interviews, u \in Users, role \in Roles :
            \E answer \in {"accepted", "declined", "cancelled"} : respond(p, i, u, role, answer)
    \/ \E t \in threads, u \in Users, role \in Roles :
        \/ sendMessage(t, u, role) \/ listMessages(t, u, role)
        \/ \E i \in Interviews : propose(i, t, u, role)

Spec == Init /\ [][Next]_vars

---------------------------------------------------------------------------------
MessageRow == [pair : Pairs, sender : Users, file : Nat, read : BOOLEAN]
Thread     == [pair : Pairs, opener : Recruiters]
Interview  == {NoInterview} \cup
              [status : {"proposed", "accepted", "declined", "cancelled"},
               thread : Thread, proposedByRole : Roles]
Request    == {Idle}
    \cup [pc : {"consume", "insert", "message", "reread"}, user : Recruiters, candidate : Candidates]
    \cup [pc : {"attach"}, user : Users, thread : Thread, role : Roles, file : Nat]
    \cup [pc : {"respond"}, user : Users, interview : Interviews, role : Roles,
          answer : {"accepted", "declined", "cancelled"}]

\* Every variable keeps its type.
TypeOK ==
    /\ used \in [Companies -> Nat]
    /\ threads \subseteq Thread
    /\ messages \in Seq(MessageRow)
    /\ stored \in Nat
    /\ interviews \in [Interviews -> Interview]
    /\ notified \subseteq Users
    /\ req \in [Requests -> Request]

\* Two recruiters of a company who open a thread with one candidate at the same time
\* end up in one thread: openConversation's re-read is unambiguous.
OneThreadPerPair == \A t, t2 \in threads : t.pair = t2.pair => t = t2

\* openConversation spends a contact exactly when it creates a thread, and never one
\* beyond the quota: the detailed transaction implements the ledger.
Ledger == INSTANCE ContactLedger WITH opened <- {t.pair : t \in threads}, spent <- used

RefinesLedger == Ledger!Spec

\* A message that carries an attachment has its object in storage, wherever
\* sendAttachment is cut off.
AttachmentStored == \A n \in DOMAIN messages : messages[n].file <= stored

Settled == {"accepted", "declined", "cancelled"}

\* The requests that hold an answer to i, judged when i was still proposed.
Answering(i) == {p \in Requests : req[p].pc = "respond" /\ req[p].interview = i}

\* respond judges the status it has read and saves without looking again, so an answer
\* may overrule another.  That is all: once an interview is settled no request takes up a
\* new answer to it, and each change of it uses up one that was already in flight.
OverruledByOverlapOnly ==
    [][\A i \in Interviews : interviews[i].status \in Settled =>
            /\ Answering(i)' \subseteq Answering(i)
            /\ interviews'[i] # interviews[i] => Answering(i)' # Answering(i)]_vars

\* Nobody is told of a thread that does not exist: notifications follow the commit.
NotifiedHasThread == \A u \in notified : \E t \in threads : u \in {t.pair[1], t.opener}

---------------------------------------------------------------------------------
(* What comments in the code say and the code does not do (see README).            *)

\* interview.service.ts: "a terminal interview cannot change again".
TerminalStays ==
    [][\A i \in Interviews : interviews[i].status \in {"accepted", "declined", "cancelled"} =>
                                interviews'[i].status = interviews[i].status]_vars
==================================================================================
