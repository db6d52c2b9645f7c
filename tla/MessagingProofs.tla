----------------------------- MODULE MessagingProofs -----------------------------
(***************************************************************************)
(* Proofs about Messaging, for any number of candidates, recruiters,       *)
(* companies and requests and for any quotas.                              *)
(*                                                                         *)
(* The inductive invariant adds to the types what an open transaction      *)
(* knows: it is the only one of its company (the subscription's row is     *)
(* locked), there is a contact left, and once the conversation is inserted *)
(* no other thread has its pair.                                           *)
(***************************************************************************)
EXTENDS Messaging, TLAPS

Opening == [pc : {"consume", "insert", "message", "reread"}, user : Recruiters, candidate : Candidates]

\* Two open transactions are of different companies.
OneTransaction ==
    \A p, q \in Requests :
        InTransaction(p) /\ InTransaction(q) /\ companyOf[req[p].user] = companyOf[req[q].user] => p = q

\* An open transaction has a contact to spend.
ContactLeft ==
    \A p \in Requests : InTransaction(p) => used[companyOf[req[p].user]] < contactQuota[companyOf[req[p].user]]

\* An inserted conversation is the only one of its pair.
PairIsNew == \A p \in Requests : req[p].pc = "message" => ~ HasThread(Pair(p))

\* What a request or an interview refers to exists.
RefersToThread ==
    /\ \A p \in Requests : req[p].pc = "attach" => req[p].thread \in threads /\ req[p].file <= stored
    /\ \A p \in Requests : req[p].pc = "respond" => interviews[req[p].interview] # NoInterview
    /\ \A i \in Interviews : interviews[i] # NoInterview => interviews[i].thread \in threads

IInv ==
    /\ TypeOK /\ OneTransaction /\ ContactLeft /\ PairIsNew /\ OneThreadPerPair
    /\ RefersToThread /\ AttachmentStored /\ NotifiedHasThread

---------------------------------------------------------------------------------
\* What the pc of a request says about its record.
LEMMA ReqByPc ==
    ASSUME req \in [Requests -> Request], NEW p \in Requests
    PROVE  /\ req[p].pc \in {"consume", "insert", "message", "reread"} => req[p] \in Opening
           /\ req[p].pc = "attach" =>
                req[p] \in [pc : {"attach"}, user : Users, thread : Thread, role : Roles, file : Nat]
           /\ req[p].pc = "respond" =>
                req[p] \in [pc : {"respond"}, user : Users, interview : Interviews, role : Roles,
                            answer : {"accepted", "declined", "cancelled"}]
  BY DEF Request, Opening, Idle

\* A participant of a thread is a user, and so is the one who is notified.
LEMMA RecipientOfThread ==
    ASSUME NEW t \in Thread, NEW role \in Roles
    PROVE  /\ Recipient(t, role) \in Users
           /\ Recipient(t, role) \in {t.pair[1], t.opener}
  BY DEF Thread, Recipient, Users, Pairs, Roles

LEMMA IdleInRequest == Idle \in Request /\ Idle.pc = "idle"
BY DEF Idle, Request

THEOREM InitIInv == Init => IInv
<1> SUFFICES ASSUME Init PROVE IInv
  OBVIOUS
<1>1. TypeOK
  <2>1. used \in [Companies -> Nat] /\ threads = {} /\ stored \in Nat /\ notified = {}
    BY DEF Init
  <2>2. messages \in Seq(MessageRow)
    BY DEF Init
  <2>3. interviews \in [Interviews -> Interview]
    BY DEF Init, Interview, NoInterview
  <2>4. req \in [Requests -> Request]
    BY IdleInRequest DEF Init
  <2> QED BY <2>1, <2>2, <2>3, <2>4 DEF TypeOK
<1>2. OneTransaction /\ ContactLeft /\ PairIsNew /\ RefersToThread
  BY DEF Init, OneTransaction, ContactLeft, PairIsNew, RefersToThread, InTransaction, Idle, NoInterview
<1>3. OneThreadPerPair /\ AttachmentStored /\ NotifiedHasThread
  BY DEF Init, OneThreadPerPair, AttachmentStored, NotifiedHasThread
<1> QED BY <1>1, <1>2, <1>3 DEF IInv

---------------------------------------------------------------------------------
\* A step that gives one request a record outside the transaction and changes no
\* table keeps the invariant.
LEMMA Outside ==
    ASSUME IInv, NEW p \in Requests, NEW x \in Request, x.pc \in {"idle", "consume", "reread"},
           req' = [req EXCEPT ![p] = x],
           UNCHANGED <<used, threads, messages, stored, interviews, notified>>
    PROVE  IInv'
<1> USE DEF IInv
<1>1. \A q \in Requests : req'[q] = IF q = p THEN x ELSE req[q]
  BY DEF TypeOK
<1>2. TypeOK'
  BY DEF TypeOK
<1>3. (OneTransaction /\ ContactLeft /\ PairIsNew)'
  BY <1>1 DEF OneTransaction, ContactLeft, PairIsNew, InTransaction, Pair, HasThread
<1>4. RefersToThread'
  BY <1>1 DEF RefersToThread
<1>5. (OneThreadPerPair /\ AttachmentStored /\ NotifiedHasThread)'
  BY DEF OneThreadPerPair, AttachmentStored, NotifiedHasThread
<1> QED BY <1>2, <1>3, <1>4, <1>5

LEMMA OpenStep ==
    ASSUME IInv, NEW p \in Requests, NEW r \in Recruiters, NEW c \in Candidates,
           openConversation(p, r, c)
    PROVE  IInv'
<1> DEFINE x == [pc |-> "consume", user |-> r, candidate |-> c]
<1>1. x \in Request
  BY DEF Request
<1> QED BY <1>1, Outside DEF openConversation

LEMMA CrashStep ==
    ASSUME IInv, NEW p \in Requests, Crash(p) \/ reread(p)
    PROVE  IInv'
BY IdleInRequest, Outside DEF Crash, reread

\* An opening request may move to another pc of an opening request.
LEMMA OpeningPc ==
    ASSUME TypeOK, NEW p \in Requests, req[p].pc \in {"consume", "insert", "message", "reread"},
           NEW pc \in {"consume", "insert", "message", "reread"}
    PROVE  /\ [req[p] EXCEPT !.pc = pc] \in Request
           /\ [req[p] EXCEPT !.pc = pc].pc = pc
           /\ [req[p] EXCEPT !.pc = pc].user = req[p].user
           /\ [req[p] EXCEPT !.pc = pc].candidate = req[p].candidate
<1>1. req[p] \in Opening
  BY ReqByPc DEF TypeOK
<1>2. [req[p] EXCEPT !.pc = pc] \in Opening
  BY <1>1 DEF Opening
<1> QED BY <1>1, <1>2 DEF Opening, Request

LEMMA ConsumeStep ==
    ASSUME IInv, NEW p \in Requests, consumeOneContact(p)
    PROVE  IInv'
<1> DEFINE k == companyOf[req[p].user]
           x == [req[p] EXCEPT !.pc = "insert"]
<1> USE DEF IInv
<1>1. CASE ~ (used[k] < contactQuota[k])
  BY <1>1, IdleInRequest, Outside DEF consumeOneContact
<1>2. CASE used[k] < contactQuota[k]
  <2>1. x \in Request /\ x.pc = "insert" /\ x.user = req[p].user
    BY OpeningPc DEF consumeOneContact
  <2> HIDE DEF x
  <2>2. req' = [req EXCEPT ![p] = x]
    BY <1>2 DEF consumeOneContact, x
  <2>3. \A q \in Requests : req'[q] = IF q = p THEN x ELSE req[q]
    BY <2>2 DEF TypeOK
  <2>4. UNCHANGED <<used, threads, messages, stored, interviews, notified>>
    BY DEF consumeOneContact
  <2>5. TypeOK'
    BY <2>1, <2>2, <2>4 DEF TypeOK
  <2>6. OneTransaction'
    <3>1. \A q \in Requests \ {p} : InTransaction(q) => companyOf[req[q].user] # companyOf[req[p].user]
      BY DEF consumeOneContact, RowFree
    <3>2. \A q \in Requests \ {p} :
            InTransaction(q)' = InTransaction(q) /\ companyOf[req'[q].user] = companyOf[req[q].user]
      BY <2>3 DEF InTransaction
    <3>3. companyOf[req'[p].user] = companyOf[req[p].user]
      BY <2>1, <2>3
    <3> QED BY <3>1, <3>2, <3>3 DEF OneTransaction
  <2>7. ContactLeft'
    BY <1>2, <2>1, <2>3, <2>4 DEF ContactLeft, InTransaction
  <2>8. PairIsNew'
    BY <2>1, <2>3, <2>4 DEF PairIsNew, HasThread, Pair
  <2>9. RefersToThread'
    BY <2>1, <2>3, <2>4 DEF RefersToThread
  <2>10. (OneThreadPerPair /\ AttachmentStored /\ NotifiedHasThread)'
    BY <2>4 DEF OneThreadPerPair, AttachmentStored, NotifiedHasThread
  <2> QED BY <2>5, <2>6, <2>7, <2>8, <2>9, <2>10
<1> QED BY <1>1, <1>2

LEMMA InsertStep ==
    ASSUME IInv, NEW p \in Requests, insertConversation(p)
    PROVE  IInv'
<1> DEFINE x == [req[p] EXCEPT !.pc = "message"]
           y == [req[p] EXCEPT !.pc = "reread"]
<1> USE DEF IInv
<1>0. UNCHANGED <<used, threads, messages, stored, interviews, notified>>
  BY DEF insertConversation
<1>1. CASE HasThread(Pair(p))
  <2>1. y \in Request /\ y.pc = "reread"
    BY OpeningPc DEF insertConversation
  <2>2. req' = [req EXCEPT ![p] = y]
    BY <1>1 DEF insertConversation
  <2> QED BY <1>0, <2>1, <2>2, Outside
<1>2. CASE ~ HasThread(Pair(p))
  <2>1. /\ x \in Request /\ x.pc = "message" /\ x.user = req[p].user
        /\ x.candidate = req[p].candidate
    BY OpeningPc DEF insertConversation
  <2> HIDE DEF x
  <2>2. req' = [req EXCEPT ![p] = x]
    BY <1>2 DEF insertConversation, x
  <2>3. \A q \in Requests : req'[q] = IF q = p THEN x ELSE req[q]
    BY <2>2 DEF TypeOK
  <2>5. TypeOK'
    BY <1>0, <2>1, <2>2 DEF TypeOK
  <2>6. InTransaction(p)
    BY DEF insertConversation, InTransaction
  <2>7. OneTransaction' /\ ContactLeft'
    BY <1>0, <2>1, <2>3, <2>6 DEF OneTransaction, ContactLeft, InTransaction
  <2>8. PairIsNew'
    BY <1>0, <1>2, <2>1, <2>3 DEF PairIsNew, HasThread, Pair
  <2>9. RefersToThread'
    BY <1>0, <2>1, <2>3 DEF RefersToThread
  <2>10. (OneThreadPerPair /\ AttachmentStored /\ NotifiedHasThread)'
    BY <1>0 DEF OneThreadPerPair, AttachmentStored, NotifiedHasThread
  <2> QED BY <2>5, <2>7, <2>8, <2>9, <2>10
<1> QED BY <1>1, <1>2

---------------------------------------------------------------------------------
\* What notifying a participant of a thread leaves: users, each with a thread.
LEMMA NotifyKeeps ==
    ASSUME TypeOK, NotifiedHasThread, NEW t \in Thread, t \in threads', threads \subseteq threads',
           NEW role \in Roles, Notify(Recipient(t, role))
    PROVE  notified' \subseteq Users /\ NotifiedHasThread'
<1>1. Recipient(t, role) \in Users /\ Recipient(t, role) \in {t.pair[1], t.opener}
  BY RecipientOfThread
<1> HIDE DEF Recipient
<1>2. notified' = notified \/ notified' = notified \cup {Recipient(t, role)}
  BY DEF Notify
<1> QED BY <1>1, <1>2 DEF TypeOK, NotifiedHasThread

\* One more row in messages.
LEMMA AppendKeeps ==
    ASSUME TypeOK, AttachmentStored, NEW m \in MessageRow, m.file <= stored',
           messages' = Append(messages, m), stored' \in Nat, stored <= stored'
    PROVE  messages' \in Seq(MessageRow) /\ AttachmentStored'
<1>1. messages \in Seq(MessageRow) /\ stored \in Nat
  BY DEF TypeOK
<1>2. messages' \in Seq(MessageRow)
  BY <1>1
<1>3. \A n \in DOMAIN messages' : messages'[n] = m \/ (n \in DOMAIN messages /\ messages'[n] = messages[n])
  BY <1>1
<1>4. \A n \in DOMAIN messages : messages[n].file \in Nat
  <2>1. \A n \in DOMAIN messages : messages[n] \in MessageRow
    BY <1>1
  <2> QED BY <2>1 DEF MessageRow
<1>5. AttachmentStored'
  BY <1>1, <1>3, <1>4 DEF AttachmentStored
<1> QED BY <1>2, <1>5

LEMMA CommitStep ==
    ASSUME IInv, NEW p \in Requests, commitConversation(p)
    PROVE  IInv'
<1> DEFINE r == req[p].user
           k == companyOf[r]
           t == [pair |-> Pair(p), opener |-> r]
           m == [pair |-> t.pair, sender |-> r, file |-> 0, read |-> FALSE]
<1> USE DEF IInv
<1>1. r \in Recruiters /\ req[p].candidate \in Candidates /\ k \in Companies
  BY ReqByPc, MessagingAssumption DEF TypeOK, commitConversation, Opening
<1>2. t \in Thread /\ t.pair = Pair(p) /\ t.opener = r
  BY <1>1 DEF Thread, Pairs, Pair
<1>3. m \in MessageRow /\ m.file = 0
  BY <1>1, <1>2 DEF MessageRow, Thread, Users
<1>4. ~ HasThread(Pair(p)) /\ InTransaction(p) /\ req[p].pc = "message"
  BY DEF PairIsNew, commitConversation, InTransaction
<1>5. /\ threads' = threads \cup {t}
      /\ messages' = Append(messages, m)
      /\ used' = [used EXCEPT ![k] = @ + 1]
      /\ Notify(Recipient(t, "recruiter"))
      /\ req' = [req EXCEPT ![p] = Idle]
      /\ UNCHANGED <<stored, interviews>>
  BY DEF commitConversation
<1> HIDE DEF t, m, k
<1>6. notified' \subseteq Users /\ NotifiedHasThread'
  BY <1>2, <1>5, NotifyKeeps DEF Roles
<1>7. messages' \in Seq(MessageRow) /\ AttachmentStored'
  BY <1>3, <1>5, AppendKeeps DEF TypeOK
<1>8. \A q \in Requests : req'[q] = IF q = p THEN Idle ELSE req[q]
  BY <1>5 DEF TypeOK
<1>9. TypeOK'
  BY <1>1, <1>2, <1>5, <1>6, <1>7, IdleInRequest DEF TypeOK
<1>10. OneTransaction'
  BY <1>8, IdleInRequest DEF OneTransaction, InTransaction
<1>11. ContactLeft'
  <2> SUFFICES ASSUME NEW q \in Requests, InTransaction(q)'
               PROVE  used'[companyOf[req'[q].user]] < contactQuota[companyOf[req'[q].user]]
    BY DEF ContactLeft
  <2>1. q # p /\ req'[q] = req[q] /\ InTransaction(q)
    BY <1>8, IdleInRequest DEF InTransaction
  <2>2. companyOf[req[q].user] # k
    BY <1>4, <2>1 DEF OneTransaction, k
  <2> QED BY <1>5, <2>1, <2>2 DEF ContactLeft, TypeOK
<1>12. PairIsNew'
  <2> SUFFICES ASSUME NEW q \in Requests, req'[q].pc = "message"
               PROVE  ~ HasThread(Pair(q))'
    BY DEF PairIsNew
  <2>1. q # p /\ req'[q] = req[q] /\ InTransaction(q) /\ req[q].pc = "message"
    BY <1>8, IdleInRequest DEF InTransaction
  <2>2. companyOf[req[q].user] # k
    BY <1>4, <2>1 DEF OneTransaction, k
  <2>3. Pair(q)' = Pair(q) /\ Pair(q) # Pair(p)
    BY <2>1, <2>2 DEF Pair, k
  <2>4. ~ HasThread(Pair(q))
    BY <2>1 DEF PairIsNew
  <2> QED BY <1>2, <1>5, <2>3, <2>4 DEF HasThread
<1>13. OneThreadPerPair'
  BY <1>2, <1>4, <1>5 DEF OneThreadPerPair, HasThread
<1>14. RefersToThread'
  BY <1>5, <1>8, IdleInRequest DEF RefersToThread
<1> QED BY <1>6, <1>7, <1>9, <1>10, <1>11, <1>12, <1>13, <1>14

LEMMA RenewStep ==
    ASSUME IInv, NEW k \in Companies, renew(k)
    PROVE  IInv'
<1> USE DEF IInv, renew
<1>1. TypeOK'
  BY DEF TypeOK
<1>2. ContactLeft'
  BY DEF ContactLeft, TypeOK, RowFree, InTransaction
<1>3. (OneTransaction /\ PairIsNew /\ RefersToThread)'
  BY DEF OneTransaction, PairIsNew, RefersToThread, InTransaction, Pair, HasThread
<1>4. (OneThreadPerPair /\ AttachmentStored /\ NotifiedHasThread)'
  BY DEF OneThreadPerPair, AttachmentStored, NotifiedHasThread
<1> QED BY <1>1, <1>2, <1>3, <1>4

---------------------------------------------------------------------------------
\* Steps outside openConversation keep what is said about open transactions.
LEMMA Elsewhere ==
    ASSUME IInv, UNCHANGED <<used, threads>>,
           \A q \in Requests : req'[q] = req[q] \/ ~ InTransaction(q)'
    PROVE  (OneTransaction /\ ContactLeft /\ PairIsNew /\ OneThreadPerPair)'
BY DEF IInv, OneTransaction, ContactLeft, PairIsNew, OneThreadPerPair, InTransaction, Pair, HasThread

\* A participant is a user; the row he writes is well-typed.
LEMMA Participant ==
    ASSUME NEW t \in Thread, NEW u, NEW role, Authorized(u, t, role)
    PROVE  u \in Users /\ role \in Roles
BY DEF Authorized, Users, Roles, Thread, Pairs

\* Insert(t, u, role, file) by a participant of an existing thread, once the object
\* is stored.
LEMMA InsertKeeps ==
    ASSUME IInv, NEW t \in threads, NEW u \in Users, NEW role \in Roles, NEW file \in Nat,
           file <= stored, Insert(t, u, role, file), UNCHANGED <<threads, stored>>
    PROVE  /\ messages' \in Seq(MessageRow) /\ AttachmentStored'
           /\ notified' \subseteq Users /\ NotifiedHasThread'
<1> DEFINE m == [pair |-> t.pair, sender |-> u, file |-> file, read |-> FALSE]
<1> USE DEF IInv
<1>1. t \in Thread
  BY DEF TypeOK
<1>2. m \in MessageRow /\ m.file = file
  BY <1>1 DEF MessageRow, Thread
<1>3. messages' = Append(messages, m) /\ Notify(Recipient(t, role))
  BY DEF Insert
<1> HIDE DEF m
<1>4. messages' \in Seq(MessageRow) /\ AttachmentStored'
  BY <1>2, <1>3, AppendKeeps DEF TypeOK
<1>5. notified' \subseteq Users /\ NotifiedHasThread'
  BY <1>1, <1>3, NotifyKeeps
<1> QED BY <1>4, <1>5

LEMMA SendStep ==
    ASSUME IInv, NEW t \in threads, NEW u \in Users, NEW role \in Roles, sendMessage(t, u, role)
    PROVE  IInv'
<1> USE DEF IInv
<1>1. UNCHANGED <<used, threads, stored, interviews, req>> /\ Insert(t, u, role, 0)
  BY DEF sendMessage
<1>2. /\ messages' \in Seq(MessageRow) /\ AttachmentStored'
      /\ notified' \subseteq Users /\ NotifiedHasThread'
  BY <1>1, InsertKeeps DEF TypeOK
<1>3. TypeOK'
  BY <1>1, <1>2 DEF TypeOK
<1>4. RefersToThread'
  BY <1>1 DEF RefersToThread
<1> QED BY <1>1, <1>2, <1>3, <1>4, Elsewhere

LEMMA AttachStep ==
    ASSUME IInv, NEW p \in Requests, NEW t \in threads, NEW u \in Users, NEW role \in Roles,
           sendAttachment(p, t, u, role)
    PROVE  IInv'
<1> DEFINE x == [pc |-> "attach", user |-> u, thread |-> t, role |-> role, file |-> stored + 1]
<1> USE DEF IInv
<1>1. x \in Request /\ x.pc = "attach" /\ x.thread = t /\ x.file = stored + 1
  BY DEF Request, TypeOK
<1>2. /\ req' = [req EXCEPT ![p] = x] /\ stored' = stored + 1
      /\ UNCHANGED <<used, threads, messages, interviews, notified>>
  BY DEF sendAttachment
<1> HIDE DEF x
<1>3. \A q \in Requests : req'[q] = IF q = p THEN x ELSE req[q]
  BY <1>2 DEF TypeOK
<1>4. TypeOK'
  BY <1>1, <1>2 DEF TypeOK
<1>5. RefersToThread'
  <2>1. \A q \in Requests : req[q].pc = "attach" => req[q].file \in Nat
    BY ReqByPc DEF TypeOK
  <2> QED BY <1>1, <1>2, <1>3, <2>1 DEF RefersToThread, TypeOK
<1>6. AttachmentStored'
  <2>1. \A n \in DOMAIN messages : messages[n] \in MessageRow
    BY DEF TypeOK
  <2> QED BY <1>2, <2>1 DEF AttachmentStored, TypeOK, MessageRow
<1>7. NotifiedHasThread'
  BY <1>2 DEF NotifiedHasThread
<1>8. \A q \in Requests : req'[q] = req[q] \/ ~ InTransaction(q)'
  BY <1>1, <1>3 DEF InTransaction
<1> QED BY <1>2, <1>4, <1>5, <1>6, <1>7, <1>8, Elsewhere

LEMMA InsertAttachmentStep ==
    ASSUME IInv, NEW p \in Requests, insertAttachment(p)
    PROVE  IInv'
<1> USE DEF IInv
<1>1. /\ req[p].thread \in threads /\ req[p].user \in Users /\ req[p].role \in Roles
      /\ req[p].file \in Nat /\ req[p].file <= stored
  BY ReqByPc DEF TypeOK, RefersToThread, insertAttachment
<1>2. /\ req' = [req EXCEPT ![p] = Idle] /\ UNCHANGED <<used, threads, stored, interviews>>
      /\ Insert(req[p].thread, req[p].user, req[p].role, req[p].file)
  BY DEF insertAttachment
<1>3. /\ messages' \in Seq(MessageRow) /\ AttachmentStored'
      /\ notified' \subseteq Users /\ NotifiedHasThread'
  BY <1>1, <1>2, InsertKeeps
<1>4. \A q \in Requests : req'[q] = IF q = p THEN Idle ELSE req[q]
  BY <1>2 DEF TypeOK
<1>5. TypeOK'
  BY <1>2, <1>3, IdleInRequest DEF TypeOK
<1>6. RefersToThread'
  BY <1>2, <1>4, IdleInRequest DEF RefersToThread
<1>7. \A q \in Requests : req'[q] = req[q] \/ ~ InTransaction(q)'
  BY <1>4, IdleInRequest DEF InTransaction
<1> QED BY <1>2, <1>3, <1>5, <1>6, <1>7, Elsewhere

LEMMA ListStep ==
    ASSUME IInv, NEW t \in threads, NEW u \in Users, NEW role \in Roles, listMessages(t, u, role)
    PROVE  IInv'
<1> USE DEF IInv
<1>1. UNCHANGED <<used, threads, stored, interviews, notified, req>>
  BY DEF listMessages
<1>2. messages \in Seq(MessageRow)
  BY DEF TypeOK
<1>3. \A n \in DOMAIN messages : /\ messages[n] \in MessageRow
                                 /\ [messages[n] EXCEPT !.read = TRUE] \in MessageRow
                                 /\ [messages[n] EXCEPT !.read = TRUE].file = messages[n].file
  <2> SUFFICES ASSUME NEW n \in DOMAIN messages
               PROVE  /\ messages[n] \in MessageRow
                      /\ [messages[n] EXCEPT !.read = TRUE] \in MessageRow
                      /\ [messages[n] EXCEPT !.read = TRUE].file = messages[n].file
    OBVIOUS
  <2>1. messages[n] \in MessageRow
    BY <1>2
  <2> QED BY <2>1 DEF MessageRow
<1>4. /\ DOMAIN messages' = DOMAIN messages
      /\ \A n \in DOMAIN messages : messages'[n] \in MessageRow /\ messages'[n].file = messages[n].file
  BY <1>3 DEF listMessages
<1>5. messages' \in Seq(MessageRow)
  <2>1. messages' = [n \in DOMAIN messages |-> messages'[n]]
    BY <1>4 DEF listMessages
  <2>2. PICK l \in Nat : DOMAIN messages = 1..l
    BY <1>2
  <2>3. messages' \in [1..l -> MessageRow]
    BY <1>4, <2>1, <2>2
  <2> QED BY <2>2, <2>3
<1>6. TypeOK'
  BY <1>1, <1>5 DEF TypeOK
<1>7. AttachmentStored' /\ NotifiedHasThread' /\ RefersToThread'
  BY <1>1, <1>4 DEF AttachmentStored, NotifiedHasThread, RefersToThread
<1> QED BY <1>1, <1>6, <1>7, Elsewhere

---------------------------------------------------------------------------------
LEMMA ProposeStep ==
    ASSUME IInv, NEW i \in Interviews, NEW t \in threads, NEW u \in Users, NEW role \in Roles,
           propose(i, t, u, role)
    PROVE  IInv'
<1> DEFINE x == [status |-> "proposed", thread |-> t, proposedByRole |-> role]
<1> USE DEF IInv
<1>1. t \in Thread
  BY DEF TypeOK
<1>2. x \in Interview /\ x.thread = t /\ x # NoInterview
  BY <1>1 DEF Interview, NoInterview
<1>3. /\ interviews' = [interviews EXCEPT ![i] = x] /\ Notify(Recipient(t, role))
      /\ UNCHANGED <<used, threads, messages, stored, req>>
  BY DEF propose
<1> HIDE DEF x
<1>4. notified' \subseteq Users /\ NotifiedHasThread'
  BY <1>1, <1>3, NotifyKeeps
<1>5. \A j \in Interviews : interviews'[j] = IF j = i THEN x ELSE interviews[j]
  BY <1>3 DEF TypeOK
<1>6. TypeOK'
  BY <1>2, <1>3, <1>4 DEF TypeOK
<1>7. RefersToThread'
  <2>1. \A q \in Requests : req[q].pc = "respond" => req[q].interview \in Interviews
    BY ReqByPc DEF TypeOK
  <2> QED BY <1>2, <1>3, <1>5, <2>1 DEF RefersToThread
<1>8. AttachmentStored'
  BY <1>3 DEF AttachmentStored
<1> QED BY <1>3, <1>4, <1>6, <1>7, <1>8, Elsewhere

LEMMA RespondStep ==
    ASSUME IInv, NEW p \in Requests, NEW i \in Interviews, NEW u \in Users, NEW role \in Roles,
           NEW answer \in {"accepted", "declined", "cancelled"}, respond(p, i, u, role, answer)
    PROVE  IInv'
<1> DEFINE x == [pc |-> "respond", user |-> u, interview |-> i, role |-> role, answer |-> answer]
<1> USE DEF IInv
<1>1. x \in Request /\ x.pc = "respond" /\ x.interview = i
  BY DEF Request
<1>2. /\ req' = [req EXCEPT ![p] = x] /\ interviews[i].status = "proposed"
      /\ UNCHANGED <<used, threads, messages, stored, interviews, notified>>
  BY DEF respond
<1> HIDE DEF x
<1>3. \A q \in Requests : req'[q] = IF q = p THEN x ELSE req[q]
  BY <1>2 DEF TypeOK
<1>4. TypeOK'
  BY <1>1, <1>2 DEF TypeOK
<1>5. interviews[i] # NoInterview
  BY <1>2 DEF NoInterview
<1>6. RefersToThread'
  BY <1>1, <1>2, <1>3, <1>5 DEF RefersToThread
<1>7. AttachmentStored' /\ NotifiedHasThread'
  BY <1>2 DEF AttachmentStored, NotifiedHasThread
<1>8. \A q \in Requests : req'[q] = req[q] \/ ~ InTransaction(q)'
  BY <1>1, <1>3 DEF InTransaction
<1> QED BY <1>2, <1>4, <1>6, <1>7, <1>8, Elsewhere

LEMMA SaveAnswerStep ==
    ASSUME IInv, NEW p \in Requests, saveAnswer(p)
    PROVE  IInv'
<1> DEFINE i == req[p].interview
           x == [interviews[i] EXCEPT !.status = req[p].answer]
<1> USE DEF IInv
<1>1. /\ i \in Interviews /\ req[p].role \in Roles
      /\ req[p].answer \in {"accepted", "declined", "cancelled"}
  BY ReqByPc DEF TypeOK, saveAnswer
<1>2. interviews[i] # NoInterview /\ interviews[i].thread \in threads
  BY <1>1 DEF RefersToThread, saveAnswer
<1>3. interviews[i] \in [status : {"proposed", "accepted", "declined", "cancelled"},
                         thread : Thread, proposedByRole : Roles]
  BY <1>1, <1>2 DEF TypeOK, Interview
<1>4. x \in Interview /\ x.thread = interviews[i].thread /\ x # NoInterview
  BY <1>1, <1>3 DEF Interview, NoInterview
<1>5. /\ interviews' = [interviews EXCEPT ![i] = x]
      /\ Notify(Recipient(interviews[i].thread, req[p].role))
      /\ req' = [req EXCEPT ![p] = Idle] /\ UNCHANGED <<used, threads, messages, stored>>
  BY DEF saveAnswer
<1>6. notified' \subseteq Users /\ NotifiedHasThread'
  BY <1>1, <1>2, <1>3, <1>5, NotifyKeeps
<1> HIDE DEF x, i
<1>7. \A j \in Interviews : interviews'[j] = IF j = i THEN x ELSE interviews[j]
  BY <1>5 DEF TypeOK
<1>8. \A q \in Requests : req'[q] = IF q = p THEN Idle ELSE req[q]
  BY <1>5 DEF TypeOK
<1>9. TypeOK'
  BY <1>1, <1>4, <1>5, <1>6, IdleInRequest DEF TypeOK
<1>10. RefersToThread'
  <2>1. \A q \in Requests : req[q].pc = "respond" => req[q].interview \in Interviews
    BY ReqByPc DEF TypeOK
  <2> QED BY <1>2, <1>4, <1>5, <1>7, <1>8, <2>1, IdleInRequest DEF RefersToThread
<1>11. AttachmentStored'
  BY <1>5 DEF AttachmentStored
<1>12. \A q \in Requests : req'[q] = req[q] \/ ~ InTransaction(q)'
  BY <1>8, IdleInRequest DEF InTransaction
<1> QED BY <1>5, <1>6, <1>9, <1>10, <1>11, <1>12, Elsewhere

LEMMA StutterStep == IInv /\ UNCHANGED vars => IInv'
BY DEF IInv, vars, TypeOK, OneTransaction, ContactLeft, PairIsNew, OneThreadPerPair, RefersToThread,
       AttachmentStored, NotifiedHasThread, InTransaction, Pair, HasThread

LEMMA NextStep == IInv /\ [Next]_vars => IInv'
<1> SUFFICES ASSUME IInv, [Next]_vars PROVE IInv'
  OBVIOUS
<1>1. CASE \E k \in Companies : renew(k)
  BY <1>1, RenewStep
<1>2. ASSUME NEW p \in Requests, Step(p) \/ Crash(p) PROVE IInv'
  BY <1>2, ConsumeStep, InsertStep, CommitStep, InsertAttachmentStep, SaveAnswerStep, CrashStep DEF Step
<1>3. CASE \E p \in Requests, r \in Recruiters, c \in Candidates : openConversation(p, r, c)
  BY <1>3, OpenStep
<1>4. CASE \E p \in Requests, t \in threads, u \in Users, role \in Roles : sendAttachment(p, t, u, role)
  BY <1>4, AttachStep
<1>5. CASE \E p \in Requests, i \in Interviews, u \in Users, role \in Roles :
             \E answer \in {"accepted", "declined", "cancelled"} : respond(p, i, u, role, answer)
  BY <1>5, RespondStep
<1>6. CASE \E t \in threads, u \in Users, role \in Roles : sendMessage(t, u, role) \/ listMessages(t, u, role)
  BY <1>6, SendStep, ListStep
<1>7. CASE \E t \in threads, u \in Users, role \in Roles, i \in Interviews : propose(i, t, u, role)
  BY <1>7, ProposeStep
<1>8. CASE UNCHANGED vars
  BY <1>8, StutterStep
<1> QED BY <1>1, <1>2, <1>3, <1>4, <1>5, <1>6, <1>7, <1>8 DEF Next

\* Every request, table and notification is always well-formed, for any number of
\* requests in flight.
THEOREM Typed == Spec => []TypeOK
<1>1. IInv => TypeOK
  BY DEF IInv
<1> QED BY InitIInv, NextStep, <1>1, PTL DEF Spec

\* Whatever recruiters of a company race to open a thread with a candidate, there is
\* one: UNIQUE(candidate_id, company_id) with the rollback of openConversation.
THEOREM ThreadsUnique == Spec => []OneThreadPerPair
<1>1. IInv => OneThreadPerPair
  BY DEF IInv
<1> QED BY InitIInv, NextStep, <1>1, PTL DEF Spec

\* sendAttachment uploads before it inserts: no message lacks its object.
THEOREM AttachmentsStored == Spec => []AttachmentStored
<1>1. IInv => AttachmentStored
  BY DEF IInv
<1> QED BY InitIInv, NextStep, <1>1, PTL DEF Spec

\* Notifications follow the commit: nobody is told of a thread that was rolled back.
THEOREM NotificationsHonest == Spec => []NotifiedHasThread
<1>1. IInv => NotifiedHasThread
  BY DEF IInv
<1> QED BY InitIInv, NextStep, <1>1, PTL DEF Spec

---------------------------------------------------------------------------------
\* What OverruledByOverlapOnly says of one interview.
Final(i) ==
    interviews[i].status \in Settled =>
        /\ Answering(i)' \subseteq Answering(i)
        /\ interviews'[i] # interviews[i] => Answering(i)' # Answering(i)

\* A request that takes up no answer changes no interview's fate.
LEMMA NoAnswer ==
    ASSUME TypeOK, NEW p \in Requests, UNCHANGED interviews, req'[p].pc # "respond",
           \A q \in Requests \ {p} : req'[q] = req[q]
    PROVE  \A i \in Interviews : Final(i)
<1>1. \A i \in Interviews : Answering(i)' \subseteq Answering(i)
  BY DEF Answering
<1> QED BY <1>1 DEF Final

\* The steps of a request, but for the save of an answer.
LEMMA StepFinal ==
    ASSUME IInv, NEW p \in Requests, Step(p) \/ Crash(p), ~ saveAnswer(p)
    PROVE  \A i \in Interviews : Final(i)
<1>0. TypeOK /\ req \in [Requests -> Request]
  BY DEF IInv, TypeOK
<1>1. CASE consumeOneContact(p)
  <2>1. req[p] \in Opening
    BY <1>0, <1>1, ReqByPc DEF consumeOneContact
  <2>2. UNCHANGED interviews /\ \A q \in Requests \ {p} : req'[q] = req[q]
    BY <1>0, <1>1 DEF consumeOneContact
  <2>3. req'[p] = [req[p] EXCEPT !.pc = "insert"] \/ req'[p] = Idle
    BY <1>0, <1>1 DEF consumeOneContact
  <2>4. req'[p].pc # "respond"
    BY <2>1, <2>3, IdleInRequest DEF Opening
  <2> QED BY <1>0, <2>2, <2>4, NoAnswer
<1>2. CASE insertConversation(p)
  <2>1. req[p] \in Opening
    BY <1>0, <1>2, ReqByPc DEF insertConversation
  <2>2. UNCHANGED interviews /\ \A q \in Requests \ {p} : req'[q] = req[q]
    BY <1>0, <1>2 DEF insertConversation
  <2>3. req'[p] = [req[p] EXCEPT !.pc = IF HasThread(Pair(p)) THEN "reread" ELSE "message"]
    BY <1>0, <1>2 DEF insertConversation
  <2>4. req'[p].pc # "respond"
    BY <2>1, <2>3 DEF Opening
  <2> QED BY <1>0, <2>2, <2>4, NoAnswer
<1>3. CASE reread(p) \/ commitConversation(p) \/ insertAttachment(p) \/ Crash(p)
  <2>1. UNCHANGED interviews /\ req' = [req EXCEPT ![p] = Idle]
    BY <1>3 DEF reread, commitConversation, insertAttachment, Crash
  <2>2. req'[p].pc # "respond" /\ \A q \in Requests \ {p} : req'[q] = req[q]
    BY <1>0, <2>1, IdleInRequest
  <2> QED BY <1>0, <2>1, <2>2, NoAnswer
<1> QED BY <1>1, <1>2, <1>3 DEF Step

\* An answer that is saved is no longer in flight.
LEMMA SaveAnswerFinal ==
    ASSUME IInv, NEW p \in Requests, saveAnswer(p), NEW i \in Interviews
    PROVE  Final(i)
<1>1. /\ req \in [Requests -> Request] /\ interviews \in [Interviews -> Interview]
      /\ req[p].pc = "respond"
  BY DEF IInv, TypeOK, saveAnswer
<1>2. /\ req' = [req EXCEPT ![p] = Idle]
      /\ interviews' = [interviews EXCEPT ![req[p].interview].status = req[p].answer]
  BY DEF saveAnswer
<1>3. req'[p] = Idle /\ \A q \in Requests \ {p} : req'[q] = req[q]
  BY <1>1, <1>2
<1>4. Answering(i)' = Answering(i) \ {p}
  BY <1>3, IdleInRequest DEF Answering
<1>5. CASE req[p].interview = i
  BY <1>1, <1>4, <1>5 DEF Final, Answering
<1>6. CASE req[p].interview # i
  <2>1. interviews'[i] = interviews[i]
    BY <1>1, <1>2, <1>6
  <2> QED BY <1>4, <2>1 DEF Final
<1> QED BY <1>5, <1>6

\* An answer is taken up to a proposed interview only.
LEMMA RespondFinal ==
    ASSUME IInv, NEW p \in Requests, NEW j \in Interviews, NEW u \in Users, NEW role \in Roles,
           NEW answer \in {"accepted", "declined", "cancelled"}, respond(p, j, u, role, answer),
           NEW i \in Interviews
    PROVE  Final(i)
<1>1. req \in [Requests -> Request] /\ interviews[j].status = "proposed" /\ UNCHANGED interviews
  BY DEF IInv, TypeOK, respond
<1>2. req'[p].interview = j /\ \A q \in Requests \ {p} : req'[q] = req[q]
  BY <1>1 DEF respond
<1>3. interviews[i].status \in Settled => i # j
  BY <1>1 DEF Settled
<1>4. interviews[i].status \in Settled => Answering(i)' \subseteq Answering(i)
  BY <1>2, <1>3 DEF Answering
<1> QED BY <1>1, <1>4 DEF Final

LEMMA ProposeFinal ==
    ASSUME IInv, NEW j \in Interviews, NEW t \in threads, NEW u \in Users, NEW role \in Roles,
           propose(j, t, u, role), NEW i \in Interviews
    PROVE  Final(i)
<1>1. /\ interviews \in [Interviews -> Interview] /\ interviews[j] = NoInterview /\ UNCHANGED req
      /\ interviews' = [interviews EXCEPT ![j] =
                           [status |-> "proposed", thread |-> t, proposedByRole |-> role]]
  BY DEF IInv, TypeOK, propose
<1>2. Answering(i)' = Answering(i)
  BY <1>1 DEF Answering
<1>3. interviews[j].status \notin Settled
  BY <1>1 DEF NoInterview, Settled
<1>4. i # j => interviews'[i] = interviews[i]
  BY <1>1
<1> QED BY <1>2, <1>3, <1>4 DEF Final

LEMMA FinalStep ==
    ASSUME IInv, [Next]_vars
    PROVE  \A i \in Interviews : Final(i)
<1>1. ASSUME UNCHANGED <<interviews, req>> PROVE \A i \in Interviews : Final(i)
  BY <1>1 DEF Final, Answering
<1>2. CASE \E k \in Companies : renew(k)
  BY <1>1, <1>2 DEF renew
<1>3. ASSUME NEW p \in Requests, Step(p) \/ Crash(p) PROVE \A i \in Interviews : Final(i)
  BY <1>3, StepFinal, SaveAnswerFinal
<1>4. ASSUME NEW p \in Requests, NEW r \in Recruiters, NEW c \in Candidates, openConversation(p, r, c)
      PROVE  \A i \in Interviews : Final(i)
  <2>1. UNCHANGED interviews /\ req'[p].pc # "respond" /\ \A q \in Requests \ {p} : req'[q] = req[q]
    BY <1>4 DEF openConversation, IInv, TypeOK
  <2> QED BY <2>1, NoAnswer DEF IInv
<1>5. ASSUME NEW p \in Requests, NEW t \in threads, NEW u \in Users, NEW role \in Roles,
             sendAttachment(p, t, u, role)
      PROVE  \A i \in Interviews : Final(i)
  <2>1. UNCHANGED interviews /\ req'[p].pc # "respond" /\ \A q \in Requests \ {p} : req'[q] = req[q]
    BY <1>5 DEF sendAttachment, IInv, TypeOK
  <2> QED BY <2>1, NoAnswer DEF IInv
<1>6. CASE \E p \in Requests, i \in Interviews, u \in Users, role \in Roles :
             \E answer \in {"accepted", "declined", "cancelled"} : respond(p, i, u, role, answer)
  BY <1>6, RespondFinal
<1>7. CASE \E t \in threads, u \in Users, role \in Roles : sendMessage(t, u, role) \/ listMessages(t, u, role)
  BY <1>1, <1>7 DEF sendMessage, listMessages
<1>8. CASE \E t \in threads, u \in Users, role \in Roles, i \in Interviews : propose(i, t, u, role)
  BY <1>8, ProposeFinal
<1>9. CASE UNCHANGED vars
  BY <1>1, <1>9 DEF vars
<1> QED BY <1>2, <1>3, <1>4, <1>5, <1>6, <1>7, <1>8, <1>9 DEF Next

\* respond does not look again before it saves.  For any number of requests, an answered
\* interview is changed only by answers that were judged before it was settled, and by
\* each of them once.
THEOREM AnswersOverlap == Spec => OverruledByOverlapOnly
<1>1. Init => IInv
  BY InitIInv
<1>2. IInv /\ [Next]_vars => IInv'
  BY NextStep
<1>3. IInv /\ [Next]_vars =>
        [\A i \in Interviews : interviews[i].status \in Settled =>
            /\ Answering(i)' \subseteq Answering(i)
            /\ interviews'[i] # interviews[i] => Answering(i)' # Answering(i)]_vars
  BY FinalStep DEF Final
<1> QED BY <1>1, <1>2, <1>3, PTL DEF Spec, OverruledByOverlapOnly

---------------------------------------------------------------------------------
LEMMA LedgerInit == Init => Ledger!Init
BY DEF Init, Ledger!Init

\* Every step is a step of the ledger or changes nothing it knows.
LEMMA LedgerStep ==
    IInv /\ [Next]_vars => [Ledger!Next]_<<{t.pair : t \in threads}, used>>
<1> SUFFICES ASSUME IInv, [Next]_vars
             PROVE  Ledger!Next \/ UNCHANGED <<threads, used>>
  OBVIOUS
<1>1. ASSUME NEW k \in Companies, renew(k) PROVE Ledger!Next
  BY <1>1 DEF renew, Ledger!Next, Ledger!Renew
<1>2. ASSUME NEW p \in Requests, commitConversation(p) PROVE Ledger!Next
  <2> DEFINE k == companyOf[req[p].user]
             c == req[p].candidate
  <2>1. k \in Companies /\ c \in Candidates
    BY <1>2, ReqByPc, MessagingAssumption DEF IInv, TypeOK, commitConversation, Opening
  <2>2. used[k] < contactQuota[k] /\ ~ HasThread(<<c, k>>)
    BY <1>2 DEF IInv, ContactLeft, PairIsNew, InTransaction, Pair, commitConversation
  <2>3. \E t : t.pair = <<c, k>> /\ threads' = threads \cup {t}
    BY <1>2 DEF commitConversation, Pair
  <2>4. used' = [used EXCEPT ![k] = @ + 1]
    BY <1>2 DEF commitConversation
  <2> HIDE DEF k, c
  <2>5. PICK cc \in Candidates, kk \in Companies :
            /\ used[kk] < contactQuota[kk] /\ ~ HasThread(<<cc, kk>>)
            /\ \E t : t.pair = <<cc, kk>> /\ threads' = threads \cup {t}
            /\ used' = [used EXCEPT ![kk] = @ + 1]
    BY <2>1, <2>2, <2>3, <2>4
  <2>6. Ledger!Open(cc, kk)
    BY <2>5 DEF Ledger!Open, HasThread
  <2> QED BY <2>6 DEF Ledger!Next
<1>3. ASSUME NEW p \in Requests, Crash(p) \/ (Step(p) /\ ~ commitConversation(p))
      PROVE  UNCHANGED <<threads, used>>
  BY <1>3 DEF Step, Crash, consumeOneContact, insertConversation, reread, insertAttachment, saveAnswer
<1>4. ASSUME NEW p \in Requests, NEW r \in Recruiters, NEW c \in Candidates, openConversation(p, r, c)
      PROVE  UNCHANGED <<threads, used>>
  BY <1>4 DEF openConversation
<1>5. ASSUME NEW t \in threads, NEW u \in Users, NEW role \in Roles,
             \/ \E p \in Requests : sendAttachment(p, t, u, role)
             \/ sendMessage(t, u, role) \/ listMessages(t, u, role)
             \/ \E i \in Interviews : propose(i, t, u, role)
      PROVE  UNCHANGED <<threads, used>>
  BY <1>5 DEF sendAttachment, sendMessage, listMessages, propose
<1>6. ASSUME NEW p \in Requests, NEW i \in Interviews, NEW u \in Users, NEW role \in Roles,
             NEW answer \in {"accepted", "declined", "cancelled"}, respond(p, i, u, role, answer)
      PROVE  UNCHANGED <<threads, used>>
  BY <1>6 DEF respond
<1>7. CASE UNCHANGED vars
  BY <1>7 DEF vars
<1> QED BY <1>1, <1>2, <1>3, <1>4, <1>5, <1>6, <1>7 DEF Next

\* A contact is spent exactly with the thread it pays for, within the quota and once
\* for a candidate and a company: messaging implements the ledger.
THEOREM ImplementsLedger == Spec => RefinesLedger
<1> QED BY InitIInv, NextStep, LedgerInit, LedgerStep, PTL DEF Spec, RefinesLedger, Ledger!Spec
==================================================================================
