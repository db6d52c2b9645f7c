------------------------ MODULE SchoolVerificationsProofs ------------------------
(***************************************************************************)
(* SchoolVerifications, for any number of requests, documents, profiles    *)
(* and erasure requests: one verification per profile, one decision per    *)
(* submission, no file deleted under a verification, and an erasure that   *)
(* is completed only when it is done.                                      *)
(*                                                                         *)
(* The invariant follows a diploma from its upload to its verification:    *)
(* the document a request carries is nobody else's, has no verification    *)
(* yet, and is not one that another request replaces.                      *)
(***************************************************************************)
EXTENDS SchoolVerifications, TLAPS

Carries(x)  == x.pc \in {"existing", "remove", "deleteFile", "removeDocument", "insertDocument",
                         "insertVerification"}
Replaces(x) == x.pc \in {"remove", "deleteFile", "removeDocument"}

\* What a request relies on, whatever the others do.
Relies(x) ==
    /\ Carries(x) => /\ x.document \in 1..lastDocument
                     /\ \A v \in verifications : v.document # x.document
    /\ Replaces(x) => x.old \in 1..lastDocument
    /\ x.pc = "deleteFile" => \A v \in verifications : v.document # x.old
    /\ x.pc = "resolve" /\ x.status = "completed" => account = "deleted"
    /\ Carries(x) \/ x.pc = "upload" => x.profile # 0

\* No request replaces what another still carries, and no two carry the same.
Apart(x, y) == Carries(x) /\ Replaces(y) => y.old # x.document

Distinct ==
    \A p, q \in Requests :
        p # q /\ Carries(req[p]) /\ Carries(req[q]) => req[p].document # req[q].document

RequestsOK ==
    /\ \A p \in Requests : Relies(req[p])
    /\ \A p, q \in Requests : Apart(req[p], req[q])
    /\ Distinct

Tables ==
    /\ account \in {"active", "deleted"}
    /\ profile \in 0..lastProfile /\ lastProfile \in 0..MaxProfiles
    /\ documents \subseteq 1..lastDocument /\ files \subseteq 1..lastDocument
    /\ lastDocument \in 0..MaxDocuments
    /\ verifications \subseteq Verification
    /\ dataRequests \in [DataRequests -> RequestStatus]

IInv == TypeOK /\ OneVerification /\ ErasedWhenCompleted /\ RequestsOK

\* The rows and counters of the other requests' reasoning: what a step of p may change.
Allowed(p, x) ==
    /\ lastDocument' \in Nat /\ lastDocument <= lastDocument'
    /\ \A w \in verifications' : \/ \E v \in verifications : v.document = w.document
                                 \/ Carries(req[p]) /\ w.document = req[p].document
    /\ account = "deleted" => account' = "deleted"
    /\ Carries(x) => \/ Carries(req[p]) /\ x.document = req[p].document
                     \/ x.document = lastDocument + 1 /\ ~ Replaces(x)
    /\ Replaces(x) => /\ Carries(req[p])
                      /\ \/ Replaces(req[p]) /\ x.old = req[p].old
                         \/ \E v \in verifications : v.document = x.old

LEMMA Kept ==
    ASSUME RequestsOK, lastDocument \in Nat, NEW p \in Requests, NEW q \in Requests, p # q,
           NEW x, Allowed(p, x)
    PROVE  /\ Relies(req[q]) => LET y == req[q]
                                IN  /\ Carries(y) => /\ y.document \in 1..lastDocument'
                                                     /\ \A v \in verifications' : v.document # y.document
                                    /\ Replaces(y) => y.old \in 1..lastDocument'
                                    /\ y.pc = "deleteFile" => \A v \in verifications' : v.document # y.old
                                    /\ y.pc = "resolve" /\ y.status = "completed" => account' = "deleted"
           /\ Carries(x) /\ Replaces(req[q]) => req[q].old # x.document
           /\ Carries(req[q]) /\ Replaces(x) => x.old # req[q].document
           /\ Carries(req[q]) /\ Carries(x) => x.document # req[q].document
<1> DEFINE y == req[q]
<1>1. Relies(y) /\ Relies(req[p]) /\ Apart(req[p], y) /\ Apart(y, req[p])
      BY DEF RequestsOK
<1>2. Carries(y) /\ Carries(req[p]) => y.document # req[p].document
      BY DEF RequestsOK, Distinct
<1>3. y.pc = "deleteFile" => Replaces(y)
      BY DEF Replaces
<1>4. Carries(y) => y.document \in 1..lastDocument' /\ \A v \in verifications' : v.document # y.document
      BY <1>1, <1>2 DEF Relies, Allowed
<1>5. Replaces(y) => y.old \in 1..lastDocument'
      BY <1>1 DEF Relies, Allowed
<1>6. y.pc = "deleteFile" => \A v \in verifications' : v.document # y.old
      BY <1>1, <1>3 DEF Relies, Allowed, Apart
<1>7. y.pc = "resolve" /\ y.status = "completed" => account' = "deleted"
      BY <1>1 DEF Relies, Allowed
<1>8. Carries(x) /\ Replaces(y) => y.old # x.document
      BY <1>1 DEF Relies, Allowed, Apart
<1>9. Carries(y) /\ Replaces(x) => x.old # y.document
      BY <1>1 DEF Relies, Allowed, Apart
<1>10. Carries(y) /\ Carries(x) => x.document # y.document
      BY <1>1, <1>2 DEF Relies, Allowed
<1> HIDE DEF y
<1> QED BY <1>4, <1>5, <1>6, <1>7, <1>8, <1>9, <1>10 DEF y

\* A step in which one request moves: it is enough to look at that request and at the
\* tables.
LEMMA Moves ==
    ASSUME IInv, NEW p \in Requests, NEW x, Become(p, x), x \in Request, Allowed(p, x),
           Relies(x)', Apart(x, x), Tables', OneVerification', ErasedWhenCompleted'
    PROVE  IInv'
<1>1. req' = [req EXCEPT ![p] = x] /\ req \in [Requests -> Request]
      BY DEF Become, IInv, TypeOK
<1>2. \A q \in Requests : req'[q] = IF q = p THEN x ELSE req[q]
      BY <1>1
<1>3. req' \in [Requests -> Request]
      BY <1>1
<1>4. lastDocument \in Nat /\ RequestsOK
      BY SchoolAssumption DEF IInv, TypeOK
<1>5. \A q \in Requests : Relies(req[q])'
      <2>1. TAKE q \in Requests
      <2>2. CASE q = p
            BY <1>2, <2>2 DEF Relies, Carries, Replaces
      <2>3. CASE q # p
            <3>1. req'[q] = req[q] /\ Relies(req[q])
                  BY <1>2, <1>4, <2>3 DEF RequestsOK
            <3> QED BY <1>4, <2>3, <3>1, Kept DEF Relies, Carries, Replaces
      <2> QED BY <2>2, <2>3
<1>6. \A q, r \in Requests : Apart(req[q], req[r])'
      <2>1. TAKE q, r \in Requests
      <2>2. CASE q = p /\ r = p
            BY <1>2, <2>2 DEF Apart, Carries, Replaces
      <2>3. CASE q = p /\ r # p
            <3>1. req'[q] = x /\ req'[r] = req[r] /\ (Carries(x) /\ Replaces(req[r]) => req[r].old # x.document)
                  BY <1>2, <1>4, <2>3, Kept
            <3> QED BY <3>1 DEF Apart, Carries, Replaces
      <2>4. CASE q # p /\ r = p
            <3>1. req'[q] = req[q] /\ req'[r] = x /\ (Carries(req[q]) /\ Replaces(x) => x.old # req[q].document)
                  BY <1>2, <1>4, <2>4, Kept
            <3> QED BY <3>1 DEF Apart, Carries, Replaces
      <2>5. CASE q # p /\ r # p
            <3>1. req'[q] = req[q] /\ req'[r] = req[r] /\ Apart(req[q], req[r])
                  BY <1>2, <1>4, <2>5 DEF RequestsOK
            <3> QED BY <3>1 DEF Apart, Carries, Replaces
      <2> QED BY <2>2, <2>3, <2>4, <2>5
<1>7. Distinct'
      <2>1. SUFFICES ASSUME NEW q \in Requests, NEW r \in Requests, q # r
                     PROVE  Carries(req'[q]) /\ Carries(req'[r]) => req'[q].document # req'[r].document
            BY DEF Distinct, Carries
      <2>2. CASE q = p
            <3>1. req'[q] = x /\ req'[r] = req[r] /\ (Carries(req[r]) /\ Carries(x) => x.document # req[r].document)
                  BY <1>2, <1>4, <2>1, <2>2, Kept
            <3> QED BY <3>1
      <2>3. CASE r = p
            <3>1. req'[r] = x /\ req'[q] = req[q] /\ (Carries(req[q]) /\ Carries(x) => x.document # req[q].document)
                  BY <1>2, <1>4, <2>1, <2>3, Kept
            <3> QED BY <3>1
      <2>4. CASE q # p /\ r # p
            <3>1. req'[q] = req[q] /\ req'[r] = req[r]
                  BY <1>2, <2>4
            <3> QED BY <1>4, <2>1, <3>1 DEF RequestsOK, Distinct
      <2> QED BY <2>2, <2>3, <2>4
<1>8. TypeOK'
      BY <1>3 DEF Tables, TypeOK
<1> QED BY <1>5, <1>6, <1>7, <1>8 DEF IInv, RequestsOK

\* A step that only moves the request.
LEMMA Quiet ==
    ASSUME IInv, NEW p \in Requests, NEW x, Become(p, x),
           UNCHANGED <<profileVars, fileVars, schoolVars, accountVars>>,
           x \in Request, Relies(x), Apart(x, x),
           Carries(x) => Carries(req[p]) /\ x.document = req[p].document,
           Replaces(x) => /\ Carries(req[p])
                          /\ \/ Replaces(req[p]) /\ x.old = req[p].old
                             \/ \E v \in verifications : v.document = x.old
    PROVE  IInv'
<1> USE DEF profileVars, fileVars, schoolVars, accountVars
<1>1. Tables' /\ OneVerification' /\ ErasedWhenCompleted'
      BY DEF IInv, TypeOK, Tables, OneVerification, ErasedWhenCompleted
<1>2. Allowed(p, x)
      BY SchoolAssumption DEF Allowed, IInv, TypeOK
<1>3. Relies(x)'
      BY DEF Relies
<1> QED BY <1>1, <1>2, <1>3, Moves

\* A request that no longer carries, replaces or resolves anything relies on nothing.
Light(x) == x \in Request /\ ~ Carries(x) /\ ~ Replaces(x) /\ x.pc # "resolve" /\ (x.pc = "upload" => x.profile # 0)

LEMMA LightRelies == ASSUME NEW x, Light(x) PROVE Relies(x) /\ Relies(x)' /\ Apart(x, x)
BY DEF Light, Relies, Apart, Carries, Replaces

LEMMA IdleLight == Light(Idle)
BY SchoolAssumption DEF Light, Idle, Request, Carries, Replaces, RequestStatus

LEMMA Initially == Init => IInv
<1> SUFFICES ASSUME Init PROVE IInv
    OBVIOUS
<1>1. \A p \in Requests : req[p] = Idle
      BY DEF Init
<1>2. req \in [Requests -> Request]
      BY IdleLight DEF Init, Light
<1>3. TypeOK
      BY <1>2, SchoolAssumption DEF Init, TypeOK, RequestStatus
<1>4. OneVerification /\ ErasedWhenCompleted
      BY DEF Init, OneVerification, ErasedWhenCompleted
<1>5. RequestsOK
      BY <1>1, IdleLight, LightRelies DEF RequestsOK, Distinct, Light
<1> QED BY <1>3, <1>4, <1>5 DEF IInv

---------------------------------------------------------------------------------
(* One lemma per action that writes a table, in the order of Next.                 *)

\* A light request and tables that lose verifications only.
LEMMA Lightens ==
    ASSUME IInv, NEW p \in Requests, NEW x, Become(p, x), Light(x),
           Tables', OneVerification', ErasedWhenCompleted', UNCHANGED lastDocument,
           \A w \in verifications' : \E v \in verifications : v.document = w.document,
           account = "deleted" => account' = "deleted"
    PROVE  IInv'
<1>1. Allowed(p, x)
      BY SchoolAssumption DEF Allowed, Light, IInv, TypeOK
<1> QED BY <1>1, LightRelies, Moves DEF Light

LEMMA Ends ==
    ASSUME IInv, NEW p \in Requests, Done(p), UNCHANGED <<profileVars, fileVars, schoolVars, accountVars>>
    PROVE  IInv'
BY IdleLight, LightRelies, Quiet DEF Done, Light

LEMMA SubmitStep == ASSUME IInv, NEW p \in Requests, submit(p) PROVE IInv'
<1>1. PICK x : x = [Idle EXCEPT !.profile = profile, !.pc = IF profile = 0 THEN "create" ELSE "upload"]
      OBVIOUS
<1>2. profile \in 0..MaxProfiles
      BY SchoolAssumption DEF IInv, TypeOK
<1>3. Light(x)
      BY <1>1, <1>2, IdleLight DEF Light, Idle, Request, Carries, Replaces
<1> QED BY <1>1, <1>3, LightRelies, Quiet DEF submit, Light

LEMMA CreateStep == ASSUME IInv, NEW p \in Requests, createProfile(p) PROVE IInv'
<1>1. CASE Done(p) /\ UNCHANGED profileVars
      BY <1>1, Ends DEF createProfile
<1>2. CASE /\ profile = 0 /\ lastProfile < MaxProfiles
           /\ lastProfile' = lastProfile + 1 /\ profile' = lastProfile'
           /\ Become(p, [req[p] EXCEPT !.pc = "upload", !.profile = profile'])
      <2>1. PICK x : x = [req[p] EXCEPT !.pc = "upload", !.profile = profile']
            OBVIOUS
      <2>2. /\ profile' \in 0..MaxProfiles /\ profile' \in 0..lastProfile' /\ lastProfile' \in 0..MaxProfiles
            /\ req[p] \in Request /\ profile' # 0
            BY <1>2, SchoolAssumption DEF IInv, TypeOK
      <2>3. Light(x)
            BY <2>1, <2>2 DEF Light, Request, Carries, Replaces
      <2>4. UNCHANGED <<fileVars, schoolVars, accountVars>>
            BY DEF createProfile
      <2>5. verifications = {}
            <3>1. \A v \in verifications : v.profile = 0 /\ v.profile \in 1..MaxProfiles
                  BY <1>2 DEF IInv, TypeOK, OneVerification, Verification
            <3> QED BY <3>1, SchoolAssumption
      <2>6. Tables' /\ OneVerification' /\ ErasedWhenCompleted'
            BY <2>2, <2>4, <2>5 DEF IInv, TypeOK, Tables, OneVerification, ErasedWhenCompleted,
               fileVars, schoolVars, accountVars
      <2> QED BY <1>2, <2>1, <2>3, <2>4, <2>6, Lightens DEF fileVars, schoolVars, accountVars
<1> QED BY <1>1, <1>2 DEF createProfile

LEMMA UploadStep == ASSUME IInv, NEW p \in Requests, upload(p) PROVE IInv'
<1>1. PICK x : x = [req[p] EXCEPT !.pc = "existing", !.document = lastDocument']
      OBVIOUS
<1>2. /\ lastDocument \in Nat /\ lastDocument' = lastDocument + 1 /\ lastDocument' \in 0..MaxDocuments
      /\ req[p] \in Request /\ documents \subseteq 1..lastDocument /\ files \subseteq 1..lastDocument
      /\ files' = files \cup {lastDocument'} /\ Become(p, x)
      /\ UNCHANGED <<profile, lastProfile, documents, verifications, account, dataRequests>>
      BY <1>1, SchoolAssumption DEF IInv, TypeOK, upload, profileVars, schoolVars, accountVars
<1>3. /\ x \in Request /\ Carries(x) /\ ~ Replaces(x) /\ x.document = lastDocument' /\ x.pc = "existing"
      /\ x.profile # 0
      BY <1>1, <1>2 DEF Request, Carries, Replaces, IInv, RequestsOK, Relies, upload, At
<1>4. files' \subseteq 1..lastDocument' /\ documents' \subseteq 1..lastDocument'
      BY <1>2
<1>5. Tables' /\ OneVerification' /\ ErasedWhenCompleted'
      BY <1>2, <1>4 DEF IInv, TypeOK, Tables, OneVerification, ErasedWhenCompleted
<1>6. \A v \in verifications : v.document \in 1..lastDocument
      BY <1>2 DEF IInv, OneVerification
<1>7. Relies(x)'
      BY <1>2, <1>3, <1>6 DEF Relies
<1>8. Allowed(p, x) /\ Apart(x, x)
      BY <1>2, <1>3 DEF Allowed, Apart
<1> QED BY <1>2, <1>3, <1>5, <1>7, <1>8, Moves

\* A request that goes on to x with what it carries and replaces, and tables that lose
\* verifications only.
LEMMA GoesOn ==
    ASSUME IInv, NEW p \in Requests, NEW pc, Goto(p, pc), Carries(req[p]),
           pc \in {"deleteFile", "removeDocument", "insertDocument", "insertVerification"},
           pc \in {"deleteFile", "removeDocument"} => Replaces(req[p]),
           pc = "deleteFile" => \A w \in verifications' : w.document # req[p].old,
           Tables', OneVerification', ErasedWhenCompleted', UNCHANGED <<lastDocument, account>>,
           verifications' \subseteq verifications
    PROVE  IInv'
<1>1. PICK x : x = [req[p] EXCEPT !.pc = pc]
      OBVIOUS
<1>2. Become(p, x) /\ req[p] \in Request /\ Relies(req[p]) /\ Apart(req[p], req[p]) /\ lastDocument \in Nat
      BY <1>1, SchoolAssumption DEF Goto, IInv, RequestsOK, TypeOK
<1>3. /\ x \in Request /\ x.pc = pc /\ x.document = req[p].document /\ x.old = req[p].old
      /\ x.profile = req[p].profile
      BY <1>1, <1>2 DEF Request
<1>4. Carries(x) /\ (Replaces(x) => Replaces(req[p]))
      BY <1>3 DEF Carries, Replaces
<1>5. Apart(x, x)
      BY <1>2, <1>3, <1>4 DEF Apart
<1>6. Relies(x)'
      BY <1>2, <1>3, <1>4 DEF Relies
<1>7. Allowed(p, x)
      BY <1>2, <1>3, <1>4 DEF Allowed
<1> QED BY <1>2, <1>3, <1>5, <1>6, <1>7, Moves

LEMMA ExistingStep == ASSUME IInv, NEW p \in Requests, findExisting(p) PROVE IInv'
<1>1. req[p] \in Request /\ Relies(req[p]) /\ Carries(req[p]) /\ ~ Replaces(req[p])
      BY DEF IInv, RequestsOK, TypeOK, findExisting, At, Carries, Replaces
<1>2. UNCHANGED <<profileVars, fileVars, schoolVars, accountVars>>
      BY DEF findExisting
<1>3. CASE Goto(p, "insertDocument")
      BY <1>1, <1>2, <1>3, GoesOn DEF IInv, TypeOK, Tables, OneVerification, ErasedWhenCompleted,
         profileVars, fileVars, schoolVars, accountVars
<1>4. ASSUME NEW v \in verifications, Become(p, [req[p] EXCEPT !.pc = "remove", !.old = v.document])
      PROVE  IInv'
      <2>1. PICK x : x = [req[p] EXCEPT !.pc = "remove", !.old = v.document]
            OBVIOUS
      <2>2. v.document \in 1..lastDocument /\ v.document \in 0..MaxDocuments
            <3>1. v.document \in documents /\ documents \subseteq 1..lastDocument
                  BY DEF IInv, OneVerification, TypeOK
            <3>2. v \in Verification
                  BY DEF IInv, TypeOK
            <3> QED BY <3>1, <3>2 DEF Verification
      <2>3. x \in Request /\ x.pc = "remove" /\ x.document = req[p].document /\ x.old = v.document
            /\ x.profile = req[p].profile
            BY <1>1, <2>1, <2>2 DEF Request
      <2>4. Carries(x) /\ Replaces(x)
            BY <2>3 DEF Carries, Replaces
      <2>5. Relies(x) /\ Apart(x, x)
            BY <1>1, <2>2, <2>3, <2>4 DEF Relies, Apart
      <2> QED BY <1>1, <1>2, <1>4, <2>1, <2>3, <2>4, <2>5, Quiet
<1> QED BY <1>3, <1>4 DEF findExisting

LEMMA RemoveStep == ASSUME IInv, NEW p \in Requests, removeVerification(p) PROVE IInv'
<1>1. Carries(req[p]) /\ Replaces(req[p]) /\ Goto(p, "deleteFile")
      BY DEF removeVerification, At, Carries, Replaces
<1>2. verifications' = {v \in verifications : v.document # req[p].old}
      /\ UNCHANGED <<profileVars, fileVars, documents, accountVars>>
      BY DEF removeVerification
<1>3. Tables' /\ OneVerification' /\ ErasedWhenCompleted'
      BY <1>2 DEF IInv, TypeOK, Tables, OneVerification, ErasedWhenCompleted, profileVars, fileVars, accountVars
<1> QED BY <1>1, <1>2, <1>3, GoesOn DEF fileVars, accountVars

LEMMA DeleteFileStep == ASSUME IInv, NEW p \in Requests, deleteFile(p) PROVE IInv'
<1>1. Carries(req[p]) /\ Replaces(req[p]) /\ Goto(p, "removeDocument")
      BY DEF deleteFile, At, Carries, Replaces
<1>2. files' = files \ {req[p].old} /\ UNCHANGED <<profileVars, lastDocument, schoolVars, accountVars>>
      BY DEF deleteFile
<1>3. Tables' /\ OneVerification' /\ ErasedWhenCompleted'
      BY <1>2 DEF IInv, TypeOK, Tables, OneVerification, ErasedWhenCompleted, profileVars, schoolVars, accountVars
<1> QED BY <1>1, <1>2, <1>3, GoesOn DEF schoolVars, accountVars

LEMMA RemoveDocumentStep == ASSUME IInv, NEW p \in Requests, removeDocument(p) PROVE IInv'
<1>1. Carries(req[p]) /\ Goto(p, "insertDocument")
      BY DEF removeDocument, At, Carries
<1>2. /\ documents' = documents \ {req[p].old}
      /\ verifications' = {v \in verifications : v.document \notin {req[p].old}}
      /\ UNCHANGED <<profileVars, fileVars, accountVars>>
      BY DEF removeDocument, RemoveDocuments
<1>3. Tables' /\ OneVerification' /\ ErasedWhenCompleted'
      BY <1>2 DEF IInv, TypeOK, Tables, OneVerification, ErasedWhenCompleted, profileVars, fileVars, accountVars
<1> QED BY <1>1, <1>2, <1>3, GoesOn DEF fileVars, accountVars

LEMMA InsertDocumentStep == ASSUME IInv, NEW p \in Requests, insertDocument(p) PROVE IInv'
<1>1. Carries(req[p]) /\ Goto(p, "insertVerification") /\ req[p].document \in 1..lastDocument
      BY DEF insertDocument, At, Carries, IInv, RequestsOK, Relies
<1>2. /\ documents' = documents \cup {req[p].document}
      /\ UNCHANGED <<profileVars, fileVars, verifications, accountVars>>
      BY DEF insertDocument
<1>3. Tables' /\ OneVerification' /\ ErasedWhenCompleted'
      BY <1>1, <1>2 DEF IInv, TypeOK, Tables, OneVerification, ErasedWhenCompleted, profileVars, fileVars, accountVars
<1> QED BY <1>1, <1>2, <1>3, GoesOn DEF fileVars, accountVars

LEMMA InsertStep == ASSUME IInv, NEW p \in Requests, insertVerification(p) PROVE IInv'
<1>1. Become(p, Idle) /\ UNCHANGED <<profileVars, fileVars, documents, accountVars>> /\ Carries(req[p])
      BY DEF insertVerification, Done, At, Carries
<1>2. req[p].document \in 1..lastDocument /\ req[p] \in Request /\ lastDocument \in Nat /\ lastDocument <= MaxDocuments
      BY <1>1, SchoolAssumption DEF IInv, RequestsOK, Relies, TypeOK
<1>3. CASE UNCHANGED verifications
      BY <1>1, <1>3, Ends DEF Done, schoolVars
<1>4. ASSUME profile = req[p].profile, req[p].document \in documents, UniqueProfile(req[p].profile),
             NEW status \in {"pending", "verified"},
             verifications' = verifications \cup
                 {[document |-> req[p].document, profile |-> req[p].profile, status |-> status]}
      PROVE  IInv'
      <2> DEFINE w == [document |-> req[p].document, profile |-> req[p].profile, status |-> status]
      <2>1. verifications = {}
            BY <1>4 DEF UniqueProfile, IInv, OneVerification
      <2>2. verifications' = {w}
            BY <1>4, <2>1
      <2>3. req[p].profile = profile /\ profile' = profile /\ documents' = documents /\ lastProfile' = lastProfile
            BY <1>1, <1>4 DEF profileVars
      <2>4. profile \in 1..MaxProfiles /\ req[p].document \in 1..MaxDocuments
            <3>1. profile # 0 /\ profile \in 0..lastProfile /\ lastProfile \in 0..MaxProfiles
                  BY <1>1, <2>3 DEF IInv, RequestsOK, Relies, TypeOK
            <3> QED BY <1>2, <3>1, SchoolAssumption DEF IInv, TypeOK
      <2>5. w \in Verification /\ w.profile = profile /\ w.document = req[p].document
            BY <2>3, <2>4 DEF Verification
      <2> HIDE DEF w
      <2>6. Tables'
            BY <1>1, <2>2, <2>5 DEF IInv, TypeOK, Tables, profileVars, fileVars, accountVars
      <2>7. OneVerification' /\ ErasedWhenCompleted'
            BY <1>1, <1>4, <2>2, <2>3, <2>5 DEF IInv, OneVerification, ErasedWhenCompleted, accountVars
      <2>8. Allowed(p, Idle)
            BY <1>1, <1>2, <2>2, <2>5, IdleLight DEF Allowed, Light, fileVars, accountVars
      <2> QED BY <1>1, <2>6, <2>7, <2>8, IdleLight, LightRelies, Moves DEF Light
<1> QED BY <1>3, <1>4 DEF insertVerification

LEMMA DecideStep ==
    ASSUME IInv, NEW v \in verifications, NEW status \in {"verified", "rejected"}, decide(v, status)
    PROVE  IInv'
<1> DEFINE w == [v EXCEPT !.status = status]
<1>1. v \in Verification
      BY DEF IInv, TypeOK
<1>2. w \in Verification /\ w.document = v.document /\ w.profile = v.profile
      BY <1>1 DEF Verification
<1>3. verifications' = (verifications \ {v}) \cup {w} /\ UNCHANGED <<profileVars, fileVars, documents, accountVars, req>>
      BY DEF decide
<1> HIDE DEF w
<1>4. TypeOK' /\ OneVerification' /\ ErasedWhenCompleted'
      BY <1>2, <1>3 DEF IInv, TypeOK, OneVerification, ErasedWhenCompleted, profileVars, fileVars, accountVars
<1>5. \A p \in Requests : Relies(req[p])'
      BY <1>2, <1>3 DEF IInv, RequestsOK, Relies, Carries, Replaces, fileVars, accountVars
<1>6. (\A p, q \in Requests : Apart(req[p], req[q])') /\ Distinct'
      BY <1>3 DEF IInv, RequestsOK, Apart, Distinct, Carries, Replaces
<1> QED BY <1>4, <1>5, <1>6 DEF IInv, RequestsOK

LEMMA FileStep ==
    ASSUME IInv, NEW p \in Requests, create(p) PROVE IInv'
<1>1. PICK x : x = [Idle EXCEPT !.pc = "file"]
      OBVIOUS
<1>2. Light(x)
      BY <1>1, IdleLight DEF Light, Idle, Request, Carries, Replaces
<1> QED BY <1>1, <1>2, LightRelies, Quiet DEF create, Light

LEMMA InsertRequestStep == ASSUME IInv, NEW p \in Requests, insertRequest(p) PROVE IInv'
<1>1. Become(p, Idle) /\ UNCHANGED <<profileVars, fileVars, schoolVars, account>>
      BY DEF insertRequest, Done
<1>2. PICK d \in DataRequests : dataRequests' = [dataRequests EXCEPT ![d] = "pending"]
      BY DEF insertRequest
<1>3. Tables' /\ OneVerification' /\ ErasedWhenCompleted'
      BY <1>1, <1>2 DEF IInv, TypeOK, Tables, OneVerification, ErasedWhenCompleted, RequestStatus,
         profileVars, fileVars, schoolVars
<1> QED BY <1>1, <1>3, IdleLight, Lightens DEF fileVars, schoolVars

LEMMA UpdateStep ==
    ASSUME IInv, NEW p \in Requests, NEW d \in DataRequests,
           NEW status \in {"in_progress", "completed", "rejected"}, updateStatus(p, d, status)
    PROVE  IInv'
<1>1. PICK x : x = [Idle EXCEPT !.pc = IF status = "completed" THEN "eraseFiles" ELSE "resolve",
                                !.request = d, !.status = status]
      OBVIOUS
<1>2. /\ x \in Request /\ x.status = status
      /\ x.pc \in {"eraseFiles", "resolve"} /\ (x.pc = "resolve" => status # "completed")
      BY <1>1, IdleLight DEF Light, Idle, Request, RequestStatus
<1>3. ~ Carries(x) /\ ~ Replaces(x)
      BY <1>2 DEF Carries, Replaces
<1>4. Relies(x) /\ Apart(x, x)
      BY <1>2, <1>3 DEF Relies, Apart
<1> QED BY <1>1, <1>2, <1>3, <1>4, Quiet DEF updateStatus

LEMMA EraseFilesStep == ASSUME IInv, NEW p \in Requests, eraseFiles(p) PROVE IInv'
<1>1. PICK x : x = [req[p] EXCEPT !.pc = "eraseDocuments", !.docs = documents]
      OBVIOUS
<1>2. Become(p, x) /\ files' \subseteq files /\ UNCHANGED <<profileVars, lastDocument, schoolVars, accountVars>>
      BY <1>1 DEF eraseFiles
<1>3. documents \subseteq 1..MaxDocuments
      BY SchoolAssumption DEF IInv, TypeOK
<1>4. Light(x)
      <2>1. x \in Request
            BY <1>1, <1>3 DEF Request, IInv, TypeOK
      <2>2. x.pc = "eraseDocuments"
            BY <1>1 DEF Request, IInv, TypeOK
      <2> QED BY <2>1, <2>2 DEF Light, Carries, Replaces
<1>5. Tables' /\ OneVerification' /\ ErasedWhenCompleted'
      BY <1>2 DEF IInv, TypeOK, Tables, OneVerification, ErasedWhenCompleted, profileVars, schoolVars, accountVars
<1> QED BY <1>2, <1>4, <1>5, Lightens DEF schoolVars, accountVars

LEMMA EraseDocumentsStep == ASSUME IInv, NEW p \in Requests, eraseDocuments(p) PROVE IInv'
<1>1. PICK x : x = [req[p] EXCEPT !.pc = "eraseProfile", !.docs = {}]
      OBVIOUS
<1>2. /\ Become(p, x) /\ documents' = documents \ req[p].docs
      /\ verifications' = {v \in verifications : v.document \notin req[p].docs}
      /\ UNCHANGED <<profileVars, fileVars, accountVars>>
      BY <1>1 DEF eraseDocuments, RemoveDocuments
<1>3. Light(x)
      <2>1. x \in Request
            BY <1>1 DEF Request, IInv, TypeOK
      <2>2. x.pc = "eraseProfile"
            BY <1>1 DEF Request, IInv, TypeOK
      <2> QED BY <2>1, <2>2 DEF Light, Carries, Replaces
<1>4. Tables' /\ OneVerification' /\ ErasedWhenCompleted'
      BY <1>2 DEF IInv, TypeOK, Tables, OneVerification, ErasedWhenCompleted, profileVars, fileVars, accountVars
<1> QED BY <1>2, <1>3, <1>4, Lightens DEF fileVars, accountVars

LEMMA EraseProfileStep == ASSUME IInv, NEW p \in Requests, eraseProfile(p) PROVE IInv'
<1>1. PICK x : x = [req[p] EXCEPT !.pc = "anonymise"]
      OBVIOUS
<1>2. /\ Become(p, x) /\ profile' = 0 /\ verifications' = {}
      /\ UNCHANGED <<lastProfile, fileVars, documents, accountVars>>
      BY <1>1 DEF eraseProfile, Goto, IInv, OneVerification
<1>3. Light(x)
      BY <1>1 DEF Light, Request, Carries, Replaces, IInv, TypeOK
<1>4. Tables' /\ OneVerification' /\ ErasedWhenCompleted'
      BY <1>2, SchoolAssumption DEF IInv, TypeOK, Tables, OneVerification, ErasedWhenCompleted, fileVars, accountVars
<1> QED BY <1>2, <1>3, <1>4, Lightens DEF fileVars, accountVars

LEMMA AnonymiseStep == ASSUME IInv, NEW p \in Requests, anonymise(p) PROVE IInv'
<1>1. PICK x : x = [req[p] EXCEPT !.pc = "resolve"]
      OBVIOUS
<1>2. Become(p, x) /\ account' = "deleted" /\ UNCHANGED <<profileVars, fileVars, schoolVars, dataRequests>>
      BY <1>1 DEF anonymise, Goto
<1>3. x \in Request /\ x.pc = "resolve" /\ ~ Carries(x) /\ ~ Replaces(x)
      BY <1>1 DEF Request, Carries, Replaces, IInv, TypeOK
<1>4. Tables' /\ OneVerification' /\ ErasedWhenCompleted'
      BY <1>2 DEF IInv, TypeOK, Tables, OneVerification, ErasedWhenCompleted, profileVars, fileVars, schoolVars
<1>5. Relies(x)' /\ Apart(x, x)
      BY <1>2, <1>3 DEF Relies, Apart
<1>6. Allowed(p, x)
      BY <1>2, <1>3, SchoolAssumption DEF Allowed, IInv, TypeOK, fileVars, schoolVars
<1> QED BY <1>2, <1>3, <1>4, <1>5, <1>6, Moves

LEMMA ResolveStep == ASSUME IInv, NEW p \in Requests, resolve(p) PROVE IInv'
<1>1. Become(p, Idle) /\ UNCHANGED <<profileVars, fileVars, schoolVars, account>>
      BY DEF resolve, Done
<1>2. dataRequests' = [dataRequests EXCEPT ![req[p].request] = req[p].status] /\ req[p].status \in RequestStatus
      /\ (req[p].status = "completed" => account = "deleted")
      BY DEF resolve, At, IInv, TypeOK, Request, RequestsOK, Relies
<1>3. Tables' /\ OneVerification' /\ ErasedWhenCompleted'
      BY <1>1, <1>2 DEF IInv, TypeOK, Tables, OneVerification, ErasedWhenCompleted, profileVars, fileVars, schoolVars
<1> QED BY <1>1, <1>3, IdleLight, Lightens DEF fileVars, schoolVars

LEMMA IInvStep == IInv /\ [Next]_vars => IInv'
<1> SUFFICES ASSUME IInv, [Next]_vars PROVE IInv'
    OBVIOUS
<1>1. CASE UNCHANGED vars
      BY <1>1 DEF vars, profileVars, fileVars, schoolVars, accountVars, IInv, TypeOK, OneVerification,
         ErasedWhenCompleted, RequestsOK, Relies, Apart, Distinct, Carries, Replaces
<1>2. ASSUME NEW p \in Requests, Crash(p) PROVE IInv'
      BY <1>2, Ends DEF Crash
<1> QED BY <1>1, <1>2, SubmitStep, CreateStep, UploadStep, ExistingStep, RemoveStep, DeleteFileStep,
           RemoveDocumentStep, InsertDocumentStep, InsertStep, DecideStep, FileStep, InsertRequestStep,
           UpdateStep, EraseFilesStep, EraseDocumentsStep, EraseProfileStep, AnonymiseStep, ResolveStep
        DEF Next

\* The strengthened invariant: what is known of every request between two statements.
THEOREM Invariance == Spec => []IInv
<1> QED BY Initially, IInvStep, PTL DEF Spec

\* Every variable keeps its type (documents, school_verifications, data_requests).
THEOREM Typed == Spec => []TypeOK
<1>1. IInv => TypeOK
      BY DEF IInv
<1> QED BY <1>1, Invariance, PTL

\* submit, however often it races with itself and with erasures, leaves a profile with one
\* verification, whose document exists.
THEOREM VerificationsUnique == Spec => []OneVerification
<1>1. IInv => OneVerification
      BY DEF IInv
<1> QED BY <1>1, Invariance, PTL

\* updateStatus stores "completed" only after deleteData has anonymised the account.
THEOREM ErasuresDone == Spec => []ErasedWhenCompleted
<1>1. IInv => ErasedWhenCompleted
      BY DEF IInv
<1> QED BY <1>1, Invariance, PTL

\* The decision on a submission is final, as claimPendingDecision promises two
\* administrators: a new submission is a new document.
THEOREM DecisionsFinal == Spec => DecidedOnce
<1> DEFINE A == \A v \in verifications, w \in verifications' :
                  v.document = w.document /\ v.status # "pending" => w = v
<1>1. IInv /\ [Next]_vars => [A]_vars
      <2> SUFFICES ASSUME IInv, Next PROVE A
          OBVIOUS
      <2>1. ASSUME verifications' \subseteq verifications PROVE A
            BY <2>1 DEF IInv, OneVerification
      <2>2. ASSUME NEW p \in Requests, insertVerification(p) PROVE A
            <3>1. CASE UniqueProfile(req[p].profile) /\ profile = req[p].profile
                  <4>1. verifications = {}
                        BY <3>1 DEF UniqueProfile, IInv, OneVerification
                  <4> QED BY <4>1
            <3>2. CASE UNCHANGED verifications
                  BY <2>1, <3>2
            <3> QED BY <2>2, <3>1, <3>2 DEF insertVerification
      <2>3. ASSUME NEW v \in verifications, NEW status \in {"verified", "rejected"}, decide(v, status) PROVE A
            BY <2>3 DEF decide, claimPendingDecision, IInv, OneVerification
      <2>4. ASSUME NEW p \in Requests,
                   \/ removeVerification(p) \/ removeDocument(p) \/ eraseDocuments(p) \/ eraseProfile(p)
            PROVE  A
            <3>1. verifications' \subseteq verifications
                  BY <2>4 DEF removeVerification, removeDocument, eraseDocuments, eraseProfile, RemoveDocuments
            <3> QED BY <2>1, <3>1
      <2>5. ASSUME NEW p \in Requests,
                   \/ submit(p) \/ createProfile(p) \/ upload(p) \/ findExisting(p) \/ deleteFile(p)
                   \/ insertDocument(p) \/ create(p) \/ insertRequest(p)
                   \/ \E d \in DataRequests, status \in {"in_progress", "completed", "rejected"} :
                        updateStatus(p, d, status)
                   \/ eraseFiles(p) \/ anonymise(p) \/ resolve(p) \/ Crash(p)
            PROVE  A
            <3>1. UNCHANGED verifications
                  BY <2>5 DEF submit, createProfile, upload, findExisting, deleteFile, insertDocument, create,
                     insertRequest, updateStatus, eraseFiles, anonymise, resolve, Crash, schoolVars
            <3> QED BY <2>1, <3>1
      <2> HIDE DEF A
      <2> QED BY <2>2, <2>3, <2>4, <2>5 DEF Next
<1> QED BY <1>1, Invariance, PTL DEF Spec, DecidedOnce

\* While a verification stands, submit does not delete the file that getDetailForAdmin
\* opens; only an erasure does, before it removes the row.
THEOREM FilesKept == Spec => FileKept
<1> DEFINE A == \A v \in verifications \cap verifications' :
                  v.document \in files \ files' => \E p \in Requests : At(p, "eraseFiles")
<1>1. IInv /\ [Next]_vars => [A]_vars
      <2> SUFFICES ASSUME IInv, Next PROVE A
          OBVIOUS
      <2>1. ASSUME files \subseteq files' PROVE A
            BY <2>1
      <2>2. ASSUME NEW p \in Requests, deleteFile(p) PROVE A
            BY <2>2 DEF deleteFile, At, IInv, RequestsOK, Relies
      <2>3. ASSUME NEW p \in Requests, eraseFiles(p) PROVE A
            BY <2>3 DEF eraseFiles
      <2>4. ASSUME NEW p \in Requests,
                   \/ submit(p) \/ createProfile(p) \/ upload(p) \/ findExisting(p) \/ removeVerification(p)
                   \/ removeDocument(p) \/ insertDocument(p) \/ insertVerification(p) \/ create(p)
                   \/ insertRequest(p)
                   \/ \E d \in DataRequests, status \in {"in_progress", "completed", "rejected"} :
                        updateStatus(p, d, status)
                   \/ eraseDocuments(p) \/ eraseProfile(p) \/ anonymise(p) \/ resolve(p) \/ Crash(p)
            PROVE  A
            <3>1. files \subseteq files'
                  BY <2>4 DEF submit, createProfile, upload, findExisting, removeVerification, removeDocument,
                     insertDocument, insertVerification, create, insertRequest, updateStatus, eraseDocuments,
                     eraseProfile, anonymise, resolve, Crash, fileVars
            <3> QED BY <2>1, <3>1
      <2>5. ASSUME NEW v \in verifications, NEW status \in {"verified", "rejected"}, decide(v, status) PROVE A
            BY <2>5 DEF decide, fileVars
      <2> HIDE DEF A
      <2> QED BY <2>2, <2>3, <2>4, <2>5 DEF Next
<1> QED BY <1>1, Invariance, PTL DEF Spec, FileKept

---------------------------------------------------------------------------------
(* What is left of "terminal" for a request: only who was at work when it was       *)
(* resolved can still write it.                                                     *)

\* ReopenedByOverlapOnly, of one request.
Holds(d) ==
    dataRequests[d] \in Resolved =>
        /\ Resolving(d)' \subseteq Resolving(d)
        /\ dataRequests'[d] # dataRequests[d] => Resolving(d)' # Resolving(d)

\* It is enough that the step neither writes d nor starts to work on it.
LEMMA Leaves ==
    ASSUME IInv, NEW p \in Requests, NEW d \in DataRequests, NEW x, Become(p, x),
           dataRequests[d] \in Resolved =>
               /\ dataRequests'[d] = dataRequests[d]
               /\ x.pc \in Resolutions /\ x.request = d => p \in Resolving(d)
    PROVE  Holds(d)
<1>1. \A q \in Requests : req'[q] = IF q = p THEN x ELSE req[q]
      BY DEF Become, IInv, TypeOK
<1>2. ASSUME dataRequests[d] \in Resolved, NEW q \in Resolving(d)' PROVE q \in Resolving(d)
      <2>1. q \in Requests /\ req'[q].pc \in Resolutions /\ req'[q].request = d
            BY <1>2 DEF Resolving
      <2>2. CASE q = p
            BY <1>1, <1>2, <2>1, <2>2
      <2>3. CASE q # p
            BY <1>1, <2>1, <2>3 DEF Resolving
      <2> QED BY <2>2, <2>3
<1> QED BY <1>2 DEF Holds

\* A request that stops, or one that is not about a data request.
LEMMA LeavesLight ==
    ASSUME IInv, NEW p \in Requests, NEW d \in DataRequests, NEW x, Become(p, x),
           x.pc \notin Resolutions, UNCHANGED dataRequests
    PROVE  Holds(d)
BY Leaves

LEMMA SubmissionHolds ==
    ASSUME IInv, NEW p \in Requests, NEW d \in DataRequests,
           \/ submit(p) \/ createProfile(p) \/ upload(p) \/ findExisting(p) \/ removeVerification(p)
           \/ deleteFile(p) \/ removeDocument(p) \/ insertDocument(p) \/ insertVerification(p)
           \/ create(p) \/ Crash(p)
    PROVE  Holds(d)
<1>1. UNCHANGED dataRequests
      BY DEF submit, createProfile, upload, findExisting, removeVerification, deleteFile, removeDocument,
         insertDocument, insertVerification, create, Crash, accountVars
<1>2. req[p] \in Request
      BY DEF IInv, TypeOK
<1>3. ASSUME NEW pc \in {"upload", "deleteFile", "removeDocument", "insertDocument", "insertVerification"},
             Goto(p, pc)
      PROVE  Holds(d)
      <2>1. PICK x : x = [req[p] EXCEPT !.pc = pc]
            OBVIOUS
      <2>2. x.pc = pc
            BY <1>2, <2>1 DEF Request
      <2> QED BY <1>1, <1>3, <2>1, <2>2, LeavesLight DEF Goto, Resolutions
<1>4. ASSUME Done(p) PROVE Holds(d)
      BY <1>1, <1>4, LeavesLight DEF Done, Idle, Resolutions
<1>5. ASSUME submit(p) PROVE Holds(d)
      <2>1. PICK x : x = [Idle EXCEPT !.profile = profile, !.pc = IF profile = 0 THEN "create" ELSE "upload"]
            OBVIOUS
      <2>2. x.pc \in {"create", "upload"}
            BY <2>1 DEF Idle
      <2> QED BY <1>1, <1>5, <2>1, <2>2, LeavesLight DEF submit, Resolutions
<1>6. ASSUME createProfile(p) PROVE Holds(d)
      <2>1. PICK x : x = [req[p] EXCEPT !.pc = "upload", !.profile = profile']
            OBVIOUS
      <2>2. x.pc = "upload"
            BY <1>2, <2>1 DEF Request
      <2>3. Become(p, x) \/ Done(p)
            BY <1>6, <2>1 DEF createProfile
      <2> QED BY <1>1, <1>4, <2>2, <2>3, LeavesLight DEF Resolutions
<1>7. ASSUME upload(p) PROVE Holds(d)
      <2>1. PICK x : x = [req[p] EXCEPT !.pc = "existing", !.document = lastDocument']
            OBVIOUS
      <2>2. x.pc = "existing"
            BY <1>2, <2>1 DEF Request
      <2> QED BY <1>1, <1>7, <2>1, <2>2, LeavesLight DEF upload, Resolutions
<1>8. ASSUME findExisting(p) PROVE Holds(d)
      <2>1. CASE Goto(p, "insertDocument")
            BY <1>3, <2>1
      <2>2. ASSUME NEW v \in verifications, Become(p, [req[p] EXCEPT !.pc = "remove", !.old = v.document])
            PROVE  Holds(d)
            <3>1. PICK x : x = [req[p] EXCEPT !.pc = "remove", !.old = v.document]
                  OBVIOUS
            <3>2. x.pc = "remove"
                  BY <1>2, <3>1 DEF Request
            <3> QED BY <1>1, <2>2, <3>1, <3>2, LeavesLight DEF Resolutions
      <2> QED BY <1>8, <2>1, <2>2 DEF findExisting
<1>9. ASSUME create(p) PROVE Holds(d)
      <2>1. PICK x : x = [Idle EXCEPT !.pc = "file"]
            OBVIOUS
      <2>2. x.pc = "file"
            BY <2>1 DEF Idle
      <2> QED BY <1>1, <1>9, <2>1, <2>2, LeavesLight DEF create, Resolutions
<1> QED BY <1>3, <1>4, <1>5, <1>6, <1>7, <1>8, <1>9
        DEF removeVerification, deleteFile, removeDocument, insertDocument, insertVerification, Crash

\* An erasure goes on with the request it is at work on.
LEMMA ErasureHolds ==
    ASSUME IInv, NEW p \in Requests, NEW d \in DataRequests,
           eraseFiles(p) \/ eraseDocuments(p) \/ eraseProfile(p) \/ anonymise(p)
    PROVE  Holds(d)
<1>1. UNCHANGED dataRequests /\ req[p].pc \in Resolutions
      BY DEF eraseFiles, eraseDocuments, eraseProfile, anonymise, accountVars, At, Resolutions
<1>2. req[p] \in Request
      BY DEF IInv, TypeOK
<1>3. ASSUME NEW x, Become(p, x), x.request = req[p].request PROVE Holds(d)
      BY <1>1, <1>3, Leaves DEF Resolving
<1>4. ASSUME eraseFiles(p) PROVE Holds(d)
      <2>1. PICK x : x = [req[p] EXCEPT !.pc = "eraseDocuments", !.docs = documents]
            OBVIOUS
      <2>2. x.request = req[p].request
            BY <1>2, <2>1 DEF Request
      <2> QED BY <1>3, <1>4, <2>1, <2>2 DEF eraseFiles
<1>5. ASSUME eraseDocuments(p) PROVE Holds(d)
      <2>1. PICK x : x = [req[p] EXCEPT !.pc = "eraseProfile", !.docs = {}]
            OBVIOUS
      <2>2. x.request = req[p].request
            BY <1>2, <2>1 DEF Request
      <2> QED BY <1>3, <1>5, <2>1, <2>2 DEF eraseDocuments
<1>6. ASSUME NEW pc \in {"anonymise", "resolve"}, Goto(p, pc) PROVE Holds(d)
      <2>1. PICK x : x = [req[p] EXCEPT !.pc = pc]
            OBVIOUS
      <2>2. x.request = req[p].request
            BY <1>2, <2>1 DEF Request
      <2> QED BY <1>3, <1>6, <2>1, <2>2 DEF Goto
<1> QED BY <1>4, <1>5, <1>6 DEF eraseProfile, anonymise

\* insertRequest files a new request, updateStatus takes an open one.
LEMMA FilingHolds ==
    ASSUME IInv, NEW p \in Requests, NEW d \in DataRequests,
           \/ insertRequest(p)
           \/ \E e \in DataRequests, status \in {"in_progress", "completed", "rejected"} :
                updateStatus(p, e, status)
    PROVE  Holds(d)
<1>1. dataRequests \in [DataRequests -> RequestStatus]
      BY DEF IInv, TypeOK
<1>2. ASSUME insertRequest(p) PROVE Holds(d)
      <2>1. PICK e \in DataRequests :
                dataRequests[e] = "none" /\ dataRequests' = [dataRequests EXCEPT ![e] = "pending"]
            BY <1>2 DEF insertRequest
      <2>2. dataRequests[d] \in Resolved => dataRequests'[d] = dataRequests[d]
            BY <1>1, <2>1 DEF Resolved
      <2>3. Become(p, Idle) /\ Idle.pc \notin Resolutions
            BY <1>2 DEF insertRequest, Done, Idle, Resolutions
      <2> QED BY <2>2, <2>3, Leaves
<1>3. ASSUME NEW e \in DataRequests, NEW status \in {"in_progress", "completed", "rejected"},
             updateStatus(p, e, status)
      PROVE  Holds(d)
      <2>1. PICK x : x = [Idle EXCEPT !.pc = IF status = "completed" THEN "eraseFiles" ELSE "resolve",
                                      !.request = e, !.status = status]
            OBVIOUS
      <2>2. x.request = e /\ dataRequests[e] \notin Resolved
            BY <1>3, <2>1 DEF updateStatus, OpenRequests, Open, Resolved, Idle
      <2> QED BY <1>3, <2>1, <2>2, Leaves DEF updateStatus, accountVars
<1> QED BY <1>2, <1>3

\* Whoever saves a status is at work on it, and no longer after that.
LEMMA ResolveHolds ==
    ASSUME IInv, NEW p \in Requests, NEW d \in DataRequests, resolve(p)
    PROVE  Holds(d)
<1>1. Become(p, Idle) /\ Idle.pc \notin Resolutions
      BY DEF resolve, Done, Idle, Resolutions
<1>2. CASE req[p].request # d
      <2>1. dataRequests'[d] = dataRequests[d]
            BY <1>2 DEF resolve, IInv, TypeOK
      <2> QED BY <1>1, <2>1, Leaves
<1>3. CASE req[p].request = d
      <2>1. p \in Resolving(d)
            BY <1>3 DEF resolve, At, Resolving, Resolutions
      <2>2. \A q \in Requests : req'[q] = IF q = p THEN Idle ELSE req[q]
            BY <1>1 DEF Become, IInv, TypeOK
      <2>3. p \notin Resolving(d)'
            BY <1>1, <2>2 DEF Resolving
      <2>4. Resolving(d)' \subseteq Resolving(d)
            BY <1>1, <2>2 DEF Resolving
      <2> QED BY <2>1, <2>3, <2>4 DEF Holds
<1> QED BY <1>2, <1>3

LEMMA HoldsStep == ASSUME IInv, [Next]_vars, NEW d \in DataRequests PROVE Holds(d)
<1>1. ASSUME UNCHANGED <<dataRequests, req>> PROVE Holds(d)
      BY <1>1 DEF Holds, Resolving
<1>2. CASE UNCHANGED vars
      BY <1>1, <1>2 DEF vars, accountVars
<1>3. ASSUME NEW v \in verifications, NEW status \in {"verified", "rejected"}, decide(v, status) PROVE Holds(d)
      BY <1>1, <1>3 DEF decide, accountVars
<1> QED BY <1>2, <1>3, SubmissionHolds, ErasureHolds, FilingHolds, ResolveHolds DEF Next

\* updateStatus refuses a completed or rejected request; one that read it before may still
\* overwrite its status, and it is the only one who may.
THEOREM ReopeningsOverlap == Spec => ReopenedByOverlapOnly
<1> DEFINE A == \A d \in DataRequests : Holds(d)
<1>1. IInv /\ [Next]_vars => [A]_vars
      BY HoldsStep
<1>2. [A]_vars <=> [\A d \in DataRequests : dataRequests[d] \in Resolved =>
                      /\ Resolving(d)' \subseteq Resolving(d)
                      /\ dataRequests'[d] # dataRequests[d] => Resolving(d)' # Resolving(d)]_vars
      BY DEF Holds
<1> HIDE DEF A
<1> QED BY <1>1, <1>2, Invariance, PTL DEF Spec, ReopenedByOverlapOnly
=================================================================================
