---------------------------- MODULE SchoolVerifications ----------------------------
(***************************************************************************)
(* One candidate's diplomas, the verification of his school that an        *)
(* administrator decides, and the erasure requests that remove them all.   *)
(*                                                                         *)
(* The profile is its id here (CandidateProfiles has its columns).  Every  *)
(* statement commits by itself, requests interleave, and one may die       *)
(* between two statements.  The database enforces that a profile has one   *)
(* verification and that a verification's profile and document exist:      *)
(* their removal removes it.                                               *)
(***************************************************************************)
EXTENDS Naturals, FiniteSets

CONSTANTS
    Requests,      \* requests in flight at once
    DataRequests,  \* bound: erasure requests ever filed
    MaxDocuments,  \* bound: diplomas ever uploaded
    MaxProfiles    \* bound: profiles ever created

ASSUME SchoolAssumption == MaxDocuments \in Nat /\ MaxProfiles \in Nat

VARIABLES
    account,        \* users.status
    profile,        \* the id of the user's row of candidate_profiles, or 0
    lastProfile,    \* the last profile's id
    documents,      \* rows of documents of type DIPLOMA
    files,          \* the diplomas in the object storage
    lastDocument,   \* the last diploma's id
    verifications,  \* rows of school_verifications
    dataRequests,   \* dataRequests[d]: the status of an erasure request
    req             \* req[p]: where request p stands and what it has read

profileVars == <<profile, lastProfile>>
fileVars    == <<files, lastDocument>>
schoolVars  == <<documents, verifications>>
accountVars == <<account, dataRequests>>
vars == <<profileVars, fileVars, schoolVars, accountVars, req>>

Idle == [pc |-> "idle", profile |-> 0, document |-> 0, old |-> 0, docs |-> {}, request |-> 0, status |-> "none"]

Init ==
    /\ account = "active"
    /\ profile = 0 /\ lastProfile = 0
    /\ documents = {} /\ files = {} /\ lastDocument = 0
    /\ verifications = {}
    /\ dataRequests = [d \in DataRequests |-> "none"]
    /\ req = [p \in Requests |-> Idle]

---------------------------------------------------------------------------------
Become(p, x) == req' = [req EXCEPT ![p] = x]
Done(p)      == Become(p, Idle)
Goto(p, pc)  == Become(p, [req[p] EXCEPT !.pc = pc])
At(p, pc)    == req[p].pc = pc

---------------------------------------------------------------------------------
(* A submission: the profile is found or created, the file stored, the earlier     *)
(* submission removed, and the new one recorded.                                   *)

submit(p) ==
    /\ At(p, "idle")
    /\ Become(p, [Idle EXCEPT !.profile = profile, !.pc = IF profile = 0 THEN "create" ELSE "upload"])
    /\ UNCHANGED <<profileVars, fileVars, schoolVars, accountVars>>

\* A second profile of the user's is refused.
createProfile(p) ==
    /\ At(p, "create")
    /\ \/ /\ profile = 0 /\ lastProfile < MaxProfiles
          /\ lastProfile' = lastProfile + 1 /\ profile' = lastProfile'
          /\ Become(p, [req[p] EXCEPT !.pc = "upload", !.profile = profile'])
       \/ profile # 0 /\ Done(p) /\ UNCHANGED profileVars
    /\ UNCHANGED <<fileVars, schoolVars, accountVars>>

upload(p) ==
    /\ At(p, "upload")
    /\ lastDocument < MaxDocuments
    /\ lastDocument' = lastDocument + 1
    /\ files' = files \cup {lastDocument'}
    /\ Become(p, [req[p] EXCEPT !.pc = "existing", !.document = lastDocument'])
    /\ UNCHANGED <<profileVars, schoolVars, accountVars>>

\* The earlier submission, which the new one replaces.
findExisting(p) ==
    LET earlier == {v \in verifications : v.profile = req[p].profile}
    IN  /\ At(p, "existing")
        /\ \/ earlier = {} /\ Goto(p, "insertDocument")
           \/ \E v \in earlier : Become(p, [req[p] EXCEPT !.pc = "remove", !.old = v.document])
        /\ UNCHANGED <<profileVars, fileVars, schoolVars, accountVars>>

\* Mutant: the file goes before the row that an administrator may open.
deleteFileFirst(p) ==
    /\ At(p, "remove")
    /\ files' = files \ {req[p].old}
    /\ Goto(p, "deleteFile")
    /\ UNCHANGED <<profileVars, lastDocument, schoolVars, accountVars>>

removeVerification(p) ==
    /\ At(p, "remove")
    /\ verifications' = {v \in verifications : v.document # req[p].old}
    /\ Goto(p, "deleteFile")
    /\ UNCHANGED <<profileVars, fileVars, documents, accountVars>>

deleteFile(p) ==
    /\ At(p, "deleteFile")
    /\ files' = files \ {req[p].old}
    /\ Goto(p, "removeDocument")
    /\ UNCHANGED <<profileVars, lastDocument, schoolVars, accountVars>>

\* A document's removal removes its verification.
RemoveDocuments(docs) ==
    /\ documents' = documents \ docs
    /\ verifications' = {v \in verifications : v.document \notin docs}

removeDocument(p) ==
    /\ At(p, "removeDocument")
    /\ RemoveDocuments({req[p].old})
    /\ Goto(p, "insertDocument")
    /\ UNCHANGED <<profileVars, fileVars, accountVars>>

insertDocument(p) ==
    /\ At(p, "insertDocument")
    /\ documents' = documents \cup {req[p].document}
    /\ Goto(p, "insertVerification")
    /\ UNCHANGED <<profileVars, fileVars, verifications, accountVars>>

\* Mutant: no UNIQUE(candidate_profile_id).
AnyProfile(id) == TRUE

\* UNIQUE(candidate_profile_id)
UniqueProfile(id) == \A v \in verifications : v.profile # id

\* The OCR has matched a referenced school with confidence, or an administrator decides.
insertVerification(p) ==
    LET id == req[p].profile
    IN  /\ At(p, "insertVerification")
        /\ IF profile = id /\ req[p].document \in documents /\ UniqueProfile(id)
             THEN \E status \in {"pending", "verified"} :
                    verifications' = verifications \cup
                        {[document |-> req[p].document, profile |-> id, status |-> status]}
             ELSE UNCHANGED verifications
        /\ Done(p)
        /\ UNCHANGED <<profileVars, fileVars, documents, accountVars>>

---------------------------------------------------------------------------------
\* Mutant: the decision is saved whatever the row has become.
claimAny(v) == TRUE

\* The conditional UPDATE of claimPendingDecision.
claimPendingDecision(v) == v.status = "pending"

\* approve and reject; the profile's badge is CandidateProfiles' mark.
decide(v, status) ==
    /\ claimPendingDecision(v)
    /\ verifications' = (verifications \ {v}) \cup {[v EXCEPT !.status = status]}
    /\ UNCHANGED <<profileVars, fileVars, documents, accountVars, req>>

---------------------------------------------------------------------------------
Open == {"pending", "in_progress"}

OpenRequests == {d \in DataRequests : dataRequests[d] \in Open}

\* data-request.service.ts: create, for a request of type ERASURE.
create(p) ==
    /\ At(p, "idle")
    /\ OpenRequests = {}
    /\ Become(p, [Idle EXCEPT !.pc = "file"])
    /\ UNCHANGED <<profileVars, fileVars, schoolVars, accountVars>>

insertRequest(p) ==
    /\ At(p, "file")
    /\ \E d \in DataRequests :
         dataRequests[d] = "none" /\ dataRequests' = [dataRequests EXCEPT ![d] = "pending"]
    /\ Done(p)
    /\ UNCHANGED <<profileVars, fileVars, schoolVars, account>>

\* Mutant: the status is saved before the data is erased.
resolveFirst(p, d, status) ==
    /\ At(p, "idle") /\ d \in OpenRequests
    /\ dataRequests' = [dataRequests EXCEPT ![d] = status]
    /\ Become(p, [Idle EXCEPT !.pc = IF status = "completed" THEN "eraseFiles" ELSE "resolve",
                              !.request = d, !.status = status])
    /\ UNCHANGED <<profileVars, fileVars, schoolVars, account>>

\* updateStatus: an open request; completing it erases first (deleteData).
updateStatus(p, d, status) ==
    /\ At(p, "idle") /\ d \in OpenRequests
    /\ Become(p, [Idle EXCEPT !.pc = IF status = "completed" THEN "eraseFiles" ELSE "resolve",
                              !.request = d, !.status = status])
    /\ UNCHANGED <<profileVars, fileVars, schoolVars, accountVars>>

\* A file that cannot be deleted is only logged.
eraseFiles(p) ==
    /\ At(p, "eraseFiles")
    /\ \E kept \in SUBSET documents : files' = files \ (documents \ kept)
    /\ Become(p, [req[p] EXCEPT !.pc = "eraseDocuments", !.docs = documents])
    /\ UNCHANGED <<profileVars, lastDocument, schoolVars, accountVars>>

eraseDocuments(p) ==
    /\ At(p, "eraseDocuments")
    /\ RemoveDocuments(req[p].docs)
    /\ Become(p, [req[p] EXCEPT !.pc = "eraseProfile", !.docs = {}])
    /\ UNCHANGED <<profileVars, fileVars, accountVars>>

\* A profile's removal removes its verification.
eraseProfile(p) ==
    /\ At(p, "eraseProfile")
    /\ profile' = 0
    /\ verifications' = {v \in verifications : v.profile # profile}
    /\ Goto(p, "anonymise")
    /\ UNCHANGED <<lastProfile, fileVars, documents, accountVars>>

anonymise(p) ==
    /\ At(p, "anonymise")
    /\ account' = "deleted"
    /\ Goto(p, "resolve")
    /\ UNCHANGED <<profileVars, fileVars, schoolVars, dataRequests>>

\* The request is saved as it was loaded, with its new status.
resolve(p) ==
    /\ At(p, "resolve")
    /\ dataRequests' = [dataRequests EXCEPT ![req[p].request] = req[p].status]
    /\ Done(p)
    /\ UNCHANGED <<profileVars, fileVars, schoolVars, account>>

---------------------------------------------------------------------------------
\* The process dies, or a statement fails: what is written stays written.
Crash(p) ==
    /\ req[p].pc # "idle"
    /\ Done(p)
    /\ UNCHANGED <<profileVars, fileVars, schoolVars, accountVars>>

Next ==
    \/ \E p \in Requests :
        \/ submit(p) \/ createProfile(p) \/ upload(p) \/ findExisting(p) \/ removeVerification(p)
        \/ deleteFile(p) \/ removeDocument(p) \/ insertDocument(p) \/ insertVerification(p)
        \/ create(p) \/ insertRequest(p)
        \/ \E d \in DataRequests, status \in {"in_progress", "completed", "rejected"} :
             updateStatus(p, d, status)
        \/ eraseFiles(p) \/ eraseDocuments(p) \/ eraseProfile(p) \/ anonymise(p) \/ resolve(p)
        \/ Crash(p)
    \/ \E v \in verifications, status \in {"verified", "rejected"} : decide(v, status)

Spec == Init /\ [][Next]_vars

---------------------------------------------------------------------------------
Verification == [document : 1..MaxDocuments, profile : 1..MaxProfiles,
                 status : {"pending", "verified", "rejected"}]

RequestStatus == {"none", "pending", "in_progress", "completed", "rejected"}

Request ==
    [pc : {"idle", "create", "upload", "existing", "remove", "deleteFile", "removeDocument",
           "insertDocument", "insertVerification", "file", "eraseFiles", "eraseDocuments",
           "eraseProfile", "anonymise", "resolve"},
     profile : 0..MaxProfiles, document : 0..MaxDocuments, old : 0..MaxDocuments,
     docs : SUBSET (1..MaxDocuments), request : DataRequests \cup {0}, status : RequestStatus]

\* Every variable keeps its type, and a verification's document and profile exist.
TypeOK ==
    /\ account \in {"active", "deleted"}
    /\ profile \in 0..lastProfile /\ lastProfile \in 0..MaxProfiles
    /\ documents \subseteq 1..lastDocument /\ files \subseteq 1..lastDocument
    /\ lastDocument \in 0..MaxDocuments
    /\ verifications \subseteq Verification
    /\ dataRequests \in [DataRequests -> RequestStatus]
    /\ req \in [Requests -> Request]

\* A profile has one verification at most, however submissions of the candidate race, and
\* none outlives its profile or its document.
OneVerification ==
    \A v \in verifications :
        /\ v.profile = profile /\ v.document \in documents
        /\ \A w \in verifications : v.profile = w.profile => v = w

\* A completed erasure has anonymised the account, wherever a request has died before.
ErasedWhenCompleted == (\E d \in DataRequests : dataRequests[d] = "completed") => account = "deleted"

\* A decision on a submission is never changed: "exactly one winner".
DecidedOnce ==
    [][\A v \in verifications, w \in verifications' :
         v.document = w.document /\ v.status # "pending" => w = v]_vars

\* The file an administrator opens exists as long as its verification does; only an
\* erasure deletes it first.
FileKept ==
    [][\A v \in verifications \cap verifications' :
         v.document \in files \ files' => \E p \in Requests : At(p, "eraseFiles")]_vars

Resolved == {"completed", "rejected"}

Resolutions == {"eraseFiles", "eraseDocuments", "eraseProfile", "anonymise", "resolve"}

\* The requests at work on d, which updateStatus has judged when it was open.
Resolving(d) == {p \in Requests : req[p].pc \in Resolutions /\ req[p].request = d}

\* Nobody starts to work on a resolved request, and its status is overwritten only by one
\* who was at work when it was resolved: updateStatus judges the status it reads first and
\* saves last, with the whole erasure in between.
ReopenedByOverlapOnly ==
    [][\A d \in DataRequests : dataRequests[d] \in Resolved =>
         /\ Resolving(d)' \subseteq Resolving(d)
         /\ dataRequests'[d] # dataRequests[d] => Resolving(d)' # Resolving(d)]_vars

---------------------------------------------------------------------------------
(* What a comment in the code says and the code does not do (see README).          *)

\* data-request.service.ts: "`completed` and `rejected` are terminal".
ResolvedStays ==
    [][\A d \in DataRequests : dataRequests[d] \in Resolved => dataRequests'[d] = dataRequests[d]]_vars
=================================================================================
