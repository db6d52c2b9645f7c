---------------------------- MODULE TrialCodesProofs ----------------------------
(***************************************************************************)
(* The safety of trial codes, for any companies, codes, limits and number  *)
(* of concurrent requests.                                                 *)
(*                                                                         *)
(* NotOverRedeemed is not inductive: a redemption in its last step adds a  *)
(* row, and what keeps the count within the limit is that used_count is    *)
(* exact while the code is not revoked (CountInv) and that the transaction *)
(* in its last step is alone and still has a use left (LockInv).  A stale  *)
(* revoke breaks the count, but only together with the status, and only    *)
(* downwards (ReadInv).                                                    *)
(***************************************************************************)
EXTENDS TrialCodes, FiniteSetTheorems, TLAPS

\* What a handler holds: a company and a code where it needs them, a TRIAL row, and
\* a use count that once was within the limit.
Held(t) ==
    /\ t.pc \in {"insert", "claim", "save"} =>
          t.company \in Companies /\ t.code \in Codes /\ t.row.status = "trial"
    /\ t.pc = "activate" => t.company \in Companies
    /\ t.pc \in {"revoke", "update"} =>
          t.code \in Codes /\ t.used <= maxUses[t.code] /\ code[t.code].status # "none"

HeldInv == \A p \in Procs : Held(tx[p])

\* An inserted, uncommitted redemption is the only one of its company.
UniqueInv ==
    \A p \in Procs : tx[p].pc \in {"claim", "save"} =>
        /\ \A x \in redemptions : x.company # tx[p].company
        /\ \A q \in Procs : tx[q].pc \in {"claim", "save"} /\ tx[q].company = tx[p].company
                              => q = p

\* A claimed use is alone on its code, which stays ACTIVE and within its limit.
LockInv ==
    \A p \in Procs : tx[p].pc = "save" =>
        /\ code[tx[p].code].status = "active"
        /\ code[tx[p].code].usedCount < maxUses[tx[p].code]
        /\ \A q \in Procs : tx[q].pc = "save" /\ tx[q].code = tx[p].code => q = p

\* used_count counts the committed redemptions until the code is revoked.
CountInv ==
    /\ IsFiniteSet(redemptions)
    /\ \A c \in Codes : code[c].status # "revoked" => code[c].usedCount = Cardinality(Of(c))

IInv ==
    /\ TypeOK /\ HeldInv /\ UniqueInv /\ LockInv /\ CountInv
    /\ NotOverRedeemed /\ OneTrialPerCompany /\ ConversionRecorded

---------------------------------------------------------------------------------
LEMMA IdleIsHandler == Idle \in Handler /\ Idle.pc = "idle"
BY DEF Idle, Handler, Row

LEMMA Start == Init => IInv
<1> SUFFICES ASSUME Init PROVE IInv
  OBVIOUS
<1> USE TrialCodeAssumption DEF Init
<1>1. TypeOK
  BY DEF TypeOK, Handler, Row, Idle
<1>2. HeldInv /\ UniqueInv /\ LockInv
  BY DEF HeldInv, Held, UniqueInv, LockInv, Idle
<1>3. \A c \in Codes : Of(c) = {}
  BY DEF Of
<1>4. CountInv /\ NotOverRedeemed
  <2>1. IsFiniteSet({}) /\ Cardinality({}) = 0
    BY FS_EmptySet
  <2>2. \A c \in Codes : Cardinality(Of(c)) = 0
    BY <1>3, <2>1
  <2> QED
    BY <2>1, <2>2 DEF CountInv, NotOverRedeemed
<1>5. OneTrialPerCompany /\ ConversionRecorded
  BY DEF OneTrialPerCompany, ConversionRecorded
<1> QED
  BY <1>1, <1>2, <1>4, <1>5 DEF IInv

\* The rows of one code change only with the rows of the table.
LEMMA SameRedemptions ==
    ASSUME redemptions' = redemptions, NEW c \in Codes
    PROVE  Of(c)' = Of(c)
BY DEF Of

\* One more redemption: its own code's rows grow by one, the others' stay.
LEMMA OneMore ==
    ASSUME NEW x \in [company : Companies, code : Codes], x \notin redemptions,
           IsFiniteSet(redemptions), redemptions' = redemptions \cup {x}
    PROVE  /\ IsFiniteSet(redemptions')
           /\ Cardinality(Of(x.code)') = Cardinality(Of(x.code)) + 1
           /\ \A c \in Codes \ {x.code} : Of(c)' = Of(c)
<1>1. Of(x.code)' = Of(x.code) \cup {x} /\ x \notin Of(x.code)
  BY DEF Of
<1>2. IsFiniteSet(Of(x.code))
  BY FS_Subset DEF Of
<1>3. Cardinality(Of(x.code) \cup {x}) = Cardinality(Of(x.code)) + 1
  BY <1>1, <1>2, FS_AddElement
<1>4. IsFiniteSet(redemptions')
  BY FS_AddElement
<1>5. \A c \in Codes \ {x.code} : Of(c)' = Of(c)
  BY DEF Of
<1> QED
  BY <1>1, <1>3, <1>4, <1>5

\* Steps that touch neither the codes nor the redemptions: only the handlers' own
\* invariants need work.
LEMMA Counted ==
    ASSUME IInv, redemptions' = redemptions,
           code' = code
    PROVE  CountInv' /\ NotOverRedeemed' /\ OneTrialPerCompany'
<1>1. \A c \in Codes : Of(c)' = Of(c)
  BY SameRedemptions
<1>2. CountInv'
  BY <1>1 DEF IInv, CountInv
<1>3. NotOverRedeemed'
  BY <1>1 DEF IInv, NotOverRedeemed
<1>4. OneTrialPerCompany'
  BY DEF IInv, OneTrialPerCompany
<1> QED
  BY <1>2, <1>3, <1>4

---------------------------------------------------------------------------------
(* One lemma per action.                                                         *)

LEMMA StepCreate ==
    ASSUME IInv, NEW c \in Codes, create(c)
    PROVE  IInv'
<1> USE TrialCodeAssumption
<1>1. TypeOK'
  BY DEF IInv, TypeOK, create
<1>2. HeldInv' /\ UniqueInv'
  BY DEF IInv, TypeOK, HeldInv, Held, UniqueInv, create
<1>3. LockInv'
  BY DEF IInv, TypeOK, HeldInv, Held, LockInv, create
<1>4. \A d \in Codes : Of(d)' = Of(d)
  BY SameRedemptions DEF create
<1>5. CountInv' /\ NotOverRedeemed'
  BY <1>4 DEF IInv, TypeOK, CountInv, NotOverRedeemed, create
<1>6. OneTrialPerCompany' /\ ConversionRecorded'
  BY DEF IInv, OneTrialPerCompany, ConversionRecorded, create
<1> QED
  BY <1>1, <1>2, <1>3, <1>5, <1>6 DEF IInv

LEMMA StepExpire ==
    ASSUME IInv, NEW c \in Codes, Expire(c)
    PROVE  IInv'
<1> USE TrialCodeAssumption
<1>1. TypeOK'
  BY DEF IInv, TypeOK, Expire
<1>2. HeldInv' /\ UniqueInv'
  BY DEF IInv, TypeOK, HeldInv, Held, UniqueInv, Expire
<1>3. LockInv'
  BY DEF IInv, TypeOK, HeldInv, Held, LockInv, Expire
<1>4. \A d \in Codes : Of(d)' = Of(d)
  BY SameRedemptions DEF Expire
<1>5. CountInv' /\ NotOverRedeemed'
  BY <1>4 DEF IInv, TypeOK, CountInv, NotOverRedeemed, Expire
<1>6. OneTrialPerCompany' /\ ConversionRecorded'
  BY DEF IInv, OneTrialPerCompany, ConversionRecorded, Expire
<1> QED
  BY <1>1, <1>2, <1>3, <1>5, <1>6 DEF IInv

\* The steps that only change the handler's own state.
LEMMA StepOfOne ==
    ASSUME IInv, NEW p \in Procs, UNCHANGED <<code, redemptions, converted, trial>>,
           NEW t \in Handler, tx' = [tx EXCEPT ![p] = t], Held(t),
           t.pc \in {"claim", "save"} =>
              /\ \A x \in redemptions : x.company # t.company
              /\ \A q \in Procs \ {p} : tx[q].pc \in {"claim", "save"} => tx[q].company # t.company,
           t.pc = "save" =>
              /\ code[t.code].status = "active"
              /\ code[t.code].usedCount < maxUses[t.code]
              /\ \A q \in Procs \ {p} : tx[q].pc = "save" => tx[q].code # t.code
    PROVE  IInv'
<1>1. tx'[p] = t /\ (\A q \in Procs \ {p} : tx'[q] = tx[q]) /\ tx' \in [Procs -> Handler]
  BY DEF IInv, TypeOK
<1>2. TypeOK'
  BY <1>1 DEF IInv, TypeOK
<1>3. HeldInv'
  BY <1>1 DEF IInv, HeldInv, Held
<1>4. UniqueInv'
  BY <1>1 DEF IInv, UniqueInv
<1>5. LockInv'
  BY <1>1 DEF IInv, LockInv
<1>6. CountInv' /\ NotOverRedeemed' /\ OneTrialPerCompany'
  BY Counted
<1>7. ConversionRecorded'
  BY DEF IInv, ConversionRecorded
<1> QED
  BY <1>2, <1>3, <1>4, <1>5, <1>6, <1>7 DEF IInv

LEMMA StepAbort ==
    ASSUME IInv, NEW p \in Procs, Abort(p)
    PROVE  IInv'
<1>1. Idle \in Handler /\ Held(Idle) /\ Idle.pc = "idle"
  BY DEF Handler, Held, Idle, Row
<1> QED
  BY <1>1, StepOfOne DEF Abort

LEMMA StepRedeem ==
    ASSUME IInv, NEW p \in Procs, NEW k \in Companies, NEW c \in Codes, redeem(p, k, c)
    PROVE  IInv'
<1> DEFINE t == [Idle EXCEPT !.pc = "insert", !.company = k, !.code = c, !.row = trial[k]]
<1>1. t \in Handler /\ Held(t) /\ t.pc = "insert"
  BY DEF IInv, TypeOK, Handler, Held, Idle, Row, redeem
<1>2. tx' = [tx EXCEPT ![p] = t] /\ UNCHANGED <<code, redemptions, converted, trial>>
  BY DEF redeem
<1> HIDE DEF t
<1> QED
  BY <1>1, <1>2, StepOfOne

LEMMA StepActivateLoad ==
    ASSUME IInv, NEW p \in Procs, NEW k \in Companies, activateLoad(p, k)
    PROVE  IInv'
<1> DEFINE t == [Idle EXCEPT !.pc = "activate", !.company = k, !.row = trial[k]]
<1>1. t \in Handler /\ Held(t) /\ t.pc = "activate"
  BY DEF IInv, TypeOK, Handler, Held, Idle, Row, activateLoad
<1>2. tx' = [tx EXCEPT ![p] = t] /\ UNCHANGED <<code, redemptions, converted, trial>>
  BY DEF activateLoad
<1> HIDE DEF t
<1> QED
  BY <1>1, <1>2, StepOfOne

LEMMA StepRevoke ==
    ASSUME IInv, NEW p \in Procs, NEW c \in Codes, revoke(p, c)
    PROVE  IInv'
<1> DEFINE t == [Idle EXCEPT !.pc = "revoke", !.code = c, !.used = code[c].usedCount]
<1>1. t \in Handler /\ Held(t) /\ t.pc = "revoke"
  BY TrialCodeAssumption DEF IInv, TypeOK, Handler, Held, Idle, Row, revoke
<1>2. tx' = [tx EXCEPT ![p] = t] /\ UNCHANGED <<code, redemptions, converted, trial>>
  BY DEF revoke
<1> HIDE DEF t
<1> QED
  BY <1>1, <1>2, StepOfOne

LEMMA StepRevokeCompare ==
    ASSUME IInv, NEW p \in Procs, revokeCompare(p)
    PROVE  IInv'
<1> DEFINE b == code[tx[p].code].usedCount # tx[p].used
           t == [tx[p] EXCEPT !.pc = "update", !.stale = b]
<1>1. tx[p] \in Handler /\ Held(tx[p]) /\ tx[p].pc = "revoke"
  BY DEF IInv, TypeOK, HeldInv, Held, revokeCompare
<1>2. tx' = [tx EXCEPT ![p] = t] /\ UNCHANGED <<code, redemptions, converted, trial>>
  BY DEF revokeCompare
<1>3. b \in BOOLEAN
  OBVIOUS
<1> HIDE DEF b
<1>4. t \in Handler /\ Held(t) /\ t.pc = "update"
  BY <1>1, <1>3 DEF Handler, Held
<1> HIDE DEF t
<1> QED
  BY <1>2, <1>4, StepOfOne

LEMMA StepInsert ==
    ASSUME IInv, NEW p \in Procs, insertRedemption(p)
    PROVE  IInv'
<1> DEFINE t == [tx[p] EXCEPT !.pc = "claim"]
<1>1. tx[p] \in Handler /\ Held(tx[p]) /\ tx[p].pc = "insert"
  BY DEF IInv, TypeOK, HeldInv, Held, insertRedemption
<1>2. tx' = [tx EXCEPT ![p] = t] /\ UNCHANGED <<code, redemptions, converted, trial>>
  BY <1>1 DEF insertRedemption, Handler
<1>3. t \in Handler /\ Held(t) /\ t.pc = "claim" /\ t.company = tx[p].company
  BY <1>1 DEF Handler, Held
<1>4. /\ \A x \in redemptions : x.company # tx[p].company
      /\ \A q \in Procs : tx[q].pc \in {"claim", "save"} => tx[q].company # tx[p].company
  BY DEF insertRedemption, UniqueCompany
<1> HIDE DEF t
<1> QED
  BY <1>2, <1>3, <1>4, StepOfOne

LEMMA StepClaim ==
    ASSUME IInv, NEW p \in Procs, claim(p)
    PROVE  IInv'
<1> DEFINE t == [tx[p] EXCEPT !.pc = "save"]
<1>1. tx[p] \in Handler /\ Held(tx[p]) /\ tx[p].pc = "claim"
  BY DEF IInv, TypeOK, HeldInv, Held, claim
<1>2. tx' = [tx EXCEPT ![p] = t] /\ UNCHANGED <<code, redemptions, converted, trial>>
  BY <1>1 DEF claim, Handler
<1>3. t \in Handler /\ Held(t) /\ t.pc = "save"
      /\ t.company = tx[p].company /\ t.code = tx[p].code
  BY <1>1 DEF Handler, Held
<1>4. /\ \A x \in redemptions : x.company # tx[p].company
      /\ \A q \in Procs \ {p} : tx[q].pc \in {"claim", "save"} => tx[q].company # tx[p].company
  BY <1>1 DEF IInv, UniqueInv
<1>5. /\ code[tx[p].code].status = "active"
      /\ code[tx[p].code].usedCount < maxUses[tx[p].code]
      /\ \A q \in Procs \ {p} : tx[q].pc = "save" => tx[q].code # tx[p].code
  BY DEF claim, CodeFree
<1> HIDE DEF t
<1> QED
  BY <1>2, <1>3, <1>4, <1>5, StepOfOne

\* The stale save: used_count may be wrong afterwards, but the code is REVOKED and no
\* claim holds it.
LEMMA StepRevokeSave ==
    ASSUME IInv, NEW p \in Procs, revokeSave(p)
    PROVE  IInv'
<1> USE TrialCodeAssumption
<1> DEFINE c == tx[p].code
<1>1. c \in Codes /\ tx[p].used \in Nat /\ tx[p].used <= maxUses[c]
  BY DEF IInv, TypeOK, Handler, HeldInv, Held, revokeSave
<1>a. /\ tx' = [tx EXCEPT ![p] = Idle]
      /\ tx' \in [Procs -> Handler] /\ tx'[p].pc = "idle" /\ \A q \in Procs \ {p} : tx'[q] = tx[q]
      /\ UNCHANGED <<redemptions, converted, trial>>
  BY IdleIsHandler DEF IInv, TypeOK, revokeSave
<1>b. \A d \in Codes \ {c} : code'[d] = code[d]
  BY <1>1 DEF IInv, TypeOK, revokeSave
<1>c. /\ code' \in [Codes -> [status : {"none", "active", "revoked"}, usedCount : Nat,
                             expired : BOOLEAN]]
      /\ code'[c].status = "revoked" /\ code'[c].usedCount <= maxUses[c]
  <2> DEFINE n == IF tx[p].stale THEN tx[p].used ELSE code[c].usedCount
             x == [code[c] EXCEPT !.status = "revoked", !.usedCount = n]
  <2>1. /\ code[c] \in [status : {"none", "active", "revoked"}, usedCount : Nat, expired : BOOLEAN]
        /\ n \in Nat /\ n <= maxUses[c]
    BY <1>1 DEF IInv, TypeOK
  <2>2. code' = [code EXCEPT ![c] = x]
    BY <1>1 DEF IInv, TypeOK, revokeSave
  <2> HIDE DEF n
  <2>3. /\ x \in [status : {"none", "active", "revoked"}, usedCount : Nat, expired : BOOLEAN]
        /\ x.status = "revoked" /\ x.usedCount = n
    BY <2>1
  <2> HIDE DEF x
  <2> QED BY <1>1, <2>1, <2>2, <2>3 DEF IInv, TypeOK
<1>2. TypeOK'
  BY <1>a, <1>b, <1>c DEF IInv, TypeOK
<1>3. HeldInv'
  <2>1. \A q \in Procs \ {p} : Held(tx[q])'
    BY <1>a, <1>b, <1>c DEF IInv, HeldInv, Held
  <2>2. Held(tx[p])'
    BY <1>a DEF Held
  <2> QED BY <2>1, <2>2 DEF HeldInv
<1>3a. UniqueInv'
  BY <1>a DEF IInv, UniqueInv
<1>4. LockInv'
  <2>1. \A q \in Procs : tx[q].pc = "save" => tx[q].code # c
    BY DEF revokeSave, CodeFree
  <2>2. \A q \in Procs : tx[q].pc = "save" => tx[q].code \in Codes
    BY DEF IInv, HeldInv, Held
  <2> QED BY <1>a, <1>b, <2>1, <2>2 DEF IInv, LockInv
<1>5. \A d \in Codes : Of(d)' = Of(d)
  BY SameRedemptions DEF revokeSave
<1>6. CountInv' /\ NotOverRedeemed'
  BY <1>1, <1>5 DEF IInv, TypeOK, CountInv, NotOverRedeemed, revokeSave
<1>7. OneTrialPerCompany' /\ ConversionRecorded'
  BY DEF IInv, OneTrialPerCompany, ConversionRecorded, revokeSave
<1> QED
  BY <1>2, <1>3, <1>3a, <1>4, <1>6, <1>7 DEF IInv

LEMMA StepActivateSave ==
    ASSUME IInv, NEW p \in Procs, activateSave(p)
    PROVE  IInv'
<1> USE TrialCodeAssumption
<1>1. tx[p].company \in Companies
  BY DEF IInv, HeldInv, Held, activateSave
<1>2. TypeOK'
  BY <1>1 DEF IInv, TypeOK, Handler, activateSave, markConvertedIfApplicable, Idle, Row
<1>a. /\ tx'[p].pc = "idle" /\ \A q \in Procs \ {p} : tx'[q] = tx[q]
      /\ UNCHANGED <<code, redemptions>>
  BY IdleIsHandler DEF IInv, TypeOK, activateSave
<1>3. HeldInv' /\ UniqueInv' /\ LockInv'
  <2>1. HeldInv'
    BY <1>a DEF IInv, HeldInv, Held
  <2>2. UniqueInv'
    BY <1>a DEF IInv, UniqueInv
  <2>3. LockInv'
    BY <1>a DEF IInv, LockInv
  <2> QED BY <2>1, <2>2, <2>3
<1>4. CountInv' /\ NotOverRedeemed' /\ OneTrialPerCompany'
  BY Counted DEF activateSave
<1>5. ConversionRecorded'
  BY <1>1 DEF IInv, TypeOK, ConversionRecorded, activateSave, markConvertedIfApplicable
<1> QED
  BY <1>2, <1>3, <1>4, <1>5 DEF IInv

LEMMA StepSaveTrial ==
    ASSUME IInv, NEW p \in Procs, saveTrial(p)
    PROVE  IInv'
<1> USE TrialCodeAssumption
<1>0. tx[p].company \in Companies /\ tx[p].code \in Codes
  BY DEF IInv, HeldInv, Held, saveTrial
<1> PICK k \in Companies : k = tx[p].company
  BY <1>0
<1> PICK c \in Codes : c = tx[p].code
  BY <1>0
<1> DEFINE x == [company |-> k, code |-> c]
<1>1. tx[p].row \in Row /\ tx[p].row.status = "trial"
  BY DEF IInv, TypeOK, Handler, HeldInv, Held, saveTrial
<1>2. /\ \A y \in redemptions : y.company # k
      /\ code[c].status = "active" /\ code[c].usedCount < maxUses[c]
      /\ code[c].usedCount \in Nat
  BY <1>1 DEF IInv, TypeOK, UniqueInv, LockInv, saveTrial
<1>3. x \in [company : Companies, code : Codes] /\ x \notin redemptions
      /\ redemptions' = redemptions \cup {x}
  BY <1>1, <1>2 DEF saveTrial
<1>4. TypeOK'
  <2>1. [tx[p].row EXCEPT !.grant = c] \in Row /\ Idle \in Handler
    BY <1>1 DEF Row, Handler, Idle
  <2>2. code' \in [Codes -> [status : {"none", "active", "revoked"}, usedCount : Nat,
                             expired : BOOLEAN]]
    BY <1>2 DEF IInv, TypeOK, saveTrial
  <2>3. \A d \in Codes : code'[d].usedCount <= maxUses[d]
    <3>1. code'[c].usedCount = code[c].usedCount + 1
          /\ \A d \in Codes \ {c} : code'[d] = code[d]
      BY DEF IInv, TypeOK, saveTrial
    <3>2. code[c].usedCount + 1 <= maxUses[c]
      BY <1>2
    <3> QED
      BY <3>1, <3>2 DEF IInv, TypeOK
  <2>4. trial' \in [Companies -> Row] /\ tx' \in [Procs -> Handler]
    BY <2>1 DEF IInv, TypeOK, saveTrial
  <2> QED
    BY <1>3, <2>2, <2>3, <2>4 DEF IInv, TypeOK, saveTrial
<1>5. HeldInv'
  BY <1>1 DEF IInv, TypeOK, HeldInv, Held, saveTrial, Idle
<1>6. UniqueInv'
  BY <1>1 DEF IInv, TypeOK, UniqueInv, saveTrial, Idle
<1>7. LockInv'
  <2>1. tx'[p].pc = "idle" /\ \A q \in Procs \ {p} : tx'[q] = tx[q]
    BY DEF IInv, TypeOK, saveTrial, Idle
  <2>2. \A d \in Codes \ {c} : code'[d] = code[d]
    BY DEF IInv, TypeOK, saveTrial
  <2>3. \A q \in Procs \ {p} : tx[q].pc = "save" => tx[q].code \in Codes \ {c}
    BY <1>1 DEF IInv, HeldInv, Held, LockInv, saveTrial
  <2> QED BY <2>1, <2>2, <2>3 DEF IInv, LockInv
<1>8. /\ IsFiniteSet(redemptions')
      /\ Cardinality(Of(c)') = Cardinality(Of(c)) + 1
      /\ \A d \in Codes \ {c} : Of(d)' = Of(d)
  <2>1. IsFiniteSet(redemptions) /\ x.code = c
    BY DEF IInv, CountInv
  <2> HIDE DEF x
  <2> QED
    BY <1>3, <2>1, OneMore
<1>9. code'[c].usedCount = code[c].usedCount + 1 /\ code'[c].status = "active"
      /\ \A d \in Codes \ {c} : code'[d] = code[d]
  BY <1>1, <1>2 DEF IInv, TypeOK, saveTrial
<1>10. CountInv' /\ NotOverRedeemed'
  <2>1. code[c].usedCount = Cardinality(Of(c))
    BY <1>1, <1>2 DEF IInv, CountInv
  <2>2. Cardinality(Of(c)') <= maxUses[c] /\ code'[c].usedCount = Cardinality(Of(c)')
    BY <1>1, <1>2, <1>8, <1>9, <2>1
  <2>3. CountInv'
    BY <1>1, <1>8, <1>9, <2>2 DEF IInv, CountInv
  <2>4. NotOverRedeemed'
    BY <1>1, <1>8, <2>2 DEF IInv, NotOverRedeemed
  <2> QED
    BY <2>3, <2>4
<1>11. OneTrialPerCompany'
  BY <1>2, <1>3 DEF IInv, OneTrialPerCompany
<1>12. ConversionRecorded'
  <2>1. trial'[k].status = "trial" /\ converted' = converted
        /\ \A j \in Companies \ {k} : trial'[j] = trial[j]
    BY <1>1 DEF IInv, TypeOK, Row, saveTrial
  <2> QED
    BY <1>2, <1>3, <2>1 DEF IInv, TypeOK, ConversionRecorded
<1> QED
  BY <1>4, <1>5, <1>6, <1>7, <1>10, <1>11, <1>12 DEF IInv

LEMMA Stutter == ASSUME IInv, UNCHANGED vars PROVE IInv'
<1>1. UNCHANGED <<code, redemptions, converted, trial, tx>>
  BY DEF vars
<1>2. CountInv' /\ NotOverRedeemed' /\ OneTrialPerCompany'
  BY <1>1, Counted
<1>3. TypeOK' /\ HeldInv' /\ UniqueInv' /\ LockInv' /\ ConversionRecorded'
  BY <1>1 DEF IInv, TypeOK, HeldInv, Held, UniqueInv, LockInv, ConversionRecorded
<1> QED
  BY <1>2, <1>3 DEF IInv

\* IInv is inductive.
LEMMA Inductive == IInv /\ [Next]_vars => IInv'
<1> SUFFICES ASSUME IInv, [Next]_vars PROVE IInv'
  OBVIOUS
<1>1. ASSUME NEW c \in Codes, create(c) \/ Expire(c) PROVE IInv'
  BY <1>1, StepCreate, StepExpire
<1>2. ASSUME NEW p \in Procs, NEW c \in Codes, revoke(p, c) PROVE IInv'
  BY <1>2, StepRevoke
<1>3. ASSUME NEW p \in Procs, NEW c \in Codes, NEW k \in Companies, redeem(p, k, c) PROVE IInv'
  BY <1>3, StepRedeem
<1>4. ASSUME NEW p \in Procs, NEW k \in Companies, activateLoad(p, k) PROVE IInv'
  BY <1>4, StepActivateLoad
<1>5. ASSUME NEW p \in Procs, revokeCompare(p) \/ revokeSave(p) \/ insertRedemption(p)
                               \/ claim(p) \/ saveTrial(p) \/ activateSave(p) \/ Abort(p)
      PROVE  IInv'
  BY <1>5, StepRevokeCompare, StepRevokeSave, StepInsert, StepClaim, StepSaveTrial,
     StepActivateSave, StepAbort
<1> QED
  BY <1>1, <1>2, <1>3, <1>4, <1>5, Stutter DEF Next

\* A redemption that commits has its code ACTIVE: the claim holds the row.
LEMMA CommitsActive ==
    ASSUME IInv, [Next]_vars
    PROVE  \A x \in redemptions' \ redemptions : code[x.code].status = "active"
<1>1. CASE \E p \in Procs : saveTrial(p)
  <2> PICK p \in Procs : saveTrial(p)
    BY <1>1
  <2>1. code[tx[p].code].status = "active"
    BY DEF IInv, LockInv, saveTrial
  <2> QED
    BY <2>1 DEF saveTrial
<1>2. CASE ~ \E p \in Procs : saveTrial(p)
  <2>1. redemptions' = redemptions
    BY <1>2 DEF Next, vars, create, Expire, revoke, redeem, activateLoad, revokeCompare,
                revokeSave, insertRedemption, claim, activateSave, Abort
  <2> QED
    BY <2>1
<1> QED
  BY <1>1, <1>2

---------------------------------------------------------------------------------
(* What a stale revocation may write back.                                       *)

\* A revocation holds a count that was exact when it was read, and redemptions are never
\* taken back: so it holds no more than there are now.
ReadInv ==
    /\ \A c \in Codes : code[c].usedCount <= Cardinality(Of(c))
    /\ \A p \in Procs : tx[p].pc \in {"revoke", "update"} => tx[p].used <= Cardinality(Of(tx[p].code))

\* The rows of a code only grow.
LEMMA Grows ==
    ASSUME IInv, [Next]_vars, NEW c \in Codes
    PROVE  /\ Cardinality(Of(c)) \in Nat /\ Cardinality(Of(c)') \in Nat
           /\ Cardinality(Of(c)) <= Cardinality(Of(c)')
<1>1. IsFiniteSet(redemptions) /\ IsFiniteSet(redemptions')
  BY Inductive DEF IInv, CountInv
<1>2. redemptions \subseteq redemptions'
  <2>1. (\E p \in Procs : saveTrial(p)) => redemptions \subseteq redemptions'
    BY DEF saveTrial
  <2>2. (~ \E p \in Procs : saveTrial(p)) => redemptions' = redemptions
    BY DEF Next, vars, create, Expire, revoke, redeem, activateLoad, revokeCompare,
           revokeSave, insertRedemption, claim, activateSave, Abort
  <2> QED BY <2>1, <2>2
<1>3. Of(c) \subseteq Of(c)' /\ Of(c)' \subseteq redemptions'
  BY <1>2 DEF Of
<1>4. IsFiniteSet(Of(c)')
  BY <1>1, <1>3, FS_Subset
<1> QED BY <1>3, <1>4, FS_Subset, FS_CardinalityType

\* A count changes with a redemption of an ACTIVE code, or in the save that revokes it.
LEMMA CountMoves ==
    ASSUME IInv, [Next]_vars, NEW c \in Codes, code'[c].status = "revoked"
    PROVE  \/ code'[c].usedCount = code[c].usedCount
           \/ \E p \in Procs : /\ tx[p].pc = "update" /\ tx[p].code = c
                               /\ code'[c].usedCount = tx[p].used
<1>0. code \in [Codes -> [status : {"none", "active", "revoked"}, usedCount : Nat, expired : BOOLEAN]]
  BY DEF IInv, TypeOK
<1>1. CASE \E d \in Codes : create(d) \/ Expire(d)
  BY <1>0, <1>1 DEF create, Expire
<1>2. ASSUME NEW p \in Procs, revokeSave(p) PROVE code'[c].usedCount = code[c].usedCount
             \/ \E q \in Procs : /\ tx[q].pc = "update" /\ tx[q].code = c
                                 /\ code'[c].usedCount = tx[q].used
  BY <1>0, <1>2 DEF revokeSave
<1>3. ASSUME NEW p \in Procs, saveTrial(p) PROVE code'[c].usedCount = code[c].usedCount
             \/ \E q \in Procs : /\ tx[q].pc = "update" /\ tx[q].code = c
                                 /\ code'[c].usedCount = tx[q].used
  <2>1. tx[p].code # c => code'[c] = code[c]
    BY <1>0, <1>3 DEF saveTrial
  <2>2. code'[tx[p].code].status = "active"
    BY <1>0, <1>3 DEF IInv, HeldInv, Held, LockInv, saveTrial
  <2> QED BY <2>1, <2>2
<1>4. CASE UNCHANGED code
  BY <1>4
<1> QED
  BY <1>1, <1>2, <1>3, <1>4 DEF Next, vars, revoke, redeem, activateLoad, revokeCompare,
     insertRedemption, claim, activateSave, Abort

\* What a handler has read about a count: it read it before, or reads it in this step.
LEMMA CountRead ==
    ASSUME IInv, [Next]_vars, NEW p \in Procs, tx'[p].pc \in {"revoke", "update"}
    PROVE  /\ tx'[p].code \in Codes
           /\ \/ tx'[p].used = code[tx'[p].code].usedCount
              \/ /\ tx[p].pc \in {"revoke", "update"}
                 /\ tx'[p].used = tx[p].used /\ tx'[p].code = tx[p].code
<1>1. tx \in [Procs -> Handler] /\ tx'[p].code \in Codes
  BY Inductive DEF IInv, TypeOK, HeldInv, Held
<1>2. CASE tx'[p] = tx[p]
  BY <1>1, <1>2
<1>3. ASSUME NEW c \in Codes, revoke(p, c)
      PROVE  tx'[p].used = code[tx'[p].code].usedCount
  BY <1>1, <1>3 DEF revoke, Idle
<1>4. CASE revokeCompare(p)
  <2>1. /\ tx[p].pc = "revoke" /\ tx[p] \in Handler
        /\ tx'[p] = [tx[p] EXCEPT !.pc = "update", !.stale = code[tx[p].code].usedCount # tx[p].used]
    BY <1>1, <1>4 DEF revokeCompare
  <2> QED BY <1>1, <2>1 DEF Handler
<1>5. ASSUME NEW q \in Procs,
             \/ \E c \in Codes, k \in Companies : redeem(q, k, c)
             \/ \E k \in Companies : activateLoad(q, k)
             \/ revokeSave(q) \/ insertRedemption(q) \/ claim(q) \/ saveTrial(q) \/ activateSave(q) \/ Abort(q)
      PROVE  tx'[p] = tx[p]
  <2>1. tx'[q].pc \in {"insert", "claim", "save", "activate", "idle"}
    <3>1. (\E c \in Codes, k \in Companies : redeem(q, k, c)) => tx'[q].pc = "insert"
      BY <1>1 DEF redeem, Idle
    <3>2. (\E k \in Companies : activateLoad(q, k)) => tx'[q].pc = "activate"
      BY <1>1 DEF activateLoad, Idle
    <3>3. insertRedemption(q) \/ claim(q) => tx'[q].pc \in {"claim", "save"}
      BY <1>1 DEF insertRedemption, claim, Handler
    <3>4. revokeSave(q) \/ saveTrial(q) \/ activateSave(q) \/ Abort(q) => tx'[q] = Idle
      BY <1>1 DEF revokeSave, saveTrial, activateSave, Abort
    <3> QED BY <1>5, <3>1, <3>2, <3>3, <3>4, IdleIsHandler
  <2>2. \A r \in Procs \ {q} : tx'[r] = tx[r]
    BY <1>1, <1>5 DEF redeem, activateLoad, revokeSave, insertRedemption, claim, saveTrial,
                      activateSave, Abort
  <2> QED BY <2>1, <2>2
<1>6. ASSUME NEW q \in Procs, q # p, revokeCompare(q) \/ \E c \in Codes : revoke(q, c)
      PROVE  tx'[p] = tx[p]
  BY <1>1, <1>6 DEF revokeCompare, revoke
<1>7. UNCHANGED tx \/ (\E c \in Codes : create(c) \/ Expire(c)) => tx'[p] = tx[p]
  BY DEF create, Expire
<1>8. \/ tx'[p] = tx[p] \/ revokeCompare(p) \/ \E c \in Codes : revoke(p, c)
  BY <1>5, <1>6, <1>7 DEF Next, vars
<1> QED BY <1>1, <1>2, <1>3, <1>4, <1>8

LEMMA ReadStep == IInv /\ ReadInv /\ [Next]_vars => ReadInv'
<1> SUFFICES ASSUME IInv, ReadInv, [Next]_vars PROVE ReadInv'
  OBVIOUS
<1>0. TypeOK /\ TypeOK' /\ HeldInv /\ CountInv'
  BY Inductive DEF IInv
<1>1. ASSUME NEW c \in Codes PROVE code'[c].usedCount <= Cardinality(Of(c)')
  <2>1. CASE code'[c].status # "revoked"
    <3>1. code'[c].usedCount = Cardinality(Of(c)')
      BY <1>0, <2>1 DEF CountInv
    <3> QED BY <3>1, Grows
  <2>2. CASE code'[c].status = "revoked"
    <3>1. code'[c].usedCount <= Cardinality(Of(c))
      BY <2>2, CountMoves DEF ReadInv
    <3>2. code'[c].usedCount \in Nat
      BY <1>0 DEF TypeOK
    <3> QED BY <3>1, <3>2, Grows
  <2> QED BY <2>1, <2>2
<1>2. ASSUME NEW p \in Procs, tx'[p].pc \in {"revoke", "update"}
      PROVE  (tx[p].used <= Cardinality(Of(tx[p].code)))'
  <2> PICK c \in Codes : c = tx'[p].code
    BY <1>2, CountRead
  <2>1. tx'[p].used <= Cardinality(Of(c))
    BY <1>2, CountRead DEF ReadInv
  <2>2. tx'[p].used \in Nat
    BY <1>0 DEF TypeOK, Handler
  <2>3. Cardinality(Of(c)) \in Nat /\ Cardinality(Of(c)') \in Nat /\ Cardinality(Of(c)) <= Cardinality(Of(c)')
    BY Grows
  <2>4. tx'[p].used <= Cardinality(Of(c)')
    BY <2>1, <2>2, <2>3
  <2> QED BY <2>4 DEF Of
<1> QED BY <1>1, <1>2 DEF ReadInv

---------------------------------------------------------------------------------
(* The theorems.                                                                 *)

LEMMA Invariance == Spec => []IInv
BY Start, Inductive, PTL DEF Spec

\* Types are kept, and used_count stays within max_uses.
THEOREM TypeCorrect == Spec => []TypeOK
<1>1. IInv => TypeOK
  BY DEF IInv
<1> QED
  BY <1>1, Invariance, PTL

\* No interleaving of redemptions and revocations redeems a code beyond max_uses.
THEOREM WithinLimit == Spec => []NotOverRedeemed
<1>1. IInv => NotOverRedeemed
  BY DEF IInv
<1> QED
  BY <1>1, Invariance, PTL

\* A company never has two redemptions.
THEOREM NoStacking == Spec => []OneTrialPerCompany
<1>1. IInv => OneTrialPerCompany
  BY DEF IInv
<1> QED
  BY <1>1, Invariance, PTL

\* A paid company that had redeemed a code is marked as converted.
THEOREM EveryConversionRecorded == Spec => []ConversionRecorded
<1>1. IInv => ConversionRecorded
  BY DEF IInv
<1> QED
  BY <1>1, Invariance, PTL

\* No redemption commits on a revoked code.
THEOREM NoRedemptionAfterRevocation == Spec => RedeemedWhileActive
<1>1. IInv /\ [Next]_vars =>
        [\A x \in redemptions' \ redemptions : code[x.code].status = "active"]_vars
  BY CommitsActive
<1> QED
  BY <1>1, Invariance, PTL DEF Spec, RedeemedWhileActive

\* Stale revocations lose uses of a code that has ended and invent none: used_count is
\* exact until the revocation and an undercount at worst afterwards.
THEOREM CountIsHonest == Spec => []NeverOvercounted
<1>1. Init => ReadInv
  <2> SUFFICES ASSUME Init PROVE ReadInv
    OBVIOUS
  <2>1. \A c \in Codes : code[c].usedCount = 0 /\ Of(c) = {}
    BY DEF Init, Of
  <2>2. \A p \in Procs : tx[p].pc = "idle"
    BY DEF Init, Idle
  <2>3. Cardinality({}) = 0
    BY FS_EmptySet
  <2>4. \A c \in Codes : code[c].usedCount <= Cardinality(Of(c))
    BY <2>1, <2>3
  <2> QED BY <2>2, <2>4 DEF ReadInv
<1>2. IInv /\ ReadInv => NeverOvercounted
  BY DEF IInv, CountInv, ReadInv, NeverOvercounted
<1> QED
  BY <1>1, <1>2, ReadStep, Invariance, PTL DEF Spec
=================================================================================
