-------------------------- MODULE InvoiceEmissionProofs --------------------------
(***************************************************************************)
(* Proofs about InvoiceEmission, for any number of events, workers,        *)
(* companies, years and failures.  The safety properties are inductive     *)
(* only together with what the database's waiting gives: the counter's row *)
(* lock (CounterLock), the wait on the marker's unique index (MarkerLock)  *)
(* and the upload that precedes the insert (UploadedPdf).                  *)
(***************************************************************************)
EXTENDS InvoiceEmission, TLAPS

\* One holder per counter row, and its number is the successor of the committed one.
CounterLock ==
    /\ \A v, w \in Workers :
        v # w /\ tx[v].pc \in Holding /\ tx[w].pc \in Holding => tx[v].year # tx[w].year
    /\ \A w \in Workers : tx[w].pc \in Holding => tx[w].number = lastNumber[tx[w].year] + 1

\* An open transaction is the only one for its event, which is not processed yet.
MarkerLock ==
    /\ \A v, w \in Workers : v # w /\ Open(v) /\ Open(w) => tx[v].event # tx[w].event
    /\ \A w \in Workers : Open(w) => tx[w].event \notin processed

\* A worker about to insert has its own PDF under its key.
UploadedPdf ==
    \A w \in Workers : tx[w].pc = "insert" =>
        pdfStorageKey(w) \in DOMAIN objects /\ objects[pdfStorageKey(w)] = tx[w].event

\* The inductive invariant.
IInv ==
    /\ TypeOK
    /\ GapFree
    /\ InvoicedExactlyOnce
    /\ StoredPdfIsOfInvoice
    /\ CounterLock
    /\ MarkerLock
    /\ UploadedPdf

\* The initial state satisfies the inductive invariant.
LEMMA InitIInv == Init => IInv
BY EmissionAssumption
DEF Init, IInv, TypeOK, GapFree, InvoicedExactlyOnce, StoredPdfIsOfInvoice, CounterLock,
    MarkerLock, UploadedPdf, Years, Idle, Open, Holding, Invoice

\* Numbers of committed invoices never exceed the committed counter.
LEMMA NumbersBelowCounter ==
    ASSUME TypeOK, GapFree, NEW i \in invoices
    PROVE  i.number \in 1..lastNumber[i.year] /\ i.year \in Years
BY DEF TypeOK, GapFree, Invoice

\* What the type invariant says of one worker's transaction.
Transaction == [pc : {"idle", "effect", "allocate", "pdf", "insert"},
                event : Events \cup {NoEvent}, year : Nat, number : Nat]

TransactionOK(x) ==
    /\ x \in Transaction
    /\ x.pc # "idle" => x.event \in Events
    /\ x.pc \in Holding \cup {"allocate"} => x.year \in Years
    /\ x.pc \in Holding => x.number # 0

LEMMA TransactionsOK == TypeOK => \A w \in Workers : TransactionOK(tx[w])
BY DEF TypeOK, TransactionOK, Transaction, Open

LEMMA IdleIsTransaction == TransactionOK(Idle)
BY DEF TransactionOK, Transaction, Idle, Holding

\* A worker goes on with a transaction that is in order, and so are the tables.
LEMMA TypeOfStep ==
    ASSUME TypeOK, NEW w \in Workers, NEW x, TransactionOK(x), tx' = [tx EXCEPT ![w] = x],
           year' = year, lastNumber' \in [Years -> Nat], processed' \subseteq Events,
           invoices' \subseteq Invoice, DOMAIN objects' \subseteq Keys,
           \A k \in DOMAIN objects' : objects'[k] \in Events,
           acked' \subseteq Events, failures' \in 0..MaxFailures
    PROVE  TypeOK'
<1>1. x \in Transaction /\ tx \in [Workers -> Transaction]
  BY DEF TypeOK, TransactionOK, Transaction
<1>2. tx' \in [Workers -> Transaction] /\ \A v \in Workers : tx'[v] = IF v = w THEN x ELSE tx[v]
  BY <1>1
<1>3. \A v \in Workers : TransactionOK(tx'[v])
  BY <1>2, TransactionsOK
<1>4. /\ \A v \in Workers : Open(v)' => tx'[v].event \in Events
      /\ \A v \in Workers : tx'[v].pc \in Holding \cup {"allocate"} => tx'[v].year \in Years
      /\ \A v \in Workers : tx'[v].pc \in Holding => tx'[v].number # 0
  BY <1>3 DEF TransactionOK, Open
<1> QED BY <1>2, <1>4 DEF TypeOK, Transaction

\* Writing a PDF leaves the storage well-typed.
LEMMA StoreType ==
    ASSUME TypeOK, NEW w \in Workers, tx[w].pc = "pdf", Store(w)
    PROVE  DOMAIN objects' \subseteq Keys /\ \A k \in DOMAIN objects' : objects'[k] \in Events
<1>1. tx[w].event \in Events /\ tx[w].year \in Years /\ tx[w].number \in Nat \ {0}
  BY TransactionsOK DEF TransactionOK, Transaction, Holding
<1>2. pdfStorageKey(w) \in Keys
  BY <1>1, EmissionAssumption DEF pdfStorageKey, Keys
<1> QED BY <1>1, <1>2 DEF Store, TypeOK

\* The type invariant alone is inductive.
LEMMA TypeStep == TypeOK /\ [Next]_vars => TypeOK'
<1> SUFFICES ASSUME TypeOK, [Next]_vars PROVE TypeOK'
  OBVIOUS
<1> USE EmissionAssumption
<1>a. /\ lastNumber \in [Years -> Nat] /\ processed \subseteq Events /\ invoices \subseteq Invoice
      /\ DOMAIN objects \subseteq Keys /\ (\A k \in DOMAIN objects : objects[k] \in Events)
      /\ acked \subseteq Events /\ failures \in 0..MaxFailures
      /\ failures < MaxFailures => failures + 1 \in 0..MaxFailures
  BY DEF TypeOK
<1>b. \A w \in Workers : TransactionOK(tx[w])
  BY TransactionsOK
<1>1. CASE UNCHANGED vars
  BY <1>1 DEF TypeOK, vars, Open
<1>2. CASE NewYear
  BY <1>2 DEF TypeOK, NewYear, Years, Open
<1>3. ASSUME NEW w \in Workers, Work(w) PROVE TypeOK'
  <2>1. CASE StampIssuedAt(w)
    <3> DEFINE x == [tx[w] EXCEPT !.pc = "allocate", !.year = year]
    <3>1. year \in Nat /\ year \in Years /\ tx[w].event \in Events
      BY <1>b, <2>1 DEF TypeOK, Years, TransactionOK, StampIssuedAt
    <3>2. TransactionOK(x)
      BY <1>b, <3>1 DEF TransactionOK, Transaction, Holding
    <3>3. tx' = [tx EXCEPT ![w] = x]
      BY <2>1 DEF StampIssuedAt, TypeOK
    <3> HIDE DEF x
    <3> QED BY <1>a, <2>1, <3>2, <3>3, TypeOfStep DEF StampIssuedAt
  <2>2. CASE allocateInvoiceNumber(w)
    <3> DEFINE n == lastNumber[tx[w].year] + 1
               x == [tx[w] EXCEPT !.pc = "pdf", !.number = n]
    <3>1. tx[w].event \in Events /\ tx[w].year \in Years /\ n \in Nat \ {0}
      BY <1>a, <1>b, <2>2 DEF TransactionOK, allocateInvoiceNumber
    <3>2. tx' = [tx EXCEPT ![w] = x]
      BY <2>2 DEF allocateInvoiceNumber, TypeOK
    <3> HIDE DEF n
    <3>3. TransactionOK(x)
      BY <1>b, <3>1 DEF TransactionOK, Transaction, Holding
    <3> HIDE DEF x
    <3> QED BY <1>a, <2>2, <3>2, <3>3, TypeOfStep DEF allocateInvoiceNumber
  <2>3. CASE Upload(w)
    <3> DEFINE x == [tx[w] EXCEPT !.pc = "insert"]
    <3>1. TransactionOK(x)
      BY <1>b, <2>3 DEF TransactionOK, Transaction, Holding, Upload
    <3>2. tx' = [tx EXCEPT ![w] = x]
      BY <2>3 DEF Upload, TypeOK
    <3> HIDE DEF x
    <3>3. DOMAIN objects' \subseteq Keys /\ \A k \in DOMAIN objects' : objects'[k] \in Events
      BY <2>3, StoreType DEF Upload
    <3> QED BY <1>a, <2>3, <3>1, <3>2, <3>3, TypeOfStep DEF Upload
  <2>4. CASE Commit(w)
    <3>1. tx[w].event \in Events /\ tx[w].year \in Years /\ tx[w].number \in Nat \ {0}
      BY <1>b, <2>4 DEF TransactionOK, Transaction, Holding, Commit
    <3>2. invoices' \subseteq Invoice
      BY <1>a, <2>4, <3>1 DEF Commit, Invoice
    <3>3. lastNumber' \in [Years -> Nat] /\ processed' \subseteq Events /\ acked' \subseteq Events
      BY <1>a, <2>4, <3>1 DEF Commit
    <3> QED BY <1>a, <2>4, <3>2, <3>3, IdleIsTransaction, TypeOfStep DEF Commit
  <2> QED BY <1>3, <2>1, <2>2, <2>3, <2>4 DEF Work
<1>4. ASSUME NEW w \in Workers, Rollback(w) PROVE TypeOK'
  BY <1>a, <1>4, IdleIsTransaction, TypeOfStep DEF Rollback
<1>5. ASSUME NEW w \in Workers, UploadFails(w) PROVE TypeOK'
  BY <1>a, <1>5, IdleIsTransaction, StoreType, TypeOfStep DEF UploadFails
<1>6. ASSUME NEW w \in Workers, NEW e \in Events, Begin(w, e) PROVE TypeOK'
  <2> DEFINE x == [tx[w] EXCEPT !.pc = "effect", !.event = e]
  <2>1. TransactionOK(x)
    BY <1>b DEF TransactionOK, Transaction, Holding
  <2>2. tx' = [tx EXCEPT ![w] = x]
    BY <1>6 DEF Begin, TypeOK
  <2> HIDE DEF x
  <2> QED BY <1>a, <1>6, <2>1, <2>2, TypeOfStep DEF Begin
<1>7. ASSUME NEW w \in Workers, NEW e \in Events, Replay(w, e) PROVE TypeOK'
  BY <1>7 DEF Replay, TypeOK, Open
<1> QED BY <1>1, <1>2, <1>3, <1>4, <1>5, <1>6, <1>7 DEF Next

\* Type correctness of the whole specification.
THEOREM TypeCorrect == Spec => []TypeOK
<1>1. Init => TypeOK
  BY InitIInv DEF IInv
<1> QED BY <1>1, TypeStep, PTL DEF Spec

\* Steps that only open, advance or stamp a transaction, or answer Stripe, leave
\* the committed rows and the stored objects alone.
LEMMA CommittedRowsStay ==
    ASSUME IInv, UNCHANGED <<lastNumber, processed, invoices, objects>>,
           acked' \subseteq processed
    PROVE  GapFree' /\ InvoicedExactlyOnce' /\ StoredPdfIsOfInvoice'
BY DEF IInv, GapFree, InvoicedExactlyOnce, StoredPdfIsOfInvoice

\* A key under which a lock holder stores its PDF belongs to no committed invoice,
\* and to no other worker that is about to insert.
LEMMA HolderKeyIsFresh ==
    ASSUME IInv, NEW w \in Workers, tx[w].pc = "pdf"
    PROVE  /\ \A i \in invoices : <<CompanyOf[i.event], i.year, i.number>> # pdfStorageKey(w)
           /\ \A v \in Workers : tx[v].pc = "insert" => pdfStorageKey(v) # pdfStorageKey(w)
<1>1. tx[w].year \in Years /\ tx[w].number = lastNumber[tx[w].year] + 1
      /\ lastNumber[tx[w].year] \in Nat
  BY DEF IInv, TypeOK, CounterLock, Holding
<1>2. ASSUME NEW i \in invoices
      PROVE  <<CompanyOf[i.event], i.year, i.number>> # pdfStorageKey(w)
  BY <1>1, <1>2, NumbersBelowCounter DEF IInv, pdfStorageKey
<1>3. ASSUME NEW v \in Workers, tx[v].pc = "insert" PROVE pdfStorageKey(v) # pdfStorageKey(w)
  BY <1>3 DEF IInv, CounterLock, Holding, pdfStorageKey
<1> QED BY <1>2, <1>3

\* Writing an object disturbs no committed invoice and no other uploaded PDF.
LEMMA StoreKeepsPdfs ==
    ASSUME IInv, NEW w \in Workers, tx[w].pc = "pdf", Store(w), UNCHANGED invoices
    PROVE  /\ StoredPdfIsOfInvoice'
           /\ \A v \in Workers : tx[v].pc = "insert" =>
                 pdfStorageKey(v) \in DOMAIN objects' /\ objects'[pdfStorageKey(v)] = tx[v].event
           /\ pdfStorageKey(w) \in DOMAIN objects' /\ objects'[pdfStorageKey(w)] = tx[w].event
<1>1. /\ DOMAIN objects' = DOMAIN objects \cup {pdfStorageKey(w)}
      /\ objects'[pdfStorageKey(w)] = tx[w].event
      /\ \A k \in DOMAIN objects : k # pdfStorageKey(w) => objects'[k] = objects[k]
  BY DEF Store
<1>2. StoredPdfIsOfInvoice'
  BY <1>1, HolderKeyIsFresh DEF IInv, StoredPdfIsOfInvoice
<1>3. ASSUME NEW v \in Workers, tx[v].pc = "insert"
      PROVE  pdfStorageKey(v) \in DOMAIN objects' /\ objects'[pdfStorageKey(v)] = tx[v].event
  BY <1>1, <1>3, HolderKeyIsFresh DEF IInv, UploadedPdf
<1> QED BY <1>1, <1>2, <1>3

\* A worker that leaves the others' transactions alone and closes its own keeps
\* the three facts about waiting.
LEMMA ClosingKeepsLocks ==
    ASSUME IInv, NEW w \in Workers, tx' = [tx EXCEPT ![w] = Idle],
           \A v \in Workers : v # w /\ tx[v].pc \in Holding =>
               lastNumber'[tx[v].year] = lastNumber[tx[v].year],
           \A v \in Workers : v # w /\ Open(v) => tx[v].event \notin processed'
    PROVE  CounterLock' /\ MarkerLock'
BY DEF IInv, TypeOK, CounterLock, MarkerLock, Open, Holding, Idle

\* Commit: the counter, the markers and the rows move together.
LEMMA CommitStep ==
    ASSUME IInv, NEW w \in Workers, Commit(w)
    PROVE  GapFree' /\ InvoicedExactlyOnce' /\ StoredPdfIsOfInvoice'
           /\ CounterLock' /\ MarkerLock' /\ UploadedPdf'
<1> DEFINE y == tx[w].year
           n == tx[w].number
           new == [event |-> tx[w].event, year |-> y, number |-> n]
<1>1. /\ y \in Years /\ n = lastNumber[y] + 1 /\ lastNumber[y] \in Nat
      /\ tx[w].event \in Events /\ tx[w].event \notin processed
      /\ tx[w].pc \in Holding /\ Open(w)
  BY DEF Commit, IInv, TypeOK, CounterLock, MarkerLock, Holding, Open
<1>2. /\ invoices' = invoices \cup {new}
      /\ lastNumber' = [lastNumber EXCEPT ![y] = n]
      /\ processed' = processed \cup {tx[w].event}
      /\ tx' = [tx EXCEPT ![w] = Idle]
      /\ objects' = objects
  BY DEF Commit
<1>3. new.event = tx[w].event /\ new.year = y /\ new.number = n
  OBVIOUS
<1> HIDE DEF new
<1>4. \A i \in invoices : i.year \in Years /\ i.number \in 1..lastNumber[i.year]
  BY NumbersBelowCounter DEF IInv
<1>5. GapFree'
  <2>1. ASSUME NEW z \in Years
        PROVE  {i.number : i \in {j \in invoices' : j.year = z}} = 1..lastNumber'[z]
    <3>1. {i.number : i \in {j \in invoices : j.year = z}} = 1..lastNumber[z]
      BY DEF IInv, GapFree
    <3>2. CASE z # y
      <4>1. {j \in invoices' : j.year = z} = {j \in invoices : j.year = z}
        BY <1>2, <1>3, <3>2
      <4>2. lastNumber'[z] = lastNumber[z]
        BY <1>2, <3>2 DEF IInv, TypeOK
      <4> QED BY <3>1, <4>1, <4>2
    <3>3. CASE z = y
      <4>1. {j \in invoices' : j.year = z} = {j \in invoices : j.year = z} \cup {new}
        BY <1>2, <1>3, <3>3
      <4>2. {i.number : i \in {j \in invoices' : j.year = z}} = 1..lastNumber[z] \cup {n}
        BY <3>1, <4>1, <1>3
      <4>3. lastNumber'[z] = lastNumber[z] + 1 /\ n = lastNumber[z] + 1 /\ lastNumber[z] \in Nat
        BY <1>1, <1>2, <3>3 DEF IInv, TypeOK
      <4> HIDE DEF n
      <4> QED BY <4>2, <4>3
    <3> QED BY <3>2, <3>3
  <2>2. ASSUME NEW i \in invoices', NEW j \in invoices', i.year = j.year, i.number = j.number
        PROVE  i = j
    <3>1. ASSUME NEW k \in invoices PROVE ~ (k.year = y /\ k.number = n)
      BY <1>1, <1>4
    <3> QED BY <1>2, <1>3, <2>2, <3>1 DEF IInv, GapFree
  <2> QED BY <2>1, <2>2 DEF GapFree
<1>6. InvoicedExactlyOnce'
  <2>1. processed = {i.event : i \in invoices} /\ acked \subseteq processed
    BY DEF IInv, InvoicedExactlyOnce
  <2>2. processed' = {i.event : i \in invoices'}
    BY <1>2, <1>3, <2>1
  <2>3. \A i \in invoices : i.event # new.event
    BY <1>1, <1>3, <2>1
  <2>4. \A i, j \in invoices' : i.event = j.event => i = j
    BY <1>2, <2>3 DEF IInv, InvoicedExactlyOnce
  <2>5. acked' \subseteq processed'
    BY <1>2, <2>1 DEF Commit
  <2> QED BY <2>2, <2>4, <2>5 DEF InvoicedExactlyOnce
<1>7. StoredPdfIsOfInvoice'
  <2>1. <<CompanyOf[new.event], new.year, new.number>> = pdfStorageKey(w)
    BY <1>3 DEF pdfStorageKey
  <2>2. pdfStorageKey(w) \in DOMAIN objects /\ objects[pdfStorageKey(w)] = new.event
    BY <1>3 DEF IInv, UploadedPdf, Commit
  <2> QED BY <1>2, <2>1, <2>2 DEF IInv, StoredPdfIsOfInvoice
<1>8. CounterLock' /\ MarkerLock'
  <2>1. \A v \in Workers : v # w /\ tx[v].pc \in Holding =>
            lastNumber'[tx[v].year] = lastNumber[tx[v].year]
    BY <1>1, <1>2 DEF IInv, TypeOK, CounterLock
  <2>2. \A v \in Workers : v # w /\ Open(v) => tx[v].event \notin processed'
    BY <1>1, <1>2 DEF IInv, MarkerLock
  <2> QED BY <1>2, <2>1, <2>2, ClosingKeepsLocks
<1>9. UploadedPdf'
  BY <1>2 DEF IInv, TypeOK, UploadedPdf, pdfStorageKey, Idle
<1> QED BY <1>5, <1>6, <1>7, <1>8, <1>9

\* Every step preserves the inductive invariant.
LEMMA IInvStep == IInv /\ [Next]_vars => IInv'
<1> SUFFICES ASSUME IInv, [Next]_vars PROVE IInv'
  OBVIOUS
<1>0. TypeOK'
  BY TypeStep DEF IInv
<1>a. acked \subseteq processed
  BY DEF IInv, InvoicedExactlyOnce
<1>1. CASE UNCHANGED vars
  BY <1>0, <1>1 DEF vars, IInv, GapFree, InvoicedExactlyOnce, StoredPdfIsOfInvoice,
                    CounterLock, MarkerLock, UploadedPdf, Open, pdfStorageKey
<1>2. CASE NewYear
  BY <1>0, <1>2 DEF NewYear, IInv, GapFree, InvoicedExactlyOnce, StoredPdfIsOfInvoice,
                    CounterLock, MarkerLock, UploadedPdf, Open, pdfStorageKey
<1>3. ASSUME NEW w \in Workers, StampIssuedAt(w) PROVE IInv'
  <2>1. GapFree' /\ InvoicedExactlyOnce' /\ StoredPdfIsOfInvoice'
    BY <1>3, <1>a, CommittedRowsStay DEF StampIssuedAt
  <2>2. /\ \A v \in Workers : v # w => tx'[v] = tx[v]
        /\ tx[w].pc = "effect" /\ tx'[w].pc = "allocate" /\ tx'[w].event = tx[w].event
        /\ UNCHANGED <<lastNumber, processed, objects>>
    BY <1>3 DEF StampIssuedAt, IInv, TypeOK
  <2>3. CounterLock'
    BY <2>2 DEF IInv, CounterLock, Holding
  <2>4. MarkerLock'
    BY <2>2 DEF IInv, MarkerLock, Open
  <2>5. UploadedPdf'
    BY <2>2 DEF IInv, UploadedPdf, pdfStorageKey
  <2> QED BY <1>0, <2>1, <2>3, <2>4, <2>5 DEF IInv
<1>4. ASSUME NEW w \in Workers, allocateInvoiceNumber(w) PROVE IInv'
  <2>1. GapFree' /\ InvoicedExactlyOnce' /\ StoredPdfIsOfInvoice'
    BY <1>4, <1>a, CommittedRowsStay DEF allocateInvoiceNumber
  <2>2. CounterLock'
    BY <1>4 DEF allocateInvoiceNumber, CounterFree, IInv, TypeOK, CounterLock, Holding
  <2>3. MarkerLock' /\ UploadedPdf'
    BY <1>4 DEF allocateInvoiceNumber, IInv, TypeOK, MarkerLock, UploadedPdf, Open, pdfStorageKey
  <2> QED BY <1>0, <2>1, <2>2, <2>3 DEF IInv
<1>5. ASSUME NEW w \in Workers, Upload(w) PROVE IInv'
  <2>1. GapFree' /\ InvoicedExactlyOnce'
    BY <1>5 DEF Upload, IInv, GapFree, InvoicedExactlyOnce
  <2>2. CounterLock' /\ MarkerLock'
    BY <1>5 DEF Upload, IInv, TypeOK, CounterLock, MarkerLock, Open, Holding
  <2>3. StoredPdfIsOfInvoice' /\ UploadedPdf'
    BY <1>5, StoreKeepsPdfs DEF Upload, IInv, TypeOK, UploadedPdf, pdfStorageKey
  <2> QED BY <1>0, <2>1, <2>2, <2>3 DEF IInv
<1>6. ASSUME NEW w \in Workers, Commit(w) PROVE IInv'
  BY <1>0, <1>6, CommitStep DEF IInv
<1>7. ASSUME NEW w \in Workers, Rollback(w) PROVE IInv'
  <2>1. GapFree' /\ InvoicedExactlyOnce' /\ StoredPdfIsOfInvoice'
    BY <1>7, <1>a, CommittedRowsStay DEF Rollback
  <2>2. CounterLock' /\ MarkerLock'
    BY <1>7, ClosingKeepsLocks DEF Rollback, IInv, MarkerLock
  <2>3. UploadedPdf'
    BY <1>7 DEF Rollback, IInv, TypeOK, UploadedPdf, pdfStorageKey, Idle
  <2> QED BY <1>0, <2>1, <2>2, <2>3 DEF IInv
<1>8. ASSUME NEW w \in Workers, UploadFails(w) PROVE IInv'
  <2>1. GapFree' /\ InvoicedExactlyOnce'
    BY <1>8 DEF UploadFails, IInv, GapFree, InvoicedExactlyOnce
  <2>2. CounterLock' /\ MarkerLock'
    BY <1>8, ClosingKeepsLocks DEF UploadFails, IInv, MarkerLock
  <2>3. StoredPdfIsOfInvoice' /\ UploadedPdf'
    BY <1>8, StoreKeepsPdfs DEF UploadFails, IInv, TypeOK, UploadedPdf, pdfStorageKey, Idle
  <2> QED BY <1>0, <2>1, <2>2, <2>3 DEF IInv
<1>9. ASSUME NEW w \in Workers, NEW e \in Events, Begin(w, e) PROVE IInv'
  <2>1. GapFree' /\ InvoicedExactlyOnce' /\ StoredPdfIsOfInvoice'
    BY <1>9, <1>a, CommittedRowsStay DEF Begin
  <2>2. /\ \A v \in Workers : v # w => tx'[v] = tx[v] /\ (Open(v) => tx[v].event # e)
        /\ tx'[w].pc = "effect" /\ tx'[w].event = e /\ e \notin processed
        /\ UNCHANGED <<lastNumber, processed, objects>>
    BY <1>9 DEF Begin, IInv, TypeOK
  <2>3. CounterLock'
    BY <2>2 DEF IInv, CounterLock, Holding
  <2>4. MarkerLock'
    BY <2>2 DEF IInv, MarkerLock, Open
  <2>5. UploadedPdf'
    BY <2>2 DEF IInv, UploadedPdf, pdfStorageKey
  <2> QED BY <1>0, <2>1, <2>3, <2>4, <2>5 DEF IInv
<1>10. ASSUME NEW w \in Workers, NEW e \in Events, Replay(w, e) PROVE IInv'
  <2>1. GapFree' /\ InvoicedExactlyOnce' /\ StoredPdfIsOfInvoice'
    BY <1>10, <1>a, CommittedRowsStay DEF Replay
  <2>2. CounterLock' /\ MarkerLock' /\ UploadedPdf'
    BY <1>10 DEF Replay, IInv, CounterLock, MarkerLock, UploadedPdf, Open, Holding, pdfStorageKey
  <2> QED BY <1>0, <2>1, <2>2 DEF IInv
<1> QED
  BY <1>1, <1>2, <1>3, <1>4, <1>5, <1>6, <1>7, <1>8, <1>9, <1>10 DEF Next, Work

\* The inductive invariant holds in every reachable state.
LEMMA IInvAlways == Spec => []IInv
BY InitIInv, IInvStep, PTL DEF Spec

\* The numbering of legal invoices is gap-free and duplicate-free for every year,
\* whatever fails and however deliveries interleave (allocateInvoiceNumber).
THEOREM NumberingIsGapFree == Spec => []GapFree
<1>1. IInv => GapFree
  BY DEF IInv
<1> QED BY <1>1, IInvAlways, PTL

\* One committed invoice per committed marker (handleWebhook's idempotence).
THEOREM OneInvoicePerPayment == Spec => []InvoicedExactlyOnce
<1>1. IInv => InvoicedExactlyOnce
  BY DEF IInv
<1> QED BY <1>1, IInvAlways, PTL

\* The object under a committed invoice's key is that invoice's PDF, although
\* uploads are not undone by a rollback (InvoiceEmissionService.emit).
THEOREM PdfMatchesInvoice == Spec => []StoredPdfIsOfInvoice
<1>1. IInv => StoredPdfIsOfInvoice
  BY DEF IInv
<1> QED BY <1>1, IInvAlways, PTL

\* The unique constraints of the invoices table are never the thing that stops a
\* duplicate: the row lock and the marker have already done it.
THEOREM UniqueConstraintsIdle == Spec => []ConstraintNeverHit
<1>1. IInv => ConstraintNeverHit
  <2> SUFFICES ASSUME IInv, NEW w \in Workers, tx[w].pc = "insert", NEW i \in invoices
               PROVE  i.event # tx[w].event
                      /\ ~ (i.year = tx[w].year /\ i.number = tx[w].number)
    BY DEF ConstraintNeverHit, UniqueInvoice
  <2>1. i.event # tx[w].event
    BY DEF IInv, InvoicedExactlyOnce, MarkerLock, Open
  <2>2. tx[w].year \in Years /\ tx[w].number = lastNumber[tx[w].year] + 1
        /\ lastNumber[tx[w].year] \in Nat
    BY DEF IInv, TypeOK, CounterLock, Holding
  <2>3. i.number \in 1..lastNumber[i.year]
    BY NumbersBelowCounter DEF IInv
  <2> QED BY <2>1, <2>2, <2>3
<1> QED BY <1>1, IInvAlways, PTL

\* The event on page n of book y is that of the one invoice with that number.
LEMMA LedgerPage ==
    ASSUME IInv, NEW i \in invoices
    PROVE  i.year \in Years /\ i.number \in 1..lastNumber[i.year]
           /\ ledger[i.year][i.number] = i.event
<1>1. i.year \in Years /\ i.number \in 1..lastNumber[i.year]
  BY NumbersBelowCounter DEF IInv
<1>2. (CHOOSE j \in invoices : j.year = i.year /\ j.number = i.number) = i
  BY DEF IInv, GapFree
<1> QED BY <1>1, <1>2 DEF ledger

\* Every page below the counter is filled.
LEMMA LedgerFilled ==
    ASSUME IInv, NEW y \in Years, NEW n \in 1..lastNumber[y]
    PROVE  \E i \in invoices : i.year = y /\ i.number = n
BY DEF IInv, GapFree

\* A book is a sequence of events whose length is the committed counter.
LEMMA LedgerIsSeq ==
    ASSUME IInv, NEW y \in Years
    PROVE  ledger[y] \in Seq(Events) /\ Len(ledger[y]) = lastNumber[y]
<1>1. lastNumber[y] \in Nat
  BY DEF IInv, TypeOK
<1>2. DOMAIN ledger[y] = 1..lastNumber[y]
  BY DEF ledger
<1>3. ASSUME NEW n \in 1..lastNumber[y] PROVE ledger[y][n] \in Events
  <2>1. PICK i \in invoices : i.year = y /\ i.number = n
    BY LedgerFilled
  <2>2. i.event \in Events
    BY DEF IInv, TypeOK, Invoice
  <2> QED BY <2>1, <2>2, LedgerPage
<1>4. ledger[y] = [n \in 1..lastNumber[y] |-> ledger[y][n]]
  BY <1>2 DEF ledger
<1>5. ledger[y] \in [1..lastNumber[y] -> Events]
  BY <1>3, <1>4
<1> HIDE DEF ledger
<1> QED BY <1>1, <1>5

\* A commit appends its event to the book of its year.
LEMMA CommitIssues ==
    ASSUME IInv, IInv', NEW w \in Workers, Commit(w)
    PROVE  Ledger!Issue(tx[w].event, tx[w].year)
<1> DEFINE y == tx[w].year
           e == tx[w].event
           new == [event |-> e, year |-> y, number |-> tx[w].number]
<1>1. /\ y \in Years /\ tx[w].number = lastNumber[y] + 1 /\ lastNumber[y] \in Nat
      /\ e \in Events /\ e \notin processed
  BY DEF Commit, IInv, TypeOK, CounterLock, MarkerLock, Holding, Open
<1>2. /\ invoices' = invoices \cup {new}
      /\ lastNumber' = [lastNumber EXCEPT ![y] = lastNumber[y] + 1]
  BY <1>1 DEF Commit
<1>3. e \notin Ledger!Invoiced
  <2> SUFFICES ASSUME NEW z \in Years, NEW n \in DOMAIN ledger[z], ledger[z][n] = e PROVE FALSE
    BY DEF Ledger!Invoiced
  <2>1. n \in 1..lastNumber[z]
    BY DEF ledger
  <2>2. PICK i \in invoices : i.year = z /\ i.number = n
    BY <2>1, LedgerFilled
  <2>3. i.event = e
    BY <2>2, LedgerPage
  <2> QED BY <1>1, <2>3 DEF IInv, InvoicedExactlyOnce
<1>4. ASSUME NEW z \in Years, NEW n \in 1..lastNumber[z]
      PROVE  n \in 1..lastNumber'[z] /\ ledger'[z][n] = ledger[z][n]
  <2>1. PICK i \in invoices : i.year = z /\ i.number = n
    BY LedgerFilled
  <2>2. ledger[z][n] = i.event
    BY <2>1, LedgerPage
  <2>3. i \in invoices'
    BY <1>2
  <2>4. /\ i.number \in 1..lastNumber'[i.year]
        /\ (CHOOSE j \in invoices' : j.year = i.year /\ j.number = i.number) = i
    BY <2>3 DEF IInv, TypeOK, GapFree, Invoice
  <2> QED BY <2>1, <2>2, <2>3, <2>4 DEF ledger
<1>5. ledger'[y][lastNumber[y] + 1] = e
  <2>1. new \in invoices' /\ new.year = y /\ new.number = lastNumber[y] + 1 /\ new.event = e
    BY <1>1, <1>2
  <2> HIDE DEF new
  <2>2. (CHOOSE j \in invoices' : j.year = new.year /\ j.number = new.number) = new
    BY <2>1 DEF IInv, GapFree
  <2>3. lastNumber[y] + 1 \in 1..lastNumber'[y]
    BY <1>1, <1>2 DEF IInv, TypeOK
  <2> QED BY <1>1, <2>1, <2>2, <2>3 DEF ledger
<1>6. ASSUME NEW z \in Years, z # y PROVE ledger'[z] = ledger[z]
  <2>1. lastNumber'[z] = lastNumber[z]
    BY <1>2, <1>6 DEF IInv, TypeOK
  <2>2. /\ ledger[z] = [n \in 1..lastNumber[z] |-> ledger[z][n]]
        /\ ledger'[z] = [n \in 1..lastNumber[z] |-> ledger'[z][n]]
    BY <2>1 DEF ledger
  <2>3. \A n \in 1..lastNumber[z] : ledger'[z][n] = ledger[z][n]
    BY <1>4
  <2> HIDE DEF ledger
  <2> QED BY <2>2, <2>3
<1>7. ledger'[y] = Append(ledger[y], e)
  <2>1. lastNumber'[y] = lastNumber[y] + 1
    BY <1>1, <1>2 DEF IInv, TypeOK
  <2>2. ledger'[y] = [n \in 1..(lastNumber[y] + 1) |-> ledger'[y][n]]
    BY <1>1, <2>1 DEF ledger
  <2>3. ledger[y] \in Seq(Events) /\ Len(ledger[y]) = lastNumber[y]
    BY <1>1, LedgerIsSeq
  <2>4. \A n \in 1..lastNumber[y] : ledger'[y][n] = ledger[y][n]
    BY <1>1, <1>4
  <2> HIDE DEF ledger, y, e
  <2>5. Append(ledger[y], e) =
          [n \in 1..(lastNumber[y] + 1) |-> IF n = lastNumber[y] + 1 THEN e ELSE ledger[y][n]]
    BY <2>3, <1>1
  <2>6. ASSUME NEW n \in 1..(lastNumber[y] + 1)
        PROVE  ledger'[y][n] = IF n = lastNumber[y] + 1 THEN e ELSE ledger[y][n]
    <3>1. n # lastNumber[y] + 1 => n \in 1..lastNumber[y]
      BY <1>1
    <3> QED BY <1>5, <2>4, <3>1
  <2> QED BY <2>2, <2>5, <2>6, Zenon
<1>8. ledger' = [ledger EXCEPT ![y] = Append(ledger[y], e)]
  <2>1. ledger = [z \in Years |-> ledger[z]] /\ ledger' = [z \in Years |-> ledger'[z]]
    BY DEF ledger
  <2> HIDE DEF ledger
  <2> QED BY <1>1, <1>6, <1>7, <2>1
<1> QED BY <1>3, <1>8 DEF Ledger!Issue

\* Invoice emission, with its locks, rollbacks, retries and duplicate deliveries,
\* implements the abstract ledger.
THEOREM EmissionRefinesLedger == Spec => RefinesLedger
<1>1. Init => Ledger!Init
  <2> SUFFICES ASSUME Init PROVE ledger = [y \in Years |-> <<>>]
    BY DEF Ledger!Init
  <2>1. ASSUME NEW y \in Years PROVE ledger[y] = <<>>
    <3>1. IInv /\ lastNumber[y] = 0
      BY InitIInv DEF Init
    <3> QED BY <3>1, LedgerIsSeq
  <2> QED BY <2>1 DEF ledger
<1>2. IInv /\ IInv' /\ [Next]_vars => [Ledger!Next]_ledger
  <2> SUFFICES ASSUME IInv, IInv', [Next]_vars PROVE [Ledger!Next]_ledger
    OBVIOUS
  <2>1. ASSUME NEW w \in Workers, Commit(w) PROVE Ledger!Next
    <3>1. tx[w].event \in Events /\ tx[w].year \in Years
      BY <2>1 DEF Commit, IInv, TypeOK, Open, Holding
    <3> QED BY <2>1, <3>1, CommitIssues DEF Ledger!Next
  <2>2. CASE UNCHANGED <<lastNumber, invoices>>
    BY <2>2 DEF ledger
  <2> QED
    BY <2>1, <2>2 DEF Next, Work, vars, NewYear, StampIssuedAt, allocateInvoiceNumber, Upload,
                      Rollback, UploadFails, Begin, Replay
<1> QED BY <1>1, <1>2, IInvAlways, PTL DEF Spec, RefinesLedger, Ledger!Spec

--------------------------------------------------------------------------------
\* The breakdowns of tax.ts balance to the centime, keep the rate and agree with each
\* other, for every amount.
LEMMA VatOfEveryAmount == \A amount \in Nat : VatOf(amount)
BY DEF VatOf, Balanced, AtRate, computeVat, computeVatFromTtc, Round, VAT_RATE_PERCENT

\* emit: whatever an invoice is about, its net price and its tax are what was charged.
THEOREM VatIsExact == Spec => []VatExact
<1>1. VatExact
  BY VatOfEveryAmount, EmissionAssumption DEF VatExact
<1> QED
  BY <1>1, PTL
=================================================================================
