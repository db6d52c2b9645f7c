----------------------------- MODULE InvoiceEmission -----------------------------
(***************************************************************************)
(* Emission of legal invoices by the payment webhook.                      *)
(*                                                                         *)
(* A worker is one HTTP delivery of a Stripe event being handled.  It runs *)
(* one database transaction (READ COMMITTED): insert the dedup marker,     *)
(* apply the business effect, then InvoiceEmissionService.emit: stamp      *)
(* issuedAt, lock and increment the year's counter row, render the PDF and *)
(* upload it to object storage, insert the invoice, commit.  What the      *)
(* transaction writes to the database is visible to others at commit and   *)
(* vanishes at rollback; the uploaded object is outside it and stays.      *)
(*                                                                         *)
(* The subscription rows the effect changes are the subject of module      *)
(* Subscriptions; every event here is one that ends in emit.               *)
(***************************************************************************)
EXTENDS Naturals, Sequences, FiniteSets, Vat

CONSTANTS
    Events,        \* paid Stripe events (activated, renewed, plan_changed)
    NoEvent,       \* not an event: what an idle worker handles
    Workers,       \* concurrent deliveries the API processes can be handling
    Companies,
    CompanyOf,     \* the company an event is about
    FirstYear, LastYear,   \* calendar years the clock may show
    MaxFailures,   \* bound: how often a transaction fails or a process dies
    Amounts        \* what a payment may be about, in centimes

ASSUME EmissionAssumption ==
    /\ NoEvent \notin Events
    /\ CompanyOf \in [Events -> Companies]
    /\ FirstYear \in Nat /\ LastYear \in Nat /\ FirstYear <= LastYear
    /\ MaxFailures \in Nat
    /\ Amounts \subseteq Nat

Years == FirstYear..LastYear

VARIABLES
    year,        \* the wall clock's calendar year
    lastNumber,  \* lastNumber[y]: committed counter of year y, 0 before its row exists
    processed,   \* events whose dedup marker is committed
    invoices,    \* committed rows of the invoices table
    objects,     \* object storage: key -> event whose PDF is stored there
    acked,       \* events Stripe has had a 2xx answer for
    tx,          \* tx[w]: the transaction worker w has open
    failures

vars == <<year, lastNumber, processed, invoices, objects, acked, tx, failures>>

Invoice == [event : Events, year : Years, number : Nat \ {0}]
Keys    == Companies \X Years \X (Nat \ {0})

\* A transaction carries what the handler has gathered so far: the event, then
\* the year of issuedAt, then the number.
Idle == [pc |-> "idle", event |-> NoEvent, year |-> 0, number |-> 0]

\* A worker at one of these steps holds the row lock of its year's counter.
Holding == {"pdf", "insert"}

Open(w) == tx[w].pc # "idle"

\* invoices/<company id>/<invoice number>.pdf
pdfStorageKey(w) == <<CompanyOf[tx[w].event], tx[w].year, tx[w].number>>

Init ==
    /\ year = FirstYear
    /\ lastNumber = [y \in Years |-> 0]
    /\ processed = {}
    /\ invoices = {}
    /\ objects = <<>>
    /\ acked = {}
    /\ tx = [w \in Workers |-> Idle]
    /\ failures = 0

\* Mutant: the marker is inserted on its own connection, so it survives a rollback.
RollbackKeepsMarker(w) ==
    /\ Open(w)
    /\ failures < MaxFailures
    /\ failures' = failures + 1
    /\ processed' = processed \cup {tx[w].event}
    /\ tx' = [tx EXCEPT ![w] = Idle]
    /\ UNCHANGED <<year, lastNumber, invoices, objects, acked>>

\* Mutant: the number is drawn like nextval(), so a rollback does not return it.
RollbackKeepsNumber(w) ==
    /\ Open(w)
    /\ failures < MaxFailures
    /\ failures' = failures + 1
    /\ lastNumber' = IF tx[w].pc \in Holding
                       THEN [lastNumber EXCEPT ![tx[w].year] = tx[w].number]
                       ELSE lastNumber
    /\ tx' = [tx EXCEPT ![w] = Idle]
    /\ UNCHANGED <<year, processed, invoices, objects, acked>>

\* Mutant: the counter row is read without FOR UPDATE.
CounterNotLocked(y) == TRUE

(***************************************************************************)
(* handleWebhook: the transaction starts by inserting the dedup marker.    *)
(* While another open transaction holds the same marker the insert waits   *)
(* on the unique index, so the step is not enabled.                        *)
(***************************************************************************)
Begin(w, e) ==
    /\ tx[w].pc = "idle"
    /\ e \notin processed
    /\ \A v \in Workers : Open(v) => tx[v].event # e
    /\ tx' = [tx EXCEPT ![w].pc = "effect", ![w].event = e]
    /\ UNCHANGED <<year, lastNumber, processed, invoices, objects, acked, failures>>

\* A delivery of an event whose marker is committed: 23505 on the marker,
\* { alreadyProcessed: true }, answered with a 2xx.
Replay(w, e) ==
    /\ tx[w].pc = "idle"
    /\ e \in processed
    /\ acked' = acked \cup {e}
    /\ UNCHANGED <<year, lastNumber, processed, invoices, objects, tx, failures>>

\* emit: issuedAt is read before the counter is locked, and its year decides
\* which counter the invoice belongs to.
StampIssuedAt(w) ==
    /\ tx[w].pc = "effect"
    /\ tx' = [tx EXCEPT ![w].pc = "allocate", ![w].year = year]
    /\ UNCHANGED <<year, lastNumber, processed, invoices, objects, acked, failures>>

\* SELECT ... FOR UPDATE on the counter of y waits for this.
CounterFree(y) == \A v \in Workers : tx[v].pc \in Holding => tx[v].year # y

\* allocateInvoiceNumber: INSERT ... ON CONFLICT DO NOTHING, SELECT ... FOR
\* UPDATE, lastNumber + 1.  A concurrent creation of the year's row blocks the
\* insert the way the lock blocks the select, so one step stands for the three.
allocateInvoiceNumber(w) ==
    /\ tx[w].pc = "allocate"
    /\ CounterFree(tx[w].year)
    /\ tx' = [tx EXCEPT ![w].pc = "pdf",
                            ![w].number = lastNumber[tx[w].year] + 1]
    /\ UNCHANGED <<year, lastNumber, processed, invoices, objects, acked, failures>>

\* The object is written under its key, replacing what was there.
Store(w) ==
    objects' = [k \in DOMAIN objects \cup {pdfStorageKey(w)} |->
                  IF k = pdfStorageKey(w) THEN tx[w].event ELSE objects[k]]

\* generateInvoicePdf and objectStorage.upload succeed.
Upload(w) ==
    /\ tx[w].pc = "pdf"
    /\ Store(w)
    /\ tx' = [tx EXCEPT ![w].pc = "insert"]
    /\ UNCHANGED <<year, lastNumber, processed, invoices, acked, failures>>

\* UQ_invoices_invoice_number and UQ_invoices_stripe_invoice_id.
UniqueInvoice(w) ==
    \A i \in invoices :
        /\ i.event # tx[w].event
        /\ ~ (i.year = tx[w].year /\ i.number = tx[w].number)

\* The invoice insert and the commit; the 2xx reaches Stripe or is lost.
Commit(w) ==
    /\ tx[w].pc = "insert"
    /\ UniqueInvoice(w)
    /\ invoices' = invoices \cup
          {[event |-> tx[w].event, year |-> tx[w].year, number |-> tx[w].number]}
    /\ lastNumber' = [lastNumber EXCEPT ![tx[w].year] = tx[w].number]
    /\ processed' = processed \cup {tx[w].event}
    /\ \/ acked' = acked \cup {tx[w].event}
       \/ acked' = acked
    /\ tx' = [tx EXCEPT ![w] = Idle]
    /\ UNCHANGED <<year, objects, failures>>

\* Any exception or a dead process rolls the transaction back: marker, effect
\* and counter are as before, Stripe gets no 2xx and will deliver again.
Rollback(w) ==
    /\ Open(w)
    /\ failures < MaxFailures
    /\ failures' = failures + 1
    /\ tx' = [tx EXCEPT ![w] = Idle]
    /\ UNCHANGED <<year, lastNumber, processed, invoices, objects, acked>>

\* The upload throws (a timeout) although the object has been written.
UploadFails(w) ==
    /\ tx[w].pc = "pdf"
    /\ failures < MaxFailures
    /\ failures' = failures + 1
    /\ Store(w)
    /\ tx' = [tx EXCEPT ![w] = Idle]
    /\ UNCHANGED <<year, lastNumber, processed, invoices, acked>>

NewYear ==
    /\ year < LastYear
    /\ year' = year + 1
    /\ UNCHANGED <<lastNumber, processed, invoices, objects, acked, tx, failures>>

Work(w) == StampIssuedAt(w) \/ allocateInvoiceNumber(w) \/ Upload(w) \/ Commit(w)

Next ==
    \/ NewYear
    \/ \E w \in Workers :
        \/ Work(w)
        \/ Rollback(w)
        \/ UploadFails(w)
        \/ \E e \in Events : Begin(w, e) \/ Replay(w, e)

Spec == Init /\ [][Next]_vars

(***************************************************************************)
(* Fairness: a running handler goes on (the Node event loop), the row lock *)
(* is granted to a waiter that keeps asking, and Stripe delivers an event  *)
(* again until it is answered with a 2xx.  Failures are finitely many.     *)
(***************************************************************************)
Fairness ==
    /\ \A w \in Workers : WF_vars(StampIssuedAt(w)) /\ WF_vars(Upload(w)) /\ WF_vars(Commit(w))
    /\ \A w \in Workers : SF_vars(allocateInvoiceNumber(w))
    /\ \A e \in Events : SF_vars(e \notin acked /\ \E w \in Workers : Begin(w, e) \/ Replay(w, e))

FairSpec == Spec /\ Fairness

---------------------------------------------------------------------------------
\* Every variable keeps its type, and a transaction has the event, the year and
\* the number by the step that needs them.
TypeOK ==
    /\ year \in Years
    /\ lastNumber \in [Years -> Nat]
    /\ processed \subseteq Events
    /\ invoices \subseteq Invoice
    /\ DOMAIN objects \subseteq Keys
    /\ \A k \in DOMAIN objects : objects[k] \in Events
    /\ acked \subseteq Events
    /\ tx \in [Workers -> [pc : {"idle", "effect", "allocate", "pdf", "insert"},
                          event : Events \cup {NoEvent}, year : Nat, number : Nat]]
    /\ \A w \in Workers :
        /\ Open(w) => tx[w].event \in Events
        /\ tx[w].pc \in Holding \cup {"allocate"} => tx[w].year \in Years
        /\ tx[w].pc \in Holding => tx[w].number # 0
    /\ failures \in 0..MaxFailures

\* Gap-free, duplicate-free numbering: whatever rolls back, the committed
\* numbers of a year are exactly 1..lastNumber, each on one invoice.
GapFree ==
    /\ \A y \in Years : {i.number : i \in {j \in invoices : j.year = y}} = 1..lastNumber[y]
    /\ \A i, j \in invoices : i.year = j.year /\ i.number = j.number => i = j

\* One invoice per Stripe payment: a marker is committed exactly when the
\* event's one invoice is, however often the event is delivered, and Stripe is
\* told 2xx only for an event that has its invoice.
InvoicedExactlyOnce ==
    /\ processed = {i.event : i \in invoices}
    /\ \A i, j \in invoices : i.event = j.event => i = j
    /\ acked \subseteq processed

\* The PDF under an invoice's key is the PDF of that invoice, although a failed
\* attempt may have left another event's PDF under the same key: a number that
\* was rolled back is handed to somebody else.
StoredPdfIsOfInvoice ==
    \A i \in invoices :
        LET key == <<CompanyOf[i.event], i.year, i.number>>
        IN  key \in DOMAIN objects /\ objects[key] = i.event

\* A transaction that reaches the insert never hits a unique constraint: the row
\* lock alone makes the number fresh.
ConstraintNeverHit == \A w \in Workers : tx[w].pc = "insert" => UniqueInvoice(w)

\* Whatever amount an invoice is about and whichever way emit computes its tax, no centime
\* is lost or invented and the rate is kept.
VatExact == \A i \in invoices : \A amount \in Amounts : VatOf(amount)

\* The books of InvoiceLedger, read off the committed rows; a gap would show as
\* NoEvent.
ledger ==
    [y \in Years |->
        [n \in 1..lastNumber[y] |->
            IF \E i \in invoices : i.year = y /\ i.number = n
              THEN (CHOOSE i \in invoices : i.year = y /\ i.number = n).event
              ELSE NoEvent]]

Ledger == INSTANCE InvoiceLedger WITH ledger <- ledger

\* Emission with its locks, rollbacks, retries and duplicate deliveries
\* implements the abstract ledger: every commit appends one entry, nothing else
\* touches a book.
RefinesLedger == Ledger!Spec

\* Every payment Stripe reports is eventually invoiced and answered with a 2xx.
EventuallyInvoiced == \A e \in Events : <>(e \in acked /\ \E i \in invoices : i.event = e)
=================================================================================
