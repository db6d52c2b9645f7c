SPECIFICATION FairSpec
CONSTANTS
    e1 = e1
    e2 = e2
    e3 = e3
    c1 = c1
    c2 = c2
    w1 = w1
    w2 = w2
    Events = {e1, e2, e3}
    NoEvent = NoEvent
    Workers = {w1, w2}
    Companies = {c1, c2}
    CompanyOf <- MCCompanyOf
    FirstYear = 2026
    LastYear = 2027
    MaxFailures = 2
    Amounts <- MCAmounts
INVARIANTS
    GapFree
    InvoicedExactlyOnce
    StoredPdfIsOfInvoice
    VatExact
PROPERTIES
    RefinesLedger
    
