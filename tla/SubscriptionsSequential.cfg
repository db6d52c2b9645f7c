SPECIFICATION Spec
CONSTANTS
    p1 = p1
    p2 = p2
    s1 = s1
    s2 = s2
    pro = pro
    STARTER = STARTER
    Procs = {p1}
    Subs = {s1}
    NoSub = NoSub
    Null = Null
    Plans = {STARTER, pro}
    Quota <- OneContact
    Overrides = {}
    TrialDays = 1
    PeriodDays = 1
    GraceDays = 1
    Ops <- SequentialOps
    MaxRows = 2
    MaxTime = 0
    MaxCycles = 1
INVARIANT ContactsAccounted
PROPERTY LegalMoves
