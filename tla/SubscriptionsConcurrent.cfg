SPECIFICATION Spec
CONSTANTS
    p1 = p1
    p2 = p2
    s1 = s1
    s2 = s2
    pro = pro
    STARTER = STARTER
    Procs = {p1, p2}
    Subs = {s1, s2}
    NoSub = NoSub
    Null = Null
    Plans = {STARTER}
    Quota <- MCQuota
    Overrides = {}
    TrialDays = 1
    PeriodDays = 1
    GraceDays = 1
    Ops <- RacingOps
    MaxRows = 2
    MaxTime = 0
    MaxCycles = 0
SYMMETRY Symmetry
INVARIANTS
    
    LookupUnambiguous
PROPERTY RevivedByOverlapOnly
CHECK_DEADLOCK FALSE
