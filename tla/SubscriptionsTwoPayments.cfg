SPECIFICATION Spec
CONSTANTS
    p1 = p1
    p2 = p2
    s1 = s1
    s2 = s2
    pro = pro
    STARTER = STARTER
    Procs = {p1}
    Subs = {s1, s2}
    NoSub = NoSub
    Null = Null
    Plans = {STARTER}
    Quota <- MCQuota
    Overrides = {}
    TrialDays = 1
    PeriodDays = 1
    GraceDays = 1
    Ops <- BillingOps
    MaxRows = 3
    MaxTime = 1
    MaxCycles = 1
INVARIANT GuardSeesRowInForce
CHECK_DEADLOCK FALSE
