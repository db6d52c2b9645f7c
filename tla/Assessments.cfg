SPECIFICATION Spec
CONSTANTS
    a1 = a1
    a2 = a2
    t1 = t1
    t2 = t2
    p1 = p1
    p2 = p2
    Null = Null
    Procs = {p1, p2}
    Attempts = {a1}
    Tests = {t1}
    DefaultTest = t1
    MaxLeaves = 1
    FlagAt = 1
    VoidAt = 1
    CooldownDays = 1
    MaxTime = 2
SYMMETRY Symmetry
INVARIANTS
    CompletedIsScored
    IndexedIsEarned
    NotifiedAtMostOnce
    
PROPERTIES
    ScoreIsFinal
    SettledIsFinal
