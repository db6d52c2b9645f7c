SPECIFICATION AlertFairSpec
CONSTANTS
    s1 = s1
    s2 = s2
    o1 = o1
    o2 = o2
    m1 = m1
    m2 = m2
    Sweeps = {s1, s2}
    Owners = {o1}
    Profiles = {m1}
    MaxTime = 3
INVARIANTS
    
    
    DroppedOnlyIfLate

    
CHECK_DEADLOCK FALSE
