SPECIFICATION Spec
CONSTANTS
    p1 = p1
    p2 = p2
    Requests = {p1, p2}
    MaxProfiles = 2
SYMMETRY Symmetry
INVARIANTS
    BadgeEarned
PROPERTIES
    SuspensionHolds
    
CHECK_DEADLOCK FALSE
