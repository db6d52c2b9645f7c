SPECIFICATION Spec
CONSTANTS
    u1 = u1
    u2 = u2
    u3 = u3
    k1 = k1
    k2 = k2
    p1 = p1
    p2 = p2
    Nobody = Nobody
    Users = {u1, u2, u3}
    Companies = {k1}
    Invitations = {1}
    Requests = {p1, p2}
    MaxSeats = 3
    MaxRows = 3
SYMMETRY Symmetry
INVARIANTS
    
    SeatsWithinRace
    
    AdminIsFounder
PROPERTIES
    FounderStays
CHECK_DEADLOCK FALSE
