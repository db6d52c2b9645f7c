SPECIFICATION Spec
CONSTANTS
    k1 = k1
    k2 = k2
    k3 = k3
    c1 = c1
    c2 = c2
    p1 = p1
    p2 = p2
    p3 = p3
    Nobody = Nobody
    NoCode = NoCode
    Companies = {k1, k2, k3}
    Codes = {c1, c2}
    maxUses <- MCMaxUses
    Procs = {p1, p2}
SYMMETRY Symmetry
INVARIANTS
    NotOverRedeemed
    
PROPERTIES
    RedeemedWhileActive
CHECK_DEADLOCK FALSE
