SPECIFICATION Spec
CONSTANTS
    c1 = c1
    c2 = c2
    r1 = r1
    r2 = r2
    r3 = r3
    k1 = k1
    k2 = k2
    i1 = i1
    p1 = p1
    p2 = p2
    Candidates = {c1}
    Recruiters = {r1, r2}
    Companies = {k1}
    companyOf <- MCCompanyOf
    contactQuota <- OneContact
    Interviews = {i1}
    Requests = {p1, p2}
    MaxMessages = 2
    MaxFiles = 1
SYMMETRY Symmetry
PROPERTIES
    RefinesLedger
    OverruledByOverlapOnly
CHECK_DEADLOCK FALSE
