SPECIFICATION Spec
CONSTANTS
    p1 = p1
    p2 = p2
    Requests = {p1, p2}
    DataRequests = {1}
    MaxDocuments = 3
    MaxProfiles = 2
SYMMETRY Symmetry
INVARIANTS
    
    ErasedWhenCompleted
PROPERTIES
    
    FileKept
CHECK_DEADLOCK FALSE
