SPECIFICATION FairSpec
CONSTANTS
    c1 = c1
    c2 = c2
    c3 = c3
    p1 = p1
    p2 = p2
    Call = {c1, c2, c3}
    Process = {p1, p2}
    ProcessOf <- Placement
    MaxAttempts = 2
    MaxFaults = 1
    NoOne = NoOne
    k1 = k1
    k2 = k2
    b1 = b1
    b2 = b2
    Key = {k1, k2}
    Body = {b1, b2}
    Units = {1, 2, 3}
    Submittable <- Requests
INVARIANTS
    TypeOK
    NoTxLeftBehind
    OneSessionPerKey
    NoPartialSubmission
    UnavailableStoredNothing
PROPERTIES
    EveryRequestAnswered
    ImplementsSubmitOnce
CHECK_DEADLOCK FALSE
