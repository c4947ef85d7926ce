SPECIFICATION WSpec
CONSTANTS
    Session = {1}
    CanonicalRoles <- OneRole
    MaxInFlight = 1
    DispatchCutoff = 1
    CallTimeout = 1
    SessionHardDeadline = 2
    MaxStaleness = 0
    MaxTime = 0
    Null = Null
    Attempt = {w1}
    NoOne = NoOne
    MaxFaults = 1
INVARIANT
    NoWorkWithoutLock
CHECK_DEADLOCK FALSE
