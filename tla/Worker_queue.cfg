SPECIFICATION FairSpec
CONSTANTS
    Session = {1, 2}
    CanonicalRoles <- OneRole
    MaxInFlight = 1
    DispatchCutoff = 1
    CallTimeout = 1
    SessionHardDeadline = 2
    MaxStaleness = 0
    MaxTime = 1
    Null = Null
    Attempt = {w1}
    NoOne = NoOne
    MaxFaults = 0
PROPERTIES
    EverySessionConcluded
CHECK_DEADLOCK FALSE
