SPECIFICATION WSpec
CONSTANTS
    Session = {1}
    CanonicalRoles <- TwoRoles
    MaxInFlight = 1
    DispatchCutoff = 1
    CallTimeout = 1
    SessionHardDeadline = 2
    MaxStaleness = 0
    MaxTime = 2
    Null = Null
    Attempt = {w1, w2}
    NoOne = NoOne
    MaxFaults = 1
INVARIANTS
    WTypeOK
    NoReplay
    InFlightAccountedFor
    CompositionNeverRefused
CHECK_DEADLOCK FALSE
