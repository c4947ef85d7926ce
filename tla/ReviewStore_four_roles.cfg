SPECIFICATION Spec
CONSTANTS
    Session = {1}
    CanonicalRoles <- FourRoles
    MaxInFlight = 2
    DispatchCutoff = 1
    CallTimeout = 1
    SessionHardDeadline = 2
    MaxStaleness = 1
    MaxTime = 2
    Null = Null
INVARIANTS
    TypeOK
    InFlightCap
    RolesFollowSession
    FullCallFits
    VerdictStaysTrue
    CancelledOnlyOnRequest
PROPERTIES
    NoStartAfterCancel
    TerminalFrozen
    ImplementsLifecycle
CHECK_DEADLOCK FALSE
