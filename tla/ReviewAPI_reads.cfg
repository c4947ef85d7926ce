SPECIFICATION APISpec
CONSTANTS
    Session = {1}
    CanonicalRoles <- TwoRoles
    MaxInFlight = 2
    DispatchCutoff = 1
    CallTimeout = 1
    SessionHardDeadline = 2
    MaxStaleness = 0
    MaxTime = 1
    Null = Null
    Client = {c1}
    Project = {"ours", "other", "foreign"}
    ProjectOf <- MCProjectOf
    Access <- MCAccess
    Finding <- MCFinding
INVARIANTS
    APITypeOK
    ReportIsFinal
    StatusHangsTogether
CHECK_DEADLOCK FALSE
