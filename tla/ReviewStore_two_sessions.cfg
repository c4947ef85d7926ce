SPECIFICATION Spec
CONSTANTS
    Session = {1, 2}
    CanonicalRoles <- OneRole
    MaxInFlight = 1
    DispatchCutoff = 1
    CallTimeout = 1
    SessionHardDeadline = 2
    MaxStaleness = 1
    MaxTime = 3
    Null = Null
INVARIANTS
    OneReviewing
    NotOvertaken
    RowChecksHold
CHECK_DEADLOCK FALSE
