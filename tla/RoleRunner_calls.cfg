SPECIFICATION Spec
CONSTANTS
    CallTimeout = 3
    HardDeadlines <- Deadlines
    BackoffMins = {0, 1}
    BackoffMax = 2
    MaxTime = 9
INVARIANTS
    TypeOK
    CallBudget
    OutcomePublishable
    NoLateSuccess
PROPERTY
    RoleReturns
CHECK_DEADLOCK FALSE
