SPECIFICATION Spec
CONSTANTS
    CallTimeout = 3
    HardDeadlines <- Deadlines
    BackoffMins = {0, 1}
    BackoffMax = 2
    MaxTime = 9
INVARIANT
    RetryableIsRetried
CHECK_DEADLOCK FALSE
