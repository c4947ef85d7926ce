SPECIFICATION Spec
CONSTANTS
    Process = {p1, p2}
    Build = {"old", "new", "edited", "partial", "broken"}
    Files <- MCFiles
    Content = {"a", "b", "c", "x"}
    MaxVersion = 3
    Rerunnable = {"b", "x"}
    MaxStarts = 3
    MaxFaults = 1
    NoOne = NoOne
INVARIANTS
    TypeOK
    SchemaMatchesMetadata
    NilMeansMigrated
    NothingLeftBehind
    AloneAndAgreeingSucceeds
PROPERTY OnlyAgreeingBuildsWrite
CHECK_DEADLOCK FALSE
