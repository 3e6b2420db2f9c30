CONSTANTS
    Processes = {p1, p2}
    MaxTasks = 2
    MaxCrashes = 2
    MaxFaults = 1
SPECIFICATION Spec
INVARIANTS
    TypeOK
    TornOnlyByOverlap
    ReturnedIsDurable
CHECK_DEADLOCK FALSE
