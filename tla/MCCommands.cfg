SPECIFICATION CommandFairSpec
CONSTANTS
    Timeout = 2
    Skew = 1
    Offsets <- MCOffsets
    MaxTime = 6
    MaxFaults = 2
    Deadlines = {TRUE, FALSE}
INVARIANTS
    AnswerIsTruth
PROPERTIES
    RunsAtMostOnce
    QueuedCommandRuns
CHECK_DEADLOCK FALSE
