\* One permission request, a question and a check; two prompts; four events in all.
CONSTANTS
    p1 = p1
    Perms <- MCPerms
    Turns <- MCTurns
    FailureLimit = 1
    PerSession = 1
    PerTurn = 1
    MaxSends = 2
    MaxEvents = 4
SPECIFICATION Spec
CHECK_DEADLOCK FALSE
INVARIANTS
    TurnsDoNotOverlap
    InOrderOnce
    RunningHasSupervisor
PROPERTIES
    FenceHolds
    HeldNeverDropped
    HeldReachesAgent
    NothingLeftBehind
