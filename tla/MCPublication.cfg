SPECIFICATION Spec
CONSTANTS
    Tasks = {t1, t2}
    Texts = {1, 2}
    MaxRevisions = 2
    MaxRequests = 3
    MaxBeside = 2
    MaxFaults = 1
    MaxOthers = 2
    MaxTurns = 3
SYMMETRY MCSymmetry
CHECK_DEADLOCK FALSE
INVARIANTS
    HappensOnce
    NotAttemptedMeansNothing
    ApprovedWasPublished
    WayOutOfFirst
PROPERTIES
    NothingPushedOver
