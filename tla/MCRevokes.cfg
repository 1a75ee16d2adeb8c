SPECIFICATION FairSpec
CONSTANTS
    Loops = {"beat", "tick", "drain"}
    MaxAttempts = 2
    MaxInFlight = 1
    MaxFaults = 2
    StartsOld = TRUE
INVARIANTS
    ConfirmedWasApplied
PROPERTIES
    EveryRevokeSettles
