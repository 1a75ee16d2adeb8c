SPECIFICATION FairSpec
CONSTANTS
    t1 = t1
    Targets = {t1}
    Bundles = {1, 2}
    Versions <- MCVersions
    MaxRollouts = 2
    MaxInFlight = 1
    MaxFaults = 1
INVARIANTS
    AppliedWasInstalled
    RecordsTellWhatRuns
PROPERTIES
    NeverMovedBack
    EveryTargetSettles
CHECK_DEADLOCK FALSE
