SPECIFICATION FairSpec
CONSTANTS
    Files = {1, 2, 3, 4, 5}
    FirstFiles = {1, 4}
    Loads = {1, 2, 3, 5}
    Migrate <- MCMigrate
    RestartKeys <- MCRestartKeys
    Starts = {1}
    Overlays = {1, 3, 5}
    FAILED_BOOTS = 3
    MaxWrites = 2
    MaxFaults = 1
INVARIANTS
    LogTellsTheTruth
PROPERTIES
    NothingLost
    RestoresDoNotLoop
    ComesToServe
    LiveKeysFollow
