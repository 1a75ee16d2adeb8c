CONSTANTS
    Nodes = {a, b}
    Writers = {a}
    Readers = {b}
    Keyless = {b}
    MaxSeq = 2
    MaxFaults = 1
    TapCap = 1
    PageLimit = 2
    ControlLoss = {}
SPECIFICATION LiveSpec
INVARIANTS
    SkippedChangesAreAsked
    HeldFramesAreOpened
PROPERTY HolesGetFilled
CHECK_DEADLOCK FALSE
