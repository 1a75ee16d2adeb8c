CONSTANTS
    Envelopes = {e1, e2}
    Readers = {r1}
    PageLimit = 2
    MaxFrames = 3
    MaxCrashes = 2
    NoAppend = NoAppend
SPECIFICATION Spec
INVARIANTS
    AckedIsStored
    AckedNotSkipped
PROPERTY ImplementsFrameLog
CHECK_DEADLOCK FALSE
