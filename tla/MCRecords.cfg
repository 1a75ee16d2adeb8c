CONSTANTS
    MaxMs = 1
    MaxCtr = 2
    NoStamp = NoStamp
    NoRow = NoRow
    Sites <- MCSites
    Ids = {i1, i2}
    Channels = {ca, cb}
    MaxSeq = 2
SPECIFICATION Spec
INVARIANTS
    RowIsLatestLogged
    Converged
PROPERTY RowsOnlyAdvance
CHECK_DEADLOCK FALSE
