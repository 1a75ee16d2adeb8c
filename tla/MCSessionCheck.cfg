\* As MCSession.cfg: may a check that settles late put a session back to running?
CONSTANTS
    p1 = p1
    Perms <- MCPerms
    Turns <- MCTurns
    FailureLimit = 1
    PerSession = 1
    PerTurn = 1
    MaxSends = 2
    MaxEvents = 4
SPECIFICATION Spec
CHECK_DEADLOCK FALSE
INVARIANT CheckNeverRevives
