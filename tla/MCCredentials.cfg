SPECIFICATION Spec
CONSTANTS
    n1 = n1
    n2 = n2
    n3 = n3
    None = None
    Nodes = {n1, n2, n3}
    MaxMint = 2
    MaxRenew = 2
    MaxEvents = 2
    Scenarios <- MCScenarios
INVARIANTS
    RevokeReachesEveryCopy
    OneNodeRenewsAVersion
    HoldersAgree
    RemovedStaysRemoved
    TokensDescendFromGrant
CHECK_DEADLOCK FALSE
