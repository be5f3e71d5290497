SPECIFICATION FairSpec
CONSTANTS
    Namespaces = {n1, n2, n3}
    Existing = {n1, n2}
    Prior <- MCPrior
    n1 = n1
    n2 = n2
    n3 = n3
    None = None
    Procs = {p1, p2}
    MaxDepth = 3
    MaxTx = 3
    MayCrash = TRUE
    MayLoseReply = TRUE
INVARIANTS
    TypeOK
    ParentsExist
    AuditMatchesParent
    SerialAcyclic
    AuditChained
    NewestIsCurrent
    ChainMatchesStore
PROPERTIES
    EveryRequestReturns
