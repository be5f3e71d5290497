SPECIFICATION Spec
CONSTANTS
    Namespaces = {n1, n2}
    Existing = {}
    Prior <- MCNoPrior
    n1 = n1
    n2 = n2
    n3 = n3
    None = None
    Procs = {p1, p2}
    MaxDepth = 3
    MaxTx = 3
    MayCrash = FALSE
    MayLoseReply = FALSE
INVARIANTS
    Acyclic
