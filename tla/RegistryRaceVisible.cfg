SPECIFICATION Spec
CONSTANTS
    Schemas = {s1}
    Contents <- MCContents
    Compatible <- MCCompatible
    Procs = {p1, p2}
    None = None
    MaxVersion = 2
    MayCrash = FALSE
    MayLoseReply = FALSE
INVARIANTS
    OnlyPromotedVisible
