SPECIFICATION FairSpec
CONSTANTS
    Schemas = {s1, s2}
    Contents <- MCContents
    Compatible <- MCCompatible
    Procs = {p1}
    None = None
    MaxVersion = 3
    MayCrash = TRUE
    MayLoseReply = FALSE
INVARIANTS
    RulesSound
    OnlyPromotedVisible
    MemoryMatchesStore
PROPERTIES
    PromotionsReadBack
    EveryRequestReturns
