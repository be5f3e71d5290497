SPECIFICATION Spec
CONSTANTS
    Schemas = {s1}
    Contents <- MCContents
    Compatible <- MCCompatible
    Procs = {p1}
    None = None
    MaxVersion = 2
    MayCrash = TRUE
    MayLoseReply = FALSE
PROPERTIES
    PromotionsCompatible
