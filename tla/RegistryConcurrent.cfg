SPECIFICATION Spec
CONSTANTS
    Schemas = {s1}
    Contents <- MCContents
    Compatible <- MCCompatible
    Procs = {p1, p2}
    None = None
    MaxVersion = 2
    MayCrash = TRUE
    MayLoseReply = TRUE
VIEW MCView
SYMMETRY MCSymmetry
INVARIANTS
    TypeOK
    VersionsContiguous
    PointersBacked
    SourcesStored
    PublishedOnce
PROPERTIES
    RowsImmutable
    ImplementsStore
