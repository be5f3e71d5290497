SPECIFICATION FairSpec
CONSTANTS
    NumSchemas = 2
    MaxVersion = 2
    Files <- MCFiles
    Chain <- MCOneAncestor
    Populated = {"parent"}
    Inherited = {"m"}
    PageSize = 1
    None = None
    MaxChanges = 2
    MaxFaults = 1
    DiskFaults = TRUE
INVARIANTS
    TypeOK
    
    LookupsOldOrNew
    SnapshotConsistent
    

    
