SPECIFICATION Spec
CONSTANTS
    NumSchemas = 2
    MaxVersion = 2
    Files <- MCFiles
    Chain <- MCTwoAncestors
    Populated = {"parent", "grandparent"}
    Inherited = {"m"}
    PageSize = 1
    None = None
    MaxChanges = 0
    MaxFaults = 1
    DiskFaults = FALSE
INVARIANT
    CachedChainMatchesLive
