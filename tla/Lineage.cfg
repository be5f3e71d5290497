SPECIFICATION FairLoadSpec
CONSTANTS
    NumSchemas = 4
    Home <- MCHome
    Namespaces <- MCNamespaces
    Builtins = "builtins"
    None = None
    Paths <- MCPaths
    Defines <- MCDefines
    Imports <- MCImports
    Uploads <- MCUploads
    Start <- MCStart
    Moves <- MCMoves
    Procs = {direct, loader}
    Kept = {loader}
    Seed <- MCSeed
    MaxVersion = 2
    MaxOps = 3
    Dir <- MCDir
    Loader = loader
    Promotes = TRUE
    direct = direct
    loader = loader
INVARIANTS
    TypeOK
    CompiledFromPins
    AncestorPinsPromoted
    SelfContained
    ShadowsOnlySamePath
    
    
    LoadAccounts
    

PROPERTIES
    LoadEnds
