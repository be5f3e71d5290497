SPECIFICATION Spec
CONSTANTS
    Parts <- MCParts
    FileDescs <- MCFileDescs
    TypeDescs <- MCTypeDescs
    ParentFiles <- MCParentFiles
    ParentTypes <- MCParentTypes
INVARIANTS
    TypeOK
    
    
    
