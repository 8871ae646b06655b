CONSTANTS
    Projects <- MCProjects
    IgnoreFiles <- MCIgnoreFiles
    ForcePaths <- MCForcePaths
    EditedPaths <- MCEditedPaths
    MaxCommands = 2
    MaxEdits = 1
    MaxKills = 1
SPECIFICATION Spec
INVARIANTS
    TypeOK
    RefreshCures
    
    InitSettles
PROPERTIES
    TextsKept
