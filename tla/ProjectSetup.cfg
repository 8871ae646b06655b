CONSTANTS
    Tags = {1, 2}
    DEFAULT_TAG = 1
    Texts = {"A", "B"}
    Plans <- MCPlans
    Statuses = {"done"}
    InitDocuments <- MCDocuments
    MaxCommands = 2
    MaxEdits = 2
SPECIFICATION Spec
INVARIANTS
    TypeOK
    QueuesWellFormed
    ScoresFit
    PhaseReady
    InitReady
PROPERTIES
    WorkKept
    BootstrapReplacesSamePrd
