CONSTANTS
    a1 = a1
    a2 = a2
    NoAgent = NoAgent
    Agents <- TwoAgents
    Tasks <- MCTasks
    Deps <- MCDeps
    Contents <- MCContents
    Configs <- ResumeConfigs
    PremiumTasks = {}
    StickyPremiumTasks = {}
    ImplHandovers <- None
    UpdateHandovers <- ResumeUpdateHandovers
    AgentTemplates = {}
    AgentAiContexts = {}
    AgentStatuses = {"done"}
    InitQueues <- JustPending
    InitHandovers <- JustFirst
    OperatorHandovers <- None
    MaxRuns = 2
SYMMETRY AgentSymmetry
SPECIFICATION Spec
INVARIANTS
    ResumeNeverReselects
    VerifiedCyclesRecorded
    StateFileTellsOutcome
PROPERTIES
    ResumeKeepsHistory
    ImplementsContract
