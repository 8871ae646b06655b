CONSTANTS
    a1 = a1
    a2 = a2
    NoAgent = NoAgent
    Agents <- TwoAgents
    Tasks <- MCTasks
    Deps <- MCDeps
    Contents <- MCContents
    Configs <- JustDefault
    PremiumTasks = {}
    StickyPremiumTasks = {}
    ImplHandovers <- None
    UpdateHandovers <- LiveUpdateHandovers
    AgentTemplates = {}
    AgentAiContexts = {}
    AgentStatuses = {"done"}
    InitQueues <- JustPending
    InitHandovers <- JustFirst
    OperatorHandovers <- None
    MaxRuns = 1
SYMMETRY AgentSymmetry
SPECIFICATION Spec
PROPERTIES
    InterruptedCycleExits130
