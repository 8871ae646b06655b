CONSTANTS
    a1 = a1
    a2 = a2
    NoAgent = NoAgent
    Agents <- OneAgent
    Tasks <- MCTasks
    Deps <- MCDeps
    Contents <- MCContents
    Configs <- LiveConfigs
    PremiumTasks = {1}
    StickyPremiumTasks = {}
    ImplHandovers <- None
    UpdateHandovers <- LiveUpdateHandovers
    AgentTemplates = {}
    AgentAiContexts = {}
    AgentStatuses = {"done"}
    InitQueues <- JustPending
    InitHandovers <- JustFirst
    OperatorHandovers <- None
    MaxRuns = 1
SPECIFICATION FairSpec
PROPERTIES
    RunEnds
