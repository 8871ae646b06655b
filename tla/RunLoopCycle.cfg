CONSTANTS
    a1 = a1
    a2 = a2
    NoAgent = NoAgent
    Agents <- TwoAgents
    Tasks <- MCTasks
    Deps <- MCDeps
    Contents <- MCContents
    Configs <- CycleConfigs
    PremiumTasks = {1, 2}
    StickyPremiumTasks = {2}
    ImplHandovers <- CycleImplHandovers
    UpdateHandovers <- CycleUpdateHandovers
    AgentTemplates = {"missing"}
    AgentAiContexts = {"missing"}
    AgentStatuses = {"done"}
    InitQueues <- CycleQueues
    InitHandovers <- CycleInitHandovers
    OperatorHandovers <- None
    MaxRuns = 1
SYMMETRY AgentSymmetry
SPECIFICATION Spec
INVARIANTS
    TypeOK
    NoLeakedAgent
    AgentServesWholeCycle
    StopBoundsWork
    UpdateStartsFromAttemptStart
    LaterCyclesHaveHandover
    StrictPromptMatches
PROPERTIES
    VerifiedCycleAdvances
    DryRunTouchesNothing
