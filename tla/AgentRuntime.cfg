CONSTANTS
    MaxLaunches = 3
    MaxAttempts = 2
    Settings <- MCSettings
    Ids = {"claude-opus-4-8", "gpt-5"}
SPECIFICATION FairSpec
INVARIANTS
    TypeOK
    OneBridge
    EndpointsAgree
    NoOrphan
    RetryAvoidsDeadBridge
    PremiumGated
    PremiumRunsAreFlagged
    FastOnlyIfAsked
PROPERTIES
    NestedKeepsBridge
    CommandEnds
