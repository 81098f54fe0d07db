SPECIFICATION Spec
CONSTANTS
    IdOrder <- MCIdOrder
    Turns <- MCTurns
    Home <- MCHome
    Requests <- MCRequests
    SlowEvents <- MCSlowEvents
    Queries <- MCQueries
    Scenes <- MCScenes
    Limit = 2
    MaxTrajectories = 1
    ToolUsageThreshold = 2
    ToolFailureThreshold = 1
    LongTurnSteps = 2
    VerifiedSteps = 2
    MaxAttempts = 2
    MaxSlow = 1
    MaxTime = 1
    MaxGrowth = 2
INVARIANTS
    TimelineIsNewest
    CausesAreTold
    EvidenceIsWhole
CHECK_DEADLOCK FALSE
