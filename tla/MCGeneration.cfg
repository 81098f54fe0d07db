SPECIFICATION GenerationSpec
CONSTANTS
    t0 = t0
    t1 = t1
    t2 = t2
    Turns <- MCTurns
    Earlier <- MCEarlier
    NoSummary = NoSummary
    MaxSteps = 2
    MaxRetries = 1
    MaxCompactions = 1
    MaxCap = 2
    MaxPieces = 2
    MaxFaults = 2
    ResultCost = 3
    ResultBudget = 4
    KeepResults = 1
    KeepRecent = 1
    MinCovered = 2
    Threshold = 5
INVARIANTS
    MessagesAreAnswers
    ViewIsFaithful
    ItemsSettle
PROPERTIES
    TurnsReturn
CHECK_DEADLOCK FALSE
