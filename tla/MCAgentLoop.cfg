SPECIFICATION Spec
CONSTANTS
    r1 = r1
    r2 = r2
    r3 = r3
    c1 = c1
    c2 = c2
    Runs <- MCRuns
    Calls <- MCCalls
    Scenes <- MCScenes
    MaxSteps = 2
    MaxBatch = 2
    None = None
SYMMETRY Names
INVARIANTS
    SequentialTurnsRebuild
    OncePerTurn
    ResultsAreTrue
CHECK_DEADLOCK FALSE
