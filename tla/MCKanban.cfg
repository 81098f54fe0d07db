SPECIFICATION Spec
CONSTANTS
    Tasks = {t1, t2}
    Clients = {p1, p2}
    Workers = {w1}
    Keys = {k1}
    Targets = {"done"}
    LeaseDuration = 1
    MaxConcurrent = 1
    MaxTime = 1
    MaxCalls = 3
    NoTask = NoTask
    NoKey = NoKey
INVARIANTS
    BoardIsReplay
PROPERTIES
    LeaseFencing
CHECK_DEADLOCK FALSE
SYMMETRY Symmetry
