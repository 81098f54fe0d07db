CONSTANTS
    f1 = f1
    f2 = f2
    f3 = f3
    a = a
    b = b
    None = None
    Fibers = {f1, f2, f3}
    Names = {a, b}
    Scenes <- MCScenes
    MaxChanges = 3
SPECIFICATION Spec
CHECK_DEADLOCK FALSE
INVARIANTS
    ServedWhileActive
    NothingLeftBehind
    RestIsConverged
PROPERTIES
    ProvidersOutliveUsers
    FibersSettle
