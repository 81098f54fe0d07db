SPECIFICATION Spec
CONSTANTS
    Gens = {g1, g2, g3}
    Turns = {t1, t2}
    Structures = {a, b, c}
    Posted = {b}
    Edited = {c}
    Default = a
    LivePairs = {{a, b}}
    RestartPairs = {{a, c}}
    MaxFaults = 1
    None = None
INVARIANTS
    RefsCountLeases
    PinnedStaysAlive
    OneGenerationServes
    DurableIsServed
    ConfigConverges
SYMMETRY Symmetry
CHECK_DEADLOCK FALSE
