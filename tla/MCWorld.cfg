SPECIFICATION WorldSpec
CONSTANTS
    Streams = {s1, s2}
    Resources = {x}
    Actor = Actor
    MaxEvents = 2
    MaxStarts = 3
    MaxDefects = 3
    MaxFaults = 1
    Bad = Bad
INVARIANTS
    WorldIsReplay
    WorldIsProjection
SYMMETRY Symmetry
CHECK_DEADLOCK FALSE
