SPECIFICATION Spec
CONSTANTS
    Calls = {c1, c2, c3}
    Keys = {k1}
    Digests = {d1, d2}
    Layers = {user, task}
    NoCall = NoCall
    NoRequest = NoRequest
INVARIANTS
    AtMostOnce
    WaitersAreServed
PROPERTIES
    EffectsAuthorized
    ImplementsDurableAction
CHECK_DEADLOCK FALSE
SYMMETRY Symmetry
