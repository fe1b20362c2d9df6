\* Three processors; every step may fail.
SPECIFICATION Spec
CONSTANTS
    c1 = c1  c2 = c2  c3 = c3
    Cpus = {c1, c2, c3}
    Faults <- EveryStep
INVARIANTS
    InUseIsLive
    FreedOnce
    NothingLeft
PROPERTIES
    LoadEnds
    UnloadEnds
CHECK_DEADLOCK FALSE
