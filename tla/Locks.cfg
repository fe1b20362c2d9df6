\* Two processors, each with a thread in the guest; one try for the log lock.
SPECIFICATION Spec
CONSTANTS
    c1 = c1  c2 = c2
    Cpus = {c1, c2}
    Retries = 1
    Nobody = Nobody
INVARIANTS
    LocksInv
    LinesWhole
PROPERTIES
    ImplementsMutex
    LogEnds
    BroadcastEnds
\* The machine stops when a vmcall waits for the thread it has stopped.
CHECK_DEADLOCK FALSE
