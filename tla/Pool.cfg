\* Two callers, request lists of one slot, load and unload.
SPECIFICATION FairSpec
CONSTANTS
    s1 = s1  h1 = h1  k1 = k1  k2 = k2
    Nil = Nil
    Clients = {k1, k2}
    SplitBlocks = {s1}
    HookBlocks = {h1}
    InitialBlocks <- OnlyHooks
    MaxRequests = 1
    MaxTries = 2
INVARIANTS
    PoolTypeOK
    OneOwner
    ZeroedWhenFree
    PopFindsRequest
    QuietWhenReleased
PROPERTIES
    ImplementsAllocator
    CallsReturn
    StopEnds
\* After unload, or a failed load, nothing is left to do.
CHECK_DEADLOCK FALSE
