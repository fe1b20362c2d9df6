\* One processor, two protected pages, kernel-image and other instructions.
SPECIFICATION Spec
CONSTANTS
    c1 = c1  c2 = c2  low = low  high = high  o1 = o1  o2 = o2
    s1 = s1  s2 = s2  s3 = s3  h1 = h1  h2 = h2  h3 = h3
    v1 = v1  v2 = v2  v3 = v3
    Nil = Nil
    Cpus = {c1}
    Regions = {low}
    Offsets = {o1, o2}
    HighRegions = {}
    Vas = {v1, v2}
    PhysOf <- TwoPages
    Permissions <- ReadOnlyOrReadWrite
    Instructions <- OnTwoPages
    SplitBlocks = {s1, s2}
    HookBlocks = {h1, h2}
    InitialBlocks <- AllBlocks
    MaxRequests = 2
SYMMETRY BlockSymmetry
INVARIANTS
    TypeOK
    NoDanglingStep
    Enforced
    NoUnexpectedViolation
    OnlyKernelImagePasses
    TlbCoherent
PROPERTY
    ImplementsGuard
