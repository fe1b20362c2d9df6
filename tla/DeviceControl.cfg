\* Two clients, two processors; an address of the kernel and one of user space.
SPECIFICATION Spec
CONSTANTS
    c1 = c1  c2 = c2  k1 = k1  k2 = k2  f1 = f1  f2 = f2
    Clients = {k1, k2}
    Cpus = {c1, c2}
    KernelPages = {"kernel"}
    UserPages = {"user"}
    Frames = {f1, f2}
    Permissions <- Asked
    None = None
INVARIANTS
    Uniform
    Outcome
PROPERTY
    RequestsEnd
