\* An Ept cannot be built, below another hypervisor or not.
SPECIFICATION Spec
CONSTANTS
    c1 = c1  c2 = c2  c3 = c3
    Cpus = {c1, c2}
    Faults = {"ept"}
INVARIANT
    NulledWhenFreed
CHECK_DEADLOCK FALSE
