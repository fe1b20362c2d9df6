\* A processor that forces exits on HLT and on MOV CR3 and CR8; Hyper-V below.
SPECIFICATION Spec
CONSTANTS
    None = None
    Instructions <- EveryInstruction
    Forced = {"hlt exiting", "cr3 exiting", "cr8 exiting"}
    Allowed = {"msr bitmap", "secondary"}
    InBitmap = {"pat"}
    Synthetic <- PassedOn
    Refused <- Refusals
    Supported <- Components
    BigComponents = {"large"}
    MaskOf <- Masks
INVARIANTS
    TypeOK
    EventOwed
    InstructionOnce
    GuestHasItsRegisters
    RootFaultsKnown
PROPERTY
    EventEnds
CHECK_DEADLOCK FALSE
