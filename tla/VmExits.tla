------------------------------- MODULE VmExits -------------------------------
(***************************************************************************)
(* The VM exits of one processor: VmexitHandler.cpp, EventInjection.cpp,   *)
(* RegistersHandler.cpp and the assembly around them.  Exits of different  *)
(* processors share nothing here; what an exit does to page hooks is in    *)
(* Ept.tla, of which this module keeps whether the touched page is open.   *)
(*                                                                         *)
(* The guest executes instructions and takes events (interrupts, faults,   *)
(* INT n).  An exit may come from an instruction, from an access to a      *)
(* protected page, also one made to deliver an event, or from the monitor  *)
(* trap.  The handler emulates and skips an instruction, injects a fault,  *)
(* or resumes; an event whose delivery was cut short is injected again.    *)
(*                                                                         *)
(* Operators named Bad... are mutants of the definition that follows.      *)
(***************************************************************************)
EXTENDS Naturals

CONSTANTS
    Instructions,   \* the instructions of the guest: [kind, arg]
    Forced,         \* controls this processor forces on
    Allowed,        \* controls it lets be on
    InBitmap,       \* the MSRs, with any value, that the MSR bitmap covers
    Synthetic,      \* those that the handler passes on to Hyper-V
    Refused,        \* the RDMSRs and WRMSRs that fault: there is no such MSR, or
                    \* it is read-only, write-only or does not take the value
    Supported,      \* the state components of XCR0
    BigComponents,  \* components that end beyond MAX_XSAVE_AREA_SIZE
    MaskOf,         \* name of an XCR0 value -> its components
    None            \* no event, no instruction

Software == {"int", "int3"}
WithCode == {"fault", "page fault", "general protection"}
Raised   == Software \cup {"interrupt", "fault"}
Events   == Raised \cup WithCode

\* The argument of "load", any change of a register, is that register, of "cr" a
\* control register, of "rdmsr" an MSR, of "wrmsr" an MSR and a value, of "xsetbv" a
\* value of XCR0 or another XCR; "vmx" is one that the handler has a case for.
Kinds == {"plain", "load", "cpuid", "invd", "hlt", "vmx", "cr", "rdmsr", "wrmsr",
          "xsetbv", "vmcall", "hypercall", "vmxoff"}
CrArgs == {"0", "3", "4", "8"}

\* What the host fields of the VMCS give a processor at a VM exit.  SetupVmcs writes
\* most of them as the registers are at the launch; the processor gives DR7 and
\* DEBUGCTL their values of reset, those of a guest that is not being debugged.
\* Segment selectors lose their lower bits, and LDTR everything.
Captured == {"cr0", "cr4", "tr", "fs", "gs", "gdtr", "idtr", "sysenter", "pat", "efer",
             "debug"}
LoadedByExit == {"rip", "rsp", "rflags", "cr3", "selectors"} \cup Captured

ASSUME VmExitsAssumption ==
    /\ \A i \in Instructions :
         /\ i.kind \in Kinds
         /\ i.kind = "load" => i.arg \in Captured
         /\ i.kind = "cr" => i.arg \in CrArgs
    /\ \A i \in Refused : i.kind \in {"rdmsr", "wrmsr"}
    /\ None \notin Instructions
    /\ None \notin Events
    /\ {"x87", "sse"} \subseteq Supported

VARIABLES
    mode,      \* guest, exit, handler, resume; or leaving VMX; or stopped
    insn,      \* the guest's instruction, not yet retired
    effects,   \* how often it has taken effect
    skip,      \* RIP is past it
    vectoring, \* the event in delivery; in an exit, IDT_VECTORING_INFO_FIELD
    reason,    \* what caused the exit
    entry,     \* the VM-entry fields: event, error code, instruction length
    trap,      \* the monitor trap flag
    stepped,   \* something has retired since the VM entry
    open,      \* the protected page is open for one instruction
    xcr0,      \* the guest's XCR0
    frame,     \* components that the saved state will restore
    host,      \* registers that hold a host value other than the guest's
    changed,   \* history: registers the guest has loaded since the launch
    owed       \* history: the event the guest has to get

cpuVars   == <<insn, effects, skip>>
eventVars == <<vectoring, entry, owed>>
stepVars  == <<trap, stepped, open>>
regVars   == <<xcr0, frame, host, changed>>
vars == <<mode, cpuVars, eventVars, reason, stepVars, regVars>>

\* Controls, after AdjustControls: what was asked for and may be on, and what
\* has to be on.  SetupVmcs asks for the MSR bitmap, for no exits, and for PAT and
\* EFER to be saved and loaded (taken as granted), but not for DR7 and DEBUGCTL.
AdjustControls(ctl) == (ctl \cap Allowed) \cup Forced
Controls == AdjustControls({"msr bitmap", "secondary"})

Exits(i) ==
    \/ i.kind \in {"cpuid", "invd", "vmx", "xsetbv", "vmcall", "hypercall", "vmxoff"}
    \/ i.kind \in {"rdmsr", "wrmsr"} /\ ~(i.arg \in InBitmap /\ "msr bitmap" \in Controls)
    \/ i.kind = "hlt" /\ "hlt exiting" \in Controls
    \/ i.kind = "cr" /\ i.arg = "3" /\ "cr3 exiting" \in Controls
    \/ i.kind = "cr" /\ i.arg = "8" /\ "cr8 exiting" \in Controls

Reasons == {"none", "instruction", "kernel access", "other access", "trap"}

NoEntry == [event |-> None, code |-> FALSE, length |-> FALSE]

\* The registers that the handler's code uses, and the ones it pops at its end.
UsedByHandler == {"gpr", "xstate"}
PoppedByHandler == {"gpr", "xstate"}

\* The registers that get the host's value at an exit, unless that is the guest's,
\* and the ones that VMRESUME gives the value that the exit has saved.
LostByExit == LoadedByExit \ (Captured \ changed)
LoadedByEntry ==
    IF {"save debug", "load debug"} \subseteq Controls THEN LoadedByExit
                                                      ELSE LoadedByExit \ {"debug"}

TypeOK ==
    /\ mode \in {"guest", "exit", "handler", "resume", "vmxoff", "left", "off",
                 "stopped"}
    /\ insn \in Instructions \cup {None}
    /\ effects \in 0 .. 1
    /\ skip \in BOOLEAN
    /\ vectoring \in Events \cup {None}
    /\ reason \in Reasons
    /\ entry \in [event : Events \cup {None}, code : BOOLEAN, length : BOOLEAN]
    /\ trap \in BOOLEAN /\ stepped \in BOOLEAN
    /\ open \in BOOLEAN /\ (open => trap)
    /\ xcr0 \subseteq Supported
    /\ frame \subseteq Supported
    /\ host \subseteq LoadedByExit \cup UsedByHandler
    /\ changed \subseteq Captured
    /\ owed \in Events \cup {None}

Init ==
    /\ mode = "guest"
    /\ insn = None
    /\ effects = 0
    /\ skip = FALSE
    /\ vectoring = None
    /\ reason = "none"
    /\ entry = NoEntry
    /\ trap = FALSE
    /\ stepped = FALSE
    /\ open = FALSE
    /\ xcr0 = {"x87", "sse"}
    /\ frame = {}
    /\ host = {}
    /\ changed \in SUBSET {"debug"}
    /\ owed = None

-----------------------------------------------------------------------------
(* The guest.                                                              *)

\* The monitor trap comes before anything else.
TrapPending == trap /\ stepped /\ insn = None /\ vectoring = None

Running == mode = "guest" /\ ~TrapPending

Fetch ==
    /\ Running
    /\ insn = None /\ vectoring = None
    /\ insn' \in Instructions
    /\ effects' = 0
    /\ UNCHANGED <<mode, skip, eventVars, reason, stepVars, regVars>>

\* An event is taken instead of the instruction.
Raise(e) ==
    /\ Running
    /\ vectoring = None
    /\ insn = None \/ e = "interrupt"
    /\ insn' = None
    /\ effects' = 0
    /\ vectoring' = e
    /\ owed' = e
    /\ UNCHANGED <<mode, skip, entry, reason, stepVars, regVars>>

Deliver ==
    /\ Running
    /\ vectoring # None
    /\ vectoring' = None
    /\ owed' = None
    /\ stepped' = TRUE
    /\ UNCHANGED <<mode, cpuVars, entry, reason, trap, open, regVars>>

\* Without an exit: the masks for CR0 and CR4 are 0, nothing makes descriptor tables,
\* TR or debug registers exit, and the MSRs of these registers are in the bitmap.  Here
\* "load" covers what a MOV to CR or a WRMSR that does not exit changes.
Execute ==
    /\ Running
    /\ insn # None /\ vectoring = None
    /\ ~Exits(insn)
    /\ LET loaded == IF insn.kind = "load" THEN {insn.arg} ELSE {}
       IN  /\ changed' = changed \cup loaded
           /\ host' = host \ loaded
    /\ insn' = None
    /\ stepped' = TRUE
    /\ UNCHANGED <<mode, effects, skip, eventVars, reason, trap, open, xcr0, frame>>

\* A VM exit: the processor saves the guest's state in the VMCS, loads the host's,
\* and clears the valid bit of the VM-entry field.
VmExit(why) ==
    /\ mode' = "exit"
    /\ reason' = why
    /\ skip' = FALSE
    /\ entry' = [entry EXCEPT !.event = None]
    /\ host' = host \cup LostByExit
    /\ UNCHANGED <<insn, effects, vectoring, owed, stepVars, xcr0, frame, changed>>

\* Instructions and event deliveries touch the protected page or they do not.
AccessExit ==
    /\ Running
    /\ vectoring # None \/ (insn # None /\ ~Exits(insn))
    /\ ~open
    /\ \E why \in {"kernel access", "other access"} : VmExit(why)

InstructionExit ==
    /\ Running
    /\ insn # None /\ vectoring = None
    /\ Exits(insn)
    /\ VmExit("instruction")

TrapExit ==
    /\ mode = "guest" /\ TrapPending
    /\ VmExit("trap")

\* The entry of AsmVmexitHandler: registers, then the state components that XCR0
\* enables; the saved header names the ones in use.
AsmVmexitHandler ==
    /\ mode = "exit"
    /\ mode' = "handler"
    /\ frame' \in SUBSET xcr0
    /\ host' = host \cup UsedByHandler
    /\ UNCHANGED <<cpuVars, eventVars, reason, stepVars, xcr0, changed>>

-----------------------------------------------------------------------------
(* EventInjection.cpp.                                                     *)

BadAlwaysReinject(e) ==
    IF vectoring = None THEN e
    ELSE [event |-> vectoring, code |-> vectoring \in WithCode,
          length |-> vectoring \in Software]

\* The event whose delivery the exit cut short, unless the handler has injected one.
ReinjectEventFromIdtVectoring(e) ==
    IF e.event # None \/ vectoring = None THEN e
    ELSE [event |-> vectoring,
          code |-> vectoring \in WithCode \/ e.code,
          length |-> vectoring \in Software \/ e.length]

ClearPendingInjection == NoEntry
InjectInterruption(e) == [event |-> e, code |-> e \in WithCode, length |-> FALSE]

-----------------------------------------------------------------------------
(* RegistersHandler.cpp and EmulateXsetbv: what is accepted.               *)

IsHyperVSyntheticMsr(msr) == msr \in Synthetic
IsValidMsr(msr) == msr \in InBitmap \/ IsHyperVSyntheticMsr(msr)

HandleCRAccess(cr) == cr \in {"0", "3", "4"}

BadAcceptsAny(xcr) == xcr \in DOMAIN MaskOf
EmulateXsetbv(xcr) ==
    /\ xcr \in DOMAIN MaskOf
    /\ MaskOf[xcr] \subseteq Supported
    /\ "x87" \in MaskOf[xcr]
    /\ "avx" \in MaskOf[xcr] => "sse" \in MaskOf[xcr]
    /\ MaskOf[xcr] \cap BigComponents = {}

\* What the processor takes: AVX above SSE, AVX-512 above AVX, and the parts of MPX,
\* AVX-512 and AMX only together.
Avx512 == {"opmask", "zmm", "hi16"}
Features == {{"bndregs", "bndcsr"}, Avx512, {"tilecfg", "tiledata"}}
LegalXcr0(mask) ==
    /\ mask \subseteq Supported
    /\ "x87" \in mask
    /\ "avx" \in mask => "sse" \in mask
    /\ mask \cap Avx512 # {} => "avx" \in mask
    /\ \A f \in Features : mask \cap f \in {{}, f}

Accepted(i) ==
    CASE i.kind = "cr" -> HandleCRAccess(i.arg)
      [] i.kind \in {"rdmsr", "wrmsr"} -> IsValidMsr(i.arg)
      [] i.kind = "xsetbv" -> EmulateXsetbv(i.arg)
      [] OTHER -> TRUE

FaultsInRoot(i) ==
    \/ i \in Refused
    \/ i.kind = "xsetbv" /\ ~LegalXcr0(MaskOf[i.arg])

-----------------------------------------------------------------------------
(* VmexitHandler.                                                          *)

\* The end of the handler, with the VM-entry fields it has set.
Finish(advance, e) ==
    /\ mode' = "resume"
    /\ skip' = advance
    /\ entry' = ReinjectEventFromIdtVectoring(e)

\* CPUID, INVD, HLT, VMX instructions (which fail with CF set), control registers,
\* MSRs, XSETBV and vmcalls: done in root mode, then skipped.
HandleInstruction ==
    /\ mode = "handler" /\ reason = "instruction"
    /\ insn.kind # "vmxoff"
    /\ Accepted(insn)
    /\ ~FaultsInRoot(insn)
    /\ effects' = effects + 1
    /\ xcr0' = IF insn.kind = "xsetbv" THEN MaskOf[insn.arg] ELSE xcr0
    /\ Finish(TRUE, ClearPendingInjection)
    /\ UNCHANGED <<insn, vectoring, owed, reason, stepVars, frame, host, changed>>

BadRefusedSkipped ==
    /\ mode = "handler" /\ reason = "instruction"
    /\ ~Accepted(insn)
    /\ owed' = "general protection"
    /\ Finish(TRUE, InjectInterruption("general protection"))
    /\ UNCHANGED <<insn, effects, vectoring, reason, stepVars, regVars>>

\* One that is not accepted gets a fault and is not skipped.
RefuseInstruction ==
    /\ mode = "handler" /\ reason = "instruction"
    /\ ~Accepted(insn)
    /\ owed' = "general protection"
    /\ Finish(FALSE, InjectInterruption("general protection"))
    /\ UNCHANGED <<insn, effects, vectoring, reason, stepVars, regVars>>

\* A fault of the handler itself.
FaultInRoot ==
    /\ mode = "handler" /\ reason = "instruction"
    /\ Accepted(insn)
    /\ FaultsInRoot(insn)
    /\ mode' = "stopped"
    /\ UNCHANGED <<cpuVars, eventVars, reason, stepVars, regVars>>

BadAllowKeepsClosed ==
    /\ mode = "handler" /\ reason = "kernel access"
    /\ trap' = TRUE
    /\ Finish(FALSE, ClearPendingInjection)
    /\ UNCHANGED <<insn, effects, vectoring, owed, reason, stepped, open, regVars>>

\* An access that the hook lets pass: tried again with the monitor trap set.
AllowAccess ==
    /\ mode = "handler" /\ reason = "kernel access"
    /\ trap' = TRUE
    /\ open' = TRUE
    /\ Finish(FALSE, ClearPendingInjection)
    /\ UNCHANGED <<insn, effects, vectoring, owed, reason, stepped, regVars>>

\* Any other gets a page fault, in place of an event it came from.
BlockAccess ==
    /\ mode = "handler" /\ reason = "other access"
    /\ owed' = "page fault"
    /\ Finish(FALSE, InjectInterruption("page fault"))
    /\ UNCHANGED <<insn, effects, vectoring, reason, stepVars, regVars>>

BadTrapLate ==
    /\ mode = "handler" /\ reason = "trap"
    /\ trap' = FALSE
    /\ UNCHANGED open
    /\ Finish(FALSE, ClearPendingInjection)
    /\ UNCHANGED <<insn, effects, vectoring, owed, reason, stepped, regVars>>

HandleTrap ==
    /\ mode = "handler" /\ reason = "trap"
    /\ trap' = FALSE
    /\ open' = FALSE
    /\ Finish(FALSE, ClearPendingInjection)
    /\ UNCHANGED <<insn, effects, vectoring, owed, reason, stepped, regVars>>

\* XRSTOR faults when the header names a component that XCR0 does not enable.
XrstorFaults ==
    /\ mode = "resume"
    /\ ~(frame \subseteq xcr0)
    /\ mode' = "stopped"
    /\ UNCHANGED <<cpuVars, eventVars, reason, stepVars, regVars>>

\* The end of AsmVmexitHandler.  VMRESUME loads the state it saved and starts to
\* deliver the event of the VM-entry fields.
VmResume ==
    /\ mode = "resume"
    /\ frame \subseteq xcr0
    /\ mode' = "guest"
    /\ host' = host \ (PoppedByHandler \cup LoadedByEntry)
    /\ frame' = {}
    /\ insn' = IF skip \/ entry.event # None THEN None ELSE insn
    /\ vectoring' = entry.event
    /\ stepped' = FALSE
    /\ reason' = "none"
    /\ UNCHANGED <<effects, skip, entry, owed, trap, open, xcr0, changed>>

-----------------------------------------------------------------------------
(* Leaving VMX operation, in the exit of a vmcall.                         *)

BadGdtrForgotten == {"fs", "gs", "idtr"}
RestoreRegisters == {"fs", "gs", "gdtr", "idtr"}

VmxVmxoff ==
    /\ mode = "handler" /\ reason = "instruction"
    /\ insn.kind = "vmxoff"
    /\ effects' = effects + 1
    /\ skip' = TRUE
    /\ entry' = ClearPendingInjection
    /\ host' = host \ (RestoreRegisters \cup {"cr3"})
    /\ mode' = "vmxoff"
    /\ UNCHANGED <<insn, vectoring, owed, reason, stepVars, xcr0, frame, changed>>

AsmVmxoffHandler ==
    /\ mode = "vmxoff"
    /\ frame \subseteq xcr0
    /\ host' = host \ (PoppedByHandler \cup {"rsp", "rip"})
    /\ mode' = "left"
    /\ UNCHANGED <<cpuVars, eventVars, reason, stepVars, xcr0, frame, changed>>

\* AsmVmxVmcall returns to its caller with the flags it had pushed.
ReturnFromVmcall ==
    /\ mode = "left"
    /\ host' = host \ {"rflags"}
    /\ insn' = None
    /\ mode' = "off"
    /\ UNCHANGED <<effects, skip, eventVars, reason, stepVars, xcr0, frame, changed>>

-----------------------------------------------------------------------------

Guest == Fetch \/ Deliver \/ Execute \/ AccessExit \/ InstructionExit \/ TrapExit

Handler ==
    \/ AsmVmexitHandler
    \/ HandleInstruction \/ RefuseInstruction \/ FaultInRoot
    \/ AllowAccess \/ BlockAccess \/ HandleTrap
    \/ XrstorFaults \/ VmResume
    \/ VmxVmxoff \/ AsmVmxoffHandler \/ ReturnFromVmcall

Next == Guest \/ Handler \/ \E e \in Raised : Raise(e)

\* The processor goes on with what it has begun.
Spec == Init /\ [][Next]_vars /\ WF_vars(Guest) /\ WF_vars(Handler)

-----------------------------------------------------------------------------
(* Properties.                                                             *)

\* No event is lost, delivered twice or delivered in place of another: in the
\* guest, the event in delivery is the one the guest is owed, through any number
\* of exits during its delivery.  An access that is refused turns it into a page
\* fault, an instruction that is refused into a general protection fault.  And VM
\* entry gets the fields that go with the event: an error code if and only if the
\* event pushes one, an instruction length if and only if software raised it
\* (EventInjection.cpp:67-89, 138-157, VmexitHandler.cpp:253-260).
EventOwed ==
    /\ mode = "guest" => vectoring = owed
    /\ mode = "resume" /\ entry.event # None =>
        /\ entry.code <=> entry.event \in WithCode
        /\ entry.length <=> entry.event \in Software

\* What an instruction does happens once: a skipped one has been emulated, and
\* one that is executed again, or gets a fault, has had no effect
\* (VmexitHandler.cpp:126-257).
InstructionOnce ==
    /\ mode \in {"resume", "left"} => (skip <=> effects = 1)
    /\ mode = "guest" /\ insn # None => effects = 0

\* Back in the guest every register has the guest's value again, but for DR7 and
\* DEBUGCTL when the controls do not switch them, since SetupVmcs does not ask for it
\* (AsmVmexitHandler.asm:28-119, Vmx.cpp:326-345).  VMXOFF gives some registers back
\* one by one; what the guest has loaded into the others since the launch is lost, and
\* selectors keep the form of the host's (Vmx.cpp:267-273, 429-455,
\* VmxHelper.cpp:439-462, AsmVmexitHandler.asm:138-202).
LeftByVmxoff == {"cr0", "cr4", "tr", "sysenter", "pat", "efer", "debug"}
GuestHasItsRegisters ==
    /\ mode = "guest" =>
        host \subseteq changed \cap (IF {"save debug", "load debug"} \subseteq Controls
                                    THEN {} ELSE {"debug"})
    /\ mode = "off" => host = {"selectors"} \cup (changed \cap LeftByVmxoff)

\* The handler faults only where it passes on what the processor, or the hypervisor
\* below, refuses and it does not check itself: an access to a synthetic MSR that is
\* not there, cannot be read or written or does not take the value, an XCR0 with a part
\* of MPX, AVX-512 or AMX or with AVX-512 alone, or one without a component that is in
\* use.  MSRs in neither range, and XCR0 values that break its other rules, do not get
\* that far; those in the bitmap do not exit (VmexitHandler.cpp:45-98,
\* RegistersHandler.cpp:143-196, AsmVmexitHandler.asm:58-95).
RootFaultsKnown ==
    mode = "stopped" =>
        \/ insn \in Refused /\ (insn.arg \in Synthetic \/ "msr bitmap" \notin Controls)
        \/ insn.kind = "xsetbv" /\
            \/ \E f \in Features : MaskOf[insn.arg] \cap f \notin {{}, f}
            \/ MaskOf[insn.arg] \cap Avx512 # {} /\ "avx" \notin MaskOf[insn.arg]
            \/ ~(frame \subseteq MaskOf[insn.arg])

\* An event that is owed is delivered or replaced by a fault of the handler, unless
\* the processor leaves VMX operation.
EventEnds ==
    \A e \in Raised :
        owed = e ~> (owed # e \/ mode = "stopped")
=============================================================================
