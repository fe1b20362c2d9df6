------------------------------ MODULE Lifecycle ------------------------------
(***************************************************************************)
(* Loading and unloading the driver (NovaHypervisor.cpp, Vmx.cpp): the     *)
(* pool, the device, the structures of every processor, entering and       *)
(* leaving VMX operation.                                                  *)
(*                                                                         *)
(* One thread runs DriverEntry and NovaUnload.  KeGenericCallDpc runs a    *)
(* routine on every processor; a routine signals a barrier, which nobody   *)
(* passes before everybody has reached it, and the thread goes on when all *)
(* have passed.  A routine that returns without signalling leaves the      *)
(* thread and the other processors waiting.                                *)
(*                                                                         *)
(* Faults names the steps that may fail in an instance.  A bugcheck ends   *)
(* every behaviour.                                                        *)
(*                                                                         *)
(* Operators named Bad... are mutants of the definition that follows.      *)
(***************************************************************************)
EXTENDS FiniteSets

CONSTANTS Cpus, Faults

Regions == {"vmxon", "vmcs", "stack", "bitmap"}
Structures == Regions \cup {"ept"}

\* A pointer and what it points to: null, allocated, or freed and not cleared.
Pointers == {"null", "live", "dangling"}

LoadSteps == {"version", "pool", "thread", "device", "link", "support", "state",
              "ept"}
CpuSteps == Regions \cup {"vmclear", "vmptrld", "vmlaunch"}

ASSUME LifecycleAssumption ==
    /\ Cpus # {}
    /\ Faults \subseteq LoadSteps \cup CpuSteps

VARIABLES
    pc,         \* the thread of DriverEntry and NovaUnload
    routine,    \* the routine it broadcasts
    dpc,        \* cpu -> where that routine is
    vmx,        \* cpu -> not in VMX operation, in it, in the guest, in an exit
    enabled,    \* cpu -> CR4.VMXE
    launched,   \* cpu -> GuestState[cpu].IsLaunched
    guestState, \* the array GuestState
    mem,        \* cpu -> structure -> its pointer in GuestState[cpu]
    records,    \* processors whose Ept has hook records, blocks of the pool
    pool,       \* poolManager and its threads
    names,      \* the device and its symbolic link
    nested,     \* another hypervisor runs below this one
    crash,      \* the machine has stopped
    failed,     \* history: the steps that failed
    twice       \* history: what was freed while it was not allocated

dpcVars == <<routine, dpc>>
cpuVars == <<vmx, enabled, launched>>
memVars == <<guestState, mem, records, twice>>
sysVars == <<pool, names>>
vars == <<pc, dpcVars, cpuVars, memVars, sysVars, nested, crash, failed>>

PoolStates == {"none", "live", "half", "deleted"}

TypeOK ==
    /\ pc \in {"entry", "pool", "device", "link", "support", "state", "ept",
               "undo", "allocate", "launch", "test", "running", "terminate",
               "release", "free", "delete", "remove", "out"}
    /\ routine \in {"none", "AllocateVmStructures", "InitializeGuest",
                    "TerminateGuest"}
    /\ dpc \in [Cpus -> Regions \cup {"start", "off", "free", "barrier",
                                      "done", "left"}]
    /\ vmx \in [Cpus -> {"off", "on", "guest", "root"}]
    /\ enabled \in [Cpus -> BOOLEAN]
    /\ launched \in [Cpus -> BOOLEAN]
    /\ guestState \in Pointers
    /\ mem \in [Cpus -> [Structures -> Pointers]]
    /\ records \subseteq Cpus
    /\ pool \in PoolStates
    /\ names \subseteq {"device", "link"}
    /\ nested \in BOOLEAN
    /\ crash \in BOOLEAN
    /\ failed \subseteq LoadSteps \cup CpuSteps
    /\ twice \subseteq Structures \cup {"state"}

Init ==
    /\ pc = "entry"
    /\ routine = "none"
    /\ dpc = [c \in Cpus |-> "done"]
    /\ vmx = [c \in Cpus |-> "off"]
    /\ enabled = [c \in Cpus |-> FALSE]
    /\ launched = [c \in Cpus |-> FALSE]
    /\ guestState = "null"
    /\ mem = [c \in Cpus |-> [s \in Structures |-> "null"]]
    /\ records = {}
    /\ pool = "none"
    /\ names = {}
    /\ nested \in BOOLEAN
    /\ crash = FALSE
    /\ failed = {}
    /\ twice = {}

-----------------------------------------------------------------------------
(* Memory.                                                                 *)

\* Freeing what is null does nothing.  The pointers in Cleared are set to null;
\* FreeVirtualMemory clears only its own copy of one.
Freed(c, S, Cleared) ==
    [mem EXCEPT ![c] = [s \in Structures |->
        IF s \in S /\ @[s] # "null"
        THEN IF s \in Cleared THEN "null" ELSE "dangling" ELSE @[s]]]

FreedAgain(c, S) == {s \in S : mem[c][s] = "dangling"}

Fail(step) == step \in Faults /\ failed' = failed \cup {step}

-----------------------------------------------------------------------------
(* DriverEntry up to VmxInitialize.                                        *)

GetVersion ==
    /\ pc = "entry"
    /\ \/ pc' = "pool" /\ UNCHANGED failed
       \/ pc' = "out" /\ Fail("version")
    /\ UNCHANGED <<dpcVars, cpuVars, memVars, sysVars, nested, crash>>

\* The constructor raises when a thread cannot be created; when it is the
\* second, the first already runs.
NewPoolManager ==
    /\ pc = "pool"
    /\ \/ pool' = "live" /\ pc' = "device" /\ UNCHANGED failed
       \/ pool' = "none" /\ pc' = "out" /\ Fail("pool")
       \/ pool' = "half" /\ pc' = "out" /\ Fail("thread")
    /\ UNCHANGED <<dpcVars, cpuVars, memVars, names, nested, crash>>

CreateDevice ==
    /\ pc = "device"
    /\ \/ names' = names \cup {"device"} /\ pc' = "link" /\ UNCHANGED failed
       \/ UNCHANGED names /\ pc' = "out" /\ Fail("device")
    /\ UNCHANGED <<dpcVars, cpuVars, memVars, pool, nested, crash>>

CreateSymbolicLink ==
    /\ pc = "link"
    /\ \/ names' = names \cup {"link"} /\ pc' = "support" /\ UNCHANGED failed
       \/ names' = names \ {"device"} /\ pc' = "out" /\ Fail("link")
    /\ UNCHANGED <<dpcVars, cpuVars, memVars, pool, nested, crash>>

-----------------------------------------------------------------------------
(* VmxInitializer.                                                         *)

\* IsVmxSupported and IsXstateSaveAreaSupported.
CheckSupport ==
    /\ pc = "support"
    /\ \/ pc' = "state" /\ UNCHANGED failed
       \/ pc' = "terminate" /\ Fail("support")
    /\ UNCHANGED <<dpcVars, cpuVars, memVars, sysVars, nested, crash>>

AllocateGuestState ==
    /\ pc = "state"
    /\ \/ guestState' = "live" /\ pc' = "ept" /\ UNCHANGED failed
       \/ UNCHANGED guestState /\ pc' = "terminate" /\ Fail("state")
    /\ UNCHANGED <<dpcVars, cpuVars, mem, records, twice, sysVars, nested, crash>>

NewEpt ==
    /\ pc = "ept"
    /\ \/ \E c \in Cpus :
            /\ mem[c]["ept"] = "null"
            /\ mem' = [mem EXCEPT ![c]["ept"] = "live"]
            /\ UNCHANGED <<pc, failed>>
       \/ /\ \A c \in Cpus : mem[c]["ept"] = "live"
          /\ pc' = "allocate"
          /\ UNCHANGED <<mem, failed>>
       \/ /\ \E c \in Cpus : mem[c]["ept"] = "null"
          /\ pc' = "undo"
          /\ Fail("ept")
          /\ UNCHANGED mem
    /\ UNCHANGED <<dpcVars, cpuVars, guestState, records, twice, sysVars, nested,
                   crash>>

BadPointerKept(c) ==
    /\ mem[c]["ept"] # "null"
    /\ mem' = Freed(c, {"ept"}, {})
    /\ twice' = twice \cup FreedAgain(c, {"ept"})
    /\ records' = records \ {c}

\* delete GuestState[c].EptInstance: its records go back to the pool.
DeleteEpt(c) ==
    /\ mem[c]["ept"] # "null"
    /\ mem' = Freed(c, {"ept"}, {"ept"})
    /\ twice' = twice \cup FreedAgain(c, {"ept"})
    /\ records' = records \ {c}

\* An Ept could not be built: the earlier ones go, and GuestState with them.
UndoEpts ==
    /\ pc = "undo"
    /\ \/ /\ \E c \in Cpus : DeleteEpt(c)
          /\ UNCHANGED <<pc, guestState>>
       \/ /\ \A c \in Cpus : mem[c]["ept"] = "null"
          /\ guestState' = "dangling"
          /\ pc' = "terminate"
          /\ UNCHANGED <<mem, records, twice>>
    /\ UNCHANGED <<dpcVars, cpuVars, sysVars, nested, crash, failed>>

-----------------------------------------------------------------------------
(* A routine on every processor.                                           *)

RoutineAt == [allocate |-> "AllocateVmStructures", launch |-> "InitializeGuest",
              terminate |-> "TerminateGuest"]
StepAfter == [allocate |-> "launch", launch |-> "test", terminate |-> "release"]

KeGenericCallDpc ==
    /\ pc \in DOMAIN RoutineAt
    /\ routine = "none"
    /\ routine' = RoutineAt[pc]
    /\ dpc' = [c \in Cpus |-> "start"]
    /\ UNCHANGED <<pc, cpuVars, memVars, sysVars, nested, crash, failed>>

KeSignalCallDpcSynchronize ==
    /\ \A c \in Cpus : dpc[c] = "barrier"
    /\ dpc' = [c \in Cpus |-> "done"]
    /\ UNCHANGED <<pc, routine, cpuVars, memVars, sysVars, nested, crash, failed>>

DpcsDone ==
    /\ pc \in DOMAIN RoutineAt
    /\ routine # "none"
    /\ \A c \in Cpus : dpc[c] = "done"
    /\ routine' = "none"
    /\ pc' = StepAfter[pc]
    /\ UNCHANGED <<dpc, cpuVars, memVars, sysVars, nested, crash, failed>>

At(c, r, step) == routine = r /\ dpc[c] = step
Goto(c, step) == dpc' = [dpc EXCEPT ![c] = step]

EnableVmxOperation(c) ==
    /\ At(c, "AllocateVmStructures", "start")
    /\ enabled' = [enabled EXCEPT ![c] = TRUE]
    /\ Goto(c, "vmxon")
    /\ UNCHANGED <<pc, routine, vmx, launched, memVars, sysVars, nested, crash,
                   failed>>

StructureAfter == [vmxon |-> "vmcs", vmcs |-> "stack", stack |-> "bitmap",
                   bitmap |-> "barrier"]

\* A structure of AllocateVmStructures; the VMXON region is used at once.  A
\* failure returns from the routine, without the signals at its end.
AllocateStructure(c, s) ==
    /\ At(c, "AllocateVmStructures", s)
    /\ \/ /\ mem' = [mem EXCEPT ![c][s] = "live"]
          /\ vmx' = IF s = "vmxon" THEN [vmx EXCEPT ![c] = "on"] ELSE vmx
          /\ Goto(c, StructureAfter[s])
          /\ UNCHANGED failed
       \/ /\ Fail(s)
          /\ Goto(c, "left")
          /\ UNCHANGED <<mem, vmx>>
    /\ UNCHANGED <<pc, routine, enabled, launched, guestState, records, twice,
                   sysVars, nested, crash>>

\* InitializeGuest: VMLAUNCH goes on as the guest, at the barrier.
Virtualize(c) ==
    /\ At(c, "InitializeGuest", "start")
    /\ mem[c]["vmxon"] # "null"
    /\ vmx' = [vmx EXCEPT ![c] = "guest"]
    /\ launched' = [launched EXCEPT ![c] = TRUE]
    /\ Goto(c, "barrier")
    /\ UNCHANGED <<pc, routine, enabled, memVars, sysVars, nested, crash, failed>>

BadLaunchReturns(c) ==
    /\ At(c, "InitializeGuest", "start")
    /\ \E s \in {"vmclear", "vmptrld", "vmlaunch"} : Fail(s)
    /\ Goto(c, "left")
    /\ UNCHANGED <<pc, routine, cpuVars, memVars, sysVars, nested, crash>>

\* Its error path leaves VMX operation (twice, when VMCLEAR failed) and then
\* executes VMREAD, which is undefined outside it.
VirtualizeFails(c) ==
    /\ At(c, "InitializeGuest", "start")
    /\ \/ mem[c]["vmxon"] = "null" /\ UNCHANGED failed
       \/ \E s \in {"vmclear", "vmptrld", "vmlaunch"} : Fail(s)
    /\ crash' = TRUE
    /\ UNCHANGED <<pc, dpcVars, cpuVars, memVars, sysVars, nested>>

\* TerminateGuest executes a vmcall: an exit of this hypervisor, ...
VmcallVmxoff(c) ==
    /\ At(c, "TerminateGuest", "start")
    /\ vmx[c] = "guest"
    /\ vmx' = [vmx EXCEPT ![c] = "root"]
    /\ Goto(c, "off")
    /\ UNCHANGED <<pc, routine, enabled, launched, memVars, sysVars, nested, crash,
                   failed>>

\* ... an exit of the one below it, which returns some status, or undefined.
VmcallElsewhere(c) ==
    /\ At(c, "TerminateGuest", "start")
    /\ vmx[c] # "guest"
    /\ IF nested \/ vmx[c] = "on"
       THEN Goto(c, "free") /\ UNCHANGED crash
       ELSE crash' = TRUE /\ UNCHANGED dpc
    /\ UNCHANGED <<pc, routine, cpuVars, memVars, sysVars, nested, failed>>

BadStillEnabled(c) ==
    /\ At(c, "TerminateGuest", "off")
    /\ vmx' = [vmx EXCEPT ![c] = "off"]
    /\ launched' = [launched EXCEPT ![c] = FALSE]
    /\ Goto(c, "free")
    /\ UNCHANGED <<pc, routine, enabled, memVars, sysVars, nested, crash, failed>>

\* In the exit, on the VMM stack.  ClearVmcsState leaves VMX operation itself
\* when it fails, and VMXOFF is then undefined.
VmxVmxoff(c) ==
    /\ At(c, "TerminateGuest", "off")
    /\ \/ /\ vmx' = [vmx EXCEPT ![c] = "off"]
          /\ launched' = [launched EXCEPT ![c] = FALSE]
          /\ enabled' = [enabled EXCEPT ![c] = FALSE]
          /\ Goto(c, "free")
          /\ UNCHANGED <<crash, failed>>
       \/ /\ Fail("vmclear")
          /\ crash' = TRUE
          /\ UNCHANGED <<dpc, cpuVars>>
    /\ UNCHANGED <<pc, routine, memVars, sysVars, nested>>

BadNothingToFree(c) ==
    /\ At(c, "TerminateGuest", "free")
    /\ IF guestState = "live"
       THEN /\ mem' = Freed(c, Regions, {"vmxon", "vmcs"})
            /\ Goto(c, "barrier")
       ELSE Goto(c, "left") /\ UNCHANGED mem
    /\ UNCHANGED <<pc, routine, cpuVars, guestState, records, twice, sysVars, nested,
                   crash, failed>>

\* The rest of VmxTerminate.  Through a dangling GuestState it reads memory of
\* somebody else: it may stop the machine or find nothing to free.
VmxTerminate(c) ==
    /\ At(c, "TerminateGuest", "free")
    /\ \/ /\ guestState = "live"
          /\ mem' = Freed(c, Regions, {"vmxon", "vmcs"})
          /\ twice' = twice \cup FreedAgain(c, Regions)
          /\ Goto(c, "barrier")
          /\ UNCHANGED crash
       \/ /\ guestState # "live"
          /\ Goto(c, "barrier")
          /\ UNCHANGED <<mem, twice, crash>>
       \/ /\ guestState = "dangling"
          /\ crash' = TRUE
          /\ UNCHANGED <<mem, twice, dpc>>
    /\ UNCHANGED <<pc, routine, cpuVars, guestState, records, sysVars, nested,
                   failed>>

-----------------------------------------------------------------------------
(* A loaded driver; the rest of TerminateVmx, DriverEntry and NovaUnload.  *)

\* The vmcall that ends VmxInitialize; DriverEntry returns success.
VmcallTest ==
    /\ pc = "test"
    /\ IF \E c \in Cpus : vmx[c] = "guest"
       THEN pc' = "running" /\ UNCHANGED crash
       ELSE crash' = TRUE /\ UNCHANGED pc
    /\ UNCHANGED <<dpcVars, cpuVars, memVars, sysVars, nested, failed>>

\* A request protects a page on a processor.
HookPage(c) ==
    /\ pc = "running"
    /\ records' = records \cup {c}
    /\ UNCHANGED <<pc, dpcVars, cpuVars, guestState, mem, twice, sysVars, nested,
                   crash, failed>>

BadUnloadAtOnce ==
    /\ pc = "running"
    /\ pc' = "release"
    /\ UNCHANGED <<dpcVars, cpuVars, memVars, sysVars, nested, crash, failed>>

NovaUnload ==
    /\ pc = "running"
    /\ pc' = "terminate"
    /\ UNCHANGED <<dpcVars, cpuVars, memVars, sysVars, nested, crash, failed>>

\* The processors' Epts, if there is a GuestState to find them in.
ReleaseEpts ==
    /\ pc = "release"
    /\ \/ /\ guestState = "live"
          /\ \E c \in Cpus : DeleteEpt(c)
          /\ UNCHANGED <<pc, crash>>
       \/ /\ guestState = "live" => \A c \in Cpus : mem[c]["ept"] = "null"
          /\ pc' = "free"
          /\ UNCHANGED <<mem, records, twice, crash>>
       \/ /\ guestState = "dangling"
          /\ crash' = TRUE
          /\ UNCHANGED <<pc, mem, records, twice>>
    /\ UNCHANGED <<dpcVars, cpuVars, guestState, sysVars, nested, failed>>

FreeGuestState ==
    /\ pc = "free"
    /\ guestState' = IF guestState = "null" THEN "null" ELSE "dangling"
    /\ twice' = IF guestState = "dangling" THEN twice \cup {"state"} ELSE twice
    /\ pc' = "delete"
    /\ UNCHANGED <<dpcVars, cpuVars, mem, records, sysVars, nested, crash, failed>>

\* The destructor waits for both threads.
DeletePoolManager ==
    /\ pc = "delete"
    /\ pool' = IF pool = "live" THEN "deleted" ELSE pool
    /\ pc' = "remove"
    /\ UNCHANGED <<dpcVars, cpuVars, memVars, names, nested, crash, failed>>

RemoveDevice ==
    /\ pc = "remove"
    /\ names' = {}
    /\ pc' = "out"
    /\ UNCHANGED <<dpcVars, cpuVars, memVars, pool, nested, crash, failed>>

-----------------------------------------------------------------------------

DriverStep ==
    \/ GetVersion \/ NewPoolManager \/ CreateDevice \/ CreateSymbolicLink
    \/ CheckSupport \/ AllocateGuestState \/ NewEpt \/ UndoEpts
    \/ KeGenericCallDpc \/ DpcsDone \/ VmcallTest
    \/ ReleaseEpts \/ FreeGuestState \/ DeletePoolManager \/ RemoveDevice

CpuStep(c) ==
    \/ EnableVmxOperation(c)
    \/ \E s \in Regions : AllocateStructure(c, s)
    \/ Virtualize(c) \/ VirtualizeFails(c)
    \/ VmcallVmxoff(c) \/ VmcallElsewhere(c) \/ VmxVmxoff(c) \/ VmxTerminate(c)

Next ==
    /\ ~crash
    /\ \/ DriverStep
       \/ NovaUnload
       \/ KeSignalCallDpcSynchronize
       \/ \E c \in Cpus : CpuStep(c) \/ HookPage(c)

\* Windows runs the thread and every DPC.  Nobody has to unload the driver.
Fairness ==
    /\ WF_vars(~crash /\ DriverStep)
    /\ WF_vars(~crash /\ KeSignalCallDpcSynchronize)
    /\ \A c \in Cpus : WF_vars(~crash /\ CpuStep(c))

Spec == Init /\ [][Next]_vars /\ Fairness

-----------------------------------------------------------------------------
(* Properties.                                                             *)

\* What a processor uses in VMX operation stays allocated: its VMXON region as
\* long as it is in VMX operation, and while it is the guest or in an exit its
\* VMCS, stack, bitmap and page table, and the array that leads to them; and
\* IsLaunched is set exactly while a vmcall would reach this hypervisor; however
\* the routines of the processors and the driver's thread interleave and
\* whatever step fails (Vmx.cpp:60-73, 149-158, 225-248).  So does the pool, as long
\* as some Ept has records in it (NovaHypervisor.cpp:97-105, Ept.cpp:35-43).
InUseIsLive ==
    /\ \A c \in Cpus :
        /\ vmx[c] # "off" => enabled[c] /\ mem[c]["vmxon"] = "live"
        /\ vmx[c] \in {"guest", "root"} =>
             /\ guestState = "live"
             /\ \A s \in Structures : mem[c][s] = "live"
        /\ launched[c] <=> vmx[c] \in {"guest", "root"}
    /\ records # {} => pool = "live"

\* Nothing is freed a second time, except GuestState after an Ept could not be
\* built: FreeVirtualMemory does not clear its caller's pointer (Vmx.cpp:156).
FreedOnce == twice \subseteq (IF "ept" \in failed THEN {"state"} ELSE {})

\* The threads of a pool that nobody deletes: a step between the first thread and
\* VmxInitialize failed (NovaHypervisor.cpp:46-71).
ThreadsLeft == failed \cap {"thread", "device", "link"} # {}

\* When the image goes away, after a failed load or an unload, nothing of it is
\* left: no processor in or enabled for VMX operation, no memory of GuestState, no
\* device, and no thread but the ones of ThreadsLeft.
NothingLeft ==
    pc = "out" =>
        /\ \A c \in Cpus : vmx[c] = "off" /\ ~enabled[c]
        /\ \A c \in Cpus, s \in Structures : mem[c][s] # "live"
        /\ guestState # "live"
        /\ names = {}
        /\ pool \in {"live", "half"} <=> ThreadsLeft

Abandoned == \E c \in Cpus : At(c, "AllocateVmStructures", "left")

\* The machine has stopped, and a step that failed before is the reason.
Stopped == crash /\ failed # {}

\* MemoryHelper.hpp:43: FreeVirtualMemory is "responsible for freeing virtual memory
\* and null it": no path frees the same memory a second time.
NulledWhenFreed == twice = {}

\* Loading ends, with every processor virtualized if it succeeds, unless a failed
\* step stops the machine or a processor has left AllocateVmStructures early: the
\* others wait for it at the barrier (Vmx.cpp:14-22, 474).
LoadEnds ==
    pc = "entry" ~> \/ pc = "running" /\ \A c \in Cpus : vmx[c] = "guest"
                    \/ pc = "out"
                    \/ Stopped
                    \/ Abandoned

\* Unloading, and cleaning up after a failed load, ends, and it never stops the
\* machine when no step had failed.
UnloadEnds == pc = "terminate" ~> (pc = "out" \/ Stopped)
=============================================================================
