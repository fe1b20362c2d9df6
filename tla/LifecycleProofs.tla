--------------------------- MODULE LifecycleProofs ---------------------------
(***************************************************************************)
(* Loading and unloading, for any processors and any steps that may fail:  *)
(* what is in use is allocated, nothing is freed twice but GuestState,     *)
(* and nothing stays behind.                                               *)
(*                                                                         *)
(* The invariant follows the driver's thread: for each of its phases it    *)
(* says what every processor has and what is allocated, and within a       *)
(* broadcast the place of each processor in the routine says it.           *)
(***************************************************************************)
EXTENDS Lifecycle, TLAPS

Off(c)      == vmx[c] = "off" /\ ~launched[c] /\ ~enabled[c]
Live(c, S)  == \A s \in S : mem[c][s] = "live"
Empty(c, S) == \A s \in S : mem[c][s] = "null"
Gone(c, S)  == \A s \in S : mem[c][s] # "live"

Virtual(c) == vmx[c] = "guest" /\ launched[c] /\ enabled[c] /\ Live(c, Structures)

DanglingIsKnown == guestState = "dangling" => "ept" \in failed

\* Until the first broadcast.
Early == {"entry", "pool", "device", "link", "support", "state"}

LoadInv ==
    pc \in Early \cup {"ept", "undo"} =>
        /\ routine = "none" /\ twice = {}
        /\ \A c \in Cpus : Off(c) /\ Empty(c, Regions)
        /\ pc \in Early => guestState = "null" /\ \A c \in Cpus : mem[c]["ept"] = "null"
        /\ pc \in {"ept", "undo"} =>
             guestState = "live" /\ \A c \in Cpus : mem[c]["ept"] # "dangling"
        /\ pc = "undo" => "ept" \in failed

\* AllocateVmStructures: what it has allocated when it is at a step.
Have == [start |-> {}, vmxon |-> {}, vmcs |-> {"vmxon"}, stack |-> {"vmxon", "vmcs"},
         bitmap |-> {"vmxon", "vmcs", "stack"}, barrier |-> Regions, done |-> Regions,
         left |-> {}]

Allocating(c) ==
    /\ dpc[c] \in DOMAIN Have
    /\ Live(c, Have[dpc[c]])
    /\ dpc[c] # "start" => enabled[c]
    /\ dpc[c] \in {"start", "vmxon"} => vmx[c] = "off"
    /\ dpc[c] \in {"vmcs", "stack", "bitmap", "barrier", "done"} => vmx[c] = "on"
    /\ dpc[c] = "left" => vmx[c] = "off" \/ (vmx[c] = "on" /\ mem[c]["vmxon"] = "live")

AllocateInv ==
    pc = "allocate" =>
        /\ guestState = "live" /\ twice = {}
        /\ routine \in {"none", "AllocateVmStructures"}
        /\ \A c \in Cpus :
             /\ ~launched[c] /\ mem[c]["ept"] = "live"
             /\ IF routine = "none" THEN Off(c) ELSE Allocating(c)

\* InitializeGuest.
Launching(c) ==
    /\ enabled[c] /\ Live(c, Structures)
    /\ IF routine = "none" \/ dpc[c] = "start"
       THEN vmx[c] = "on" /\ ~launched[c]
       ELSE dpc[c] \in {"barrier", "done"} /\ vmx[c] = "guest" /\ launched[c]

LaunchInv ==
    pc = "launch" =>
        /\ guestState = "live" /\ twice = {}
        /\ routine \in {"none", "InitializeGuest"}
        /\ \A c \in Cpus : Launching(c)

RunInv ==
    pc \in {"test", "running"} =>
        /\ guestState = "live" /\ twice = {}
        /\ routine = "none"
        /\ \A c \in Cpus : Virtual(c)

\* TerminateGuest, of processors that run as guests ...
Leaving(c) ==
    /\ mem[c]["ept"] = "live"
    /\ \/ (routine = "none" \/ dpc[c] = "start") /\ Virtual(c)
       \/ /\ routine # "none" /\ dpc[c] = "off"
          /\ vmx[c] = "root" /\ launched[c] /\ enabled[c] /\ Live(c, Structures)
       \/ routine # "none" /\ dpc[c] = "free" /\ Off(c) /\ Live(c, Regions)
       \/ routine # "none" /\ dpc[c] \in {"barrier", "done"} /\ Off(c) /\ Gone(c, Regions)

\* ... or have never been virtualized.
TerminateInv ==
    pc = "terminate" =>
        /\ twice = {} /\ DanglingIsKnown
        /\ routine \in {"none", "TerminateGuest"}
        /\ \A c \in Cpus :
             IF guestState = "live" THEN Leaving(c)
             ELSE Off(c) /\ Empty(c, Structures) /\ (routine # "none" => dpc[c] # "off")

ReleaseInv ==
    pc = "release" =>
        /\ twice = {} /\ DanglingIsKnown
        /\ routine = "none"
        /\ \A c \in Cpus :
             /\ Off(c) /\ Gone(c, Regions)
             /\ mem[c]["ept"] # "dangling"
             /\ guestState # "live" => mem[c]["ept"] = "null"

AfterInv ==
    pc \in {"free", "delete", "remove", "out"} =>
        /\ FreedOnce
        /\ routine = "none"
        /\ \A c \in Cpus : Off(c) /\ Gone(c, Structures)
        /\ pc = "free" => twice = {} /\ DanglingIsKnown
        /\ pc # "free" => guestState # "live"

\* Records need an Ept and a pool to go back to.
RecordsInv ==
    /\ \A c \in records : mem[c]["ept"] = "live"
    /\ pc \notin {"running", "terminate", "release"} => records = {}

SystemInv ==
    /\ pc \in {"entry", "pool"} => pool = "none"
    /\ pc \notin {"entry", "pool", "remove", "out"} => pool = "live"
    /\ pc = "remove" => pool = "deleted"
    /\ pc \in {"entry", "pool", "device", "out"} => names = {}
    /\ pc = "link" => names = {"device"}
    /\ pc # "out" => ~ThreadsLeft
    /\ pc = "out" => (pool \in {"live", "half"} <=> ThreadsLeft)

PhaseInv == LoadInv /\ AllocateInv /\ LaunchInv /\ RunInv /\ TerminateInv
            /\ ReleaseInv /\ AfterInv

Inv == TypeOK /\ PhaseInv /\ RecordsInv /\ SystemInv

LEMMA InitInv == Init => Inv
<1> SUFFICES ASSUME Init PROVE Inv
  OBVIOUS
<1>1. TypeOK
  BY DEF Init, TypeOK, Pointers, PoolStates
<1>2. PhaseInv
  BY DEF Init, PhaseInv, LoadInv, AllocateInv, LaunchInv, RunInv, TerminateInv,
         ReleaseInv, AfterInv, Off, Empty, Early, Structures
<1>3. RecordsInv /\ SystemInv
  BY DEF Init, RecordsInv, SystemInv, ThreadsLeft
<1> QED
  BY <1>1, <1>2, <1>3 DEF Inv

\* Nothing happens.
LEMMA StutterStep ==
  ASSUME Inv, UNCHANGED vars
  PROVE  Inv'
  BY DEF Inv, TypeOK, PhaseInv, LoadInv, AllocateInv, LaunchInv, RunInv,
         TerminateInv, ReleaseInv, AfterInv, RecordsInv, SystemInv, Off, Live, Empty,
         Gone, Virtual, Allocating, Launching, Leaving, DanglingIsKnown, FreedOnce,
         ThreadsLeft, vars, dpcVars, cpuVars, memVars, sysVars

(* The driver's thread, outside broadcasts.                                 *)

\* Up to the structures of a processor.
LEMMA EntryStep ==
  ASSUME Inv, GetVersion \/ NewPoolManager \/ CreateDevice \/ CreateSymbolicLink
  PROVE  Inv'
<1> USE DEF Fail, dpcVars, cpuVars, memVars, sysVars, LoadSteps, CpuSteps, Regions
<1>1. TypeOK'
  BY DEF Inv, TypeOK, GetVersion, NewPoolManager, CreateDevice, CreateSymbolicLink,
         PoolStates
<1>2. /\ pc \in {"entry", "pool", "device", "link"}
      /\ pc' \in {"pool", "device", "link", "support", "out"}
      /\ UNCHANGED <<routine, dpc, vmx, enabled, launched, guestState, mem, records,
                     twice>>
  BY DEF GetVersion, NewPoolManager, CreateDevice, CreateSymbolicLink
<1>3. PhaseInv'
  BY <1>2
  DEF Inv, PhaseInv, LoadInv, AllocateInv, LaunchInv, RunInv, TerminateInv, ReleaseInv,
      AfterInv, Early, Off, Empty, Gone, Structures, FreedOnce
<1>4. RecordsInv' /\ SystemInv'
  BY <1>2
  DEF Inv, RecordsInv, SystemInv, ThreadsLeft, GetVersion, NewPoolManager,
      CreateDevice, CreateSymbolicLink
<1> QED
  BY <1>1, <1>3, <1>4 DEF Inv

LEMMA InitializerStep ==
  ASSUME Inv, CheckSupport \/ AllocateGuestState
  PROVE  Inv'
<1> USE DEF Fail, dpcVars, cpuVars, memVars, sysVars, LoadSteps, CpuSteps, Regions
<1>1. TypeOK'
  BY DEF Inv, TypeOK, CheckSupport, AllocateGuestState, Pointers
<1>2. PhaseInv'
  BY DEF Inv, PhaseInv, LoadInv, AllocateInv, LaunchInv, RunInv, TerminateInv,
         ReleaseInv, AfterInv, Early, Off, Empty, Gone, Structures, DanglingIsKnown,
         CheckSupport, AllocateGuestState
<1>3. RecordsInv' /\ SystemInv'
  BY DEF Inv, RecordsInv, SystemInv, ThreadsLeft, CheckSupport, AllocateGuestState
<1> QED
  BY <1>1, <1>2, <1>3 DEF Inv

LEMMA NewEptStep ==
  ASSUME Inv, NewEpt
  PROVE  Inv'
<1> USE DEF Fail, dpcVars, cpuVars, sysVars, LoadSteps, CpuSteps, Regions
<1>1. TypeOK'
  <2>1. mem' \in [Cpus -> [Structures -> Pointers]]
    BY DEF Inv, TypeOK, NewEpt, Pointers, Structures
  <2>2. UNCHANGED <<routine, dpc, vmx, enabled, launched, guestState, records, twice,
                    pool, names, nested, crash>>
    BY DEF NewEpt
  <2>3. /\ pc' \in {"ept", "allocate", "undo"}
        /\ failed' \subseteq LoadSteps \cup CpuSteps
    BY DEF Inv, TypeOK, NewEpt
  <2> QED
    BY <2>1, <2>2, <2>3 DEF Inv, TypeOK
<1>2. PhaseInv'
  BY DEF Inv, TypeOK, PhaseInv, LoadInv, AllocateInv, LaunchInv, RunInv, TerminateInv,
         ReleaseInv, AfterInv, Early, Off, Empty, Structures, NewEpt
<1>3. RecordsInv' /\ SystemInv'
  BY DEF Inv, TypeOK, RecordsInv, SystemInv, ThreadsLeft, NewEpt, Structures
<1> QED
  BY <1>1, <1>2, <1>3 DEF Inv

\* Deleting an Ept touches its pointer and its records.
LEMMA DeleteEptFacts ==
  ASSUME Inv, NEW c \in Cpus, mem[c]["ept"] # "dangling", DeleteEpt(c)
  PROVE  /\ mem' \in [Cpus -> [Structures -> Pointers]]
         /\ \A d \in Cpus, s \in Regions : mem'[d][s] = mem[d][s]
         /\ \A d \in Cpus \ {c} : mem'[d]["ept"] = mem[d]["ept"]
         /\ mem'[c]["ept"] = "null"
         /\ twice' = twice
         /\ records' = records \ {c}
<1>1. mem' = Freed(c, {"ept"}, {"ept"})
  BY DEF DeleteEpt
<1>2. {"ept"} \in SUBSET Structures /\ Regions = Structures \ {"ept"}
  BY DEF Structures, Regions
<1>3. /\ mem' \in [Cpus -> [Structures -> Pointers]]
      /\ \A d \in Cpus \ {c} : mem'[d] = mem[d]
      /\ \A s \in Regions : mem'[c][s] = mem[c][s]
      /\ mem'[c]["ept"] = "null"
  BY <1>1 DEF Inv, TypeOK, Freed, Pointers, Structures, Regions
<1> QED
  BY <1>3 DEF DeleteEpt, FreedAgain

LEMMA UndoStep ==
  ASSUME Inv, UndoEpts
  PROVE  Inv'
<1> USE DEF dpcVars, cpuVars, sysVars
<1>1. CASE \E c \in Cpus : DeleteEpt(c) /\ UNCHANGED <<pc, guestState>>
  <2>1. PICK c \in Cpus : DeleteEpt(c) /\ UNCHANGED <<pc, guestState>>
    BY <1>1
  <2>2. pc = "undo" /\ mem[c]["ept"] # "dangling"
    BY DEF UndoEpts, Inv, PhaseInv, LoadInv
  <2>3. /\ mem' \in [Cpus -> [Structures -> Pointers]]
        /\ \A d \in Cpus, s \in Regions : mem'[d][s] = mem[d][s]
        /\ \A d \in Cpus \ {c} : mem'[d]["ept"] = mem[d]["ept"]
        /\ mem'[c]["ept"] = "null"
        /\ twice' = twice
        /\ records' = records \ {c}
    BY <2>1, <2>2, DeleteEptFacts
  <2>4. UNCHANGED <<pc, routine, dpc, vmx, enabled, launched, guestState, pool, names,
                    nested, crash, failed>>
    BY <2>1 DEF UndoEpts
  <2>5. TypeOK'
    BY <2>3, <2>4 DEF Inv, TypeOK
  <2>6. PhaseInv'
    BY <2>2, <2>3, <2>4
    DEF Inv, PhaseInv, LoadInv, AllocateInv, LaunchInv, RunInv, TerminateInv,
        ReleaseInv, AfterInv, Early, Off, Empty
  <2>7. RecordsInv' /\ SystemInv'
    BY <2>2, <2>3, <2>4 DEF Inv, RecordsInv, SystemInv, ThreadsLeft
  <2> QED
    BY <2>5, <2>6, <2>7 DEF Inv
<1>2. CASE /\ \A c \in Cpus : mem[c]["ept"] = "null"
           /\ guestState' = "dangling" /\ pc' = "terminate"
           /\ UNCHANGED <<mem, records, twice>>
  <2>1. TypeOK'
    BY <1>2 DEF Inv, TypeOK, UndoEpts, Pointers
  <2>2. PhaseInv'
    BY <1>2
    DEF Inv, PhaseInv, LoadInv, AllocateInv, LaunchInv, RunInv, TerminateInv,
        ReleaseInv, AfterInv, Early, Off, Empty, DanglingIsKnown, Structures, UndoEpts
  <2>3. RecordsInv' /\ SystemInv'
    BY <1>2 DEF Inv, RecordsInv, SystemInv, ThreadsLeft, UndoEpts
  <2> QED
    BY <2>1, <2>2, <2>3 DEF Inv
<1> QED
  BY <1>1, <1>2 DEF UndoEpts

LEMMA RunStep ==
  ASSUME Inv, VmcallTest \/ NovaUnload
  PROVE  Inv'
<1> USE DEF dpcVars, cpuVars, memVars, sysVars
<1>1. TypeOK'
  BY DEF Inv, TypeOK, VmcallTest, NovaUnload
<1>2. PhaseInv'
  BY DEF Inv, PhaseInv, LoadInv, AllocateInv, LaunchInv, RunInv, TerminateInv,
         ReleaseInv, AfterInv, Early, Virtual, Live, Leaving, DanglingIsKnown,
         Structures, VmcallTest, NovaUnload
<1>3. RecordsInv' /\ SystemInv'
  BY DEF Inv, RecordsInv, SystemInv, ThreadsLeft, VmcallTest, NovaUnload
<1> QED
  BY <1>1, <1>2, <1>3 DEF Inv

LEMMA HookStep ==
  ASSUME Inv, NEW c \in Cpus, HookPage(c)
  PROVE  Inv'
<1> USE DEF dpcVars, cpuVars, sysVars
<1>1. TypeOK'
  BY DEF Inv, TypeOK, HookPage
<1>2. PhaseInv'
  BY DEF Inv, PhaseInv, LoadInv, AllocateInv, LaunchInv, RunInv, TerminateInv,
         ReleaseInv, AfterInv, Early, Virtual, Live, HookPage
<1>3. RecordsInv' /\ SystemInv'
  BY DEF Inv, PhaseInv, RunInv, Virtual, Live, Structures, RecordsInv, SystemInv,
         ThreadsLeft, HookPage
<1> QED
  BY <1>1, <1>2, <1>3 DEF Inv

LEMMA ReleaseStep ==
  ASSUME Inv, ReleaseEpts
  PROVE  Inv'
<1> USE DEF dpcVars, cpuVars, sysVars
<1>1. /\ pc = "release"
      /\ UNCHANGED <<routine, dpc, vmx, enabled, launched, guestState, pool, names,
                     nested, failed>>
  BY DEF ReleaseEpts
<1>2. CASE \E c \in Cpus : DeleteEpt(c) /\ guestState = "live" /\ UNCHANGED <<pc, crash>>
  <2>1. PICK c \in Cpus : DeleteEpt(c) /\ guestState = "live" /\ UNCHANGED <<pc, crash>>
    BY <1>2
  <2>2. mem[c]["ept"] # "dangling"
    BY <1>1 DEF Inv, PhaseInv, ReleaseInv
  <2>3. /\ mem' \in [Cpus -> [Structures -> Pointers]]
        /\ \A d \in Cpus, s \in Regions : mem'[d][s] = mem[d][s]
        /\ \A d \in Cpus \ {c} : mem'[d]["ept"] = mem[d]["ept"]
        /\ mem'[c]["ept"] = "null"
        /\ twice' = twice
        /\ records' = records \ {c}
    BY <2>1, <2>2, DeleteEptFacts
  <2>4. TypeOK'
    BY <1>1, <2>1, <2>3 DEF Inv, TypeOK
  <2>5. PhaseInv'
    BY <1>1, <2>1, <2>3
    DEF Inv, PhaseInv, LoadInv, AllocateInv, LaunchInv, RunInv, TerminateInv,
        ReleaseInv, AfterInv, Early, Off, Gone, DanglingIsKnown
  <2>6. RecordsInv' /\ SystemInv'
    BY <1>1, <2>1, <2>3 DEF Inv, TypeOK, RecordsInv, SystemInv, ThreadsLeft
  <2> QED
    BY <2>4, <2>5, <2>6 DEF Inv
<1>3. CASE /\ guestState = "live" => \A c \in Cpus : mem[c]["ept"] = "null"
           /\ pc' = "free"
           /\ UNCHANGED <<mem, records, twice, crash>>
  <2>1. \A c \in Cpus : mem[c]["ept"] = "null"
    BY <1>1, <1>3 DEF Inv, PhaseInv, ReleaseInv
  <2>2. TypeOK'
    BY <1>1, <1>3 DEF Inv, TypeOK
  <2>3. PhaseInv'
    BY <1>1, <1>3, <2>1
    DEF Inv, PhaseInv, LoadInv, AllocateInv, LaunchInv, RunInv, TerminateInv,
        ReleaseInv, AfterInv, Early, Off, Gone, DanglingIsKnown, Structures, FreedOnce
  <2>4. RecordsInv' /\ SystemInv'
    BY <1>1, <1>3, <2>1 DEF Inv, TypeOK, RecordsInv, SystemInv, ThreadsLeft
  <2> QED
    BY <2>2, <2>3, <2>4 DEF Inv
<1>4. CASE crash' = TRUE /\ UNCHANGED <<pc, mem, records, twice>>
  <2>1. TypeOK'
    BY <1>1, <1>4 DEF Inv, TypeOK
  <2>2. PhaseInv'
    BY <1>1, <1>4
    DEF Inv, PhaseInv, LoadInv, AllocateInv, LaunchInv, RunInv, TerminateInv,
        ReleaseInv, AfterInv, Early, Off, Gone, DanglingIsKnown
  <2>3. RecordsInv' /\ SystemInv'
    BY <1>1, <1>4 DEF Inv, RecordsInv, SystemInv, ThreadsLeft
  <2> QED
    BY <2>1, <2>2, <2>3 DEF Inv
<1> QED
  BY <1>2, <1>3, <1>4 DEF ReleaseEpts

\* After the Epts.
LEMMA AfterStep ==
  ASSUME Inv, FreeGuestState \/ DeletePoolManager \/ RemoveDevice
  PROVE  Inv'
<1> USE DEF dpcVars, cpuVars, memVars, sysVars
<1>1. TypeOK'
  BY DEF Inv, TypeOK, FreeGuestState, DeletePoolManager, RemoveDevice, Pointers,
         PoolStates
<1>2. /\ pc \in {"free", "delete", "remove"}
      /\ pc' \in {"delete", "remove", "out"}
      /\ pc = "free" <=> pc' = "delete"
      /\ UNCHANGED <<routine, dpc, vmx, enabled, launched, mem, records, nested, crash,
                     failed>>
  BY DEF FreeGuestState, DeletePoolManager, RemoveDevice
<1>3. guestState' # "live" /\ FreedOnce'
  BY <1>2
  DEF Inv, PhaseInv, AfterInv, FreedOnce, DanglingIsKnown, FreeGuestState,
      DeletePoolManager, RemoveDevice
<1>4. PhaseInv'
  BY <1>2, <1>3
  DEF Inv, PhaseInv, LoadInv, AllocateInv, LaunchInv, RunInv, TerminateInv,
      ReleaseInv, AfterInv, Early, Off, Gone
<1>5. RecordsInv' /\ SystemInv'
  BY <1>2
  DEF Inv, RecordsInv, SystemInv, ThreadsLeft, FreeGuestState, DeletePoolManager,
      RemoveDevice
<1> QED
  BY <1>1, <1>4, <1>5 DEF Inv

(* Broadcasts.                                                              *)

LEMMA CallBegins ==
  ASSUME Inv, KeGenericCallDpc
  PROVE  Inv'
<1> USE DEF cpuVars, memVars, sysVars
<1>1. /\ pc \in {"allocate", "launch", "terminate"} /\ routine = "none"
      /\ routine' = RoutineAt[pc]
      /\ dpc' = [c \in Cpus |-> "start"]
      /\ UNCHANGED <<pc, vmx, enabled, launched, guestState, mem, records, twice, pool,
                     names, nested, crash, failed>>
  BY DEF KeGenericCallDpc, RoutineAt
<1>2. TypeOK'
  BY <1>1 DEF Inv, TypeOK, RoutineAt
<1>3. ASSUME pc = "allocate" PROVE PhaseInv'
  BY <1>1, <1>3
  DEF Inv, PhaseInv, LoadInv, AllocateInv, LaunchInv, RunInv, TerminateInv,
      ReleaseInv, AfterInv, Early, Off, Allocating, Live, Have, RoutineAt
<1>4. ASSUME pc = "launch" PROVE PhaseInv'
  BY <1>1, <1>4
  DEF Inv, PhaseInv, LoadInv, AllocateInv, LaunchInv, RunInv, TerminateInv,
      ReleaseInv, AfterInv, Early, Launching, Live, RoutineAt
<1>5. ASSUME pc = "terminate" PROVE PhaseInv'
  BY <1>1, <1>5
  DEF Inv, PhaseInv, LoadInv, AllocateInv, LaunchInv, RunInv, TerminateInv,
      ReleaseInv, AfterInv, Early, Off, Empty, Leaving, Virtual, Live, DanglingIsKnown,
      RoutineAt
<1>6. RecordsInv' /\ SystemInv'
  BY <1>1 DEF Inv, RecordsInv, SystemInv, ThreadsLeft
<1>7. PhaseInv'
  BY <1>1, <1>3, <1>4, <1>5
<1> QED
  BY <1>2, <1>6, <1>7 DEF Inv

LEMMA BarrierStep ==
  ASSUME Inv, KeSignalCallDpcSynchronize
  PROVE  Inv'
<1> USE DEF cpuVars, memVars, sysVars
<1>1. /\ \A c \in Cpus : dpc[c] = "barrier" /\ dpc'[c] = "done"
      /\ UNCHANGED <<pc, routine, vmx, enabled, launched, guestState, mem, records,
                     twice, pool, names, nested, crash, failed>>
  BY DEF KeSignalCallDpcSynchronize
<1>2. TypeOK'
  BY <1>1 DEF Inv, TypeOK, KeSignalCallDpcSynchronize
<1>3. LoadInv' /\ LaunchInv' /\ RunInv' /\ ReleaseInv' /\ AfterInv'
  BY <1>1
  DEF Inv, PhaseInv, LoadInv, LaunchInv, RunInv, ReleaseInv, AfterInv, Off, Empty,
      Launching, Live, Virtual, Gone, DanglingIsKnown, FreedOnce
<1>4. AllocateInv'
  BY <1>1 DEF Inv, PhaseInv, AllocateInv, Off, Allocating, Live, Have
<1>5. TerminateInv'
  BY <1>1
  DEF Inv, PhaseInv, TerminateInv, Off, Empty, Leaving, Virtual, Live, Gone,
      DanglingIsKnown
<1>6. RecordsInv' /\ SystemInv'
  BY <1>1 DEF Inv, RecordsInv, SystemInv, ThreadsLeft
<1> QED
  BY <1>2, <1>3, <1>4, <1>5, <1>6 DEF Inv, PhaseInv

LEMMA CallEnds ==
  ASSUME Inv, DpcsDone
  PROVE  Inv'
<1> USE DEF cpuVars, memVars, sysVars
<1>1. /\ pc \in {"allocate", "launch", "terminate"} /\ routine # "none"
      /\ \A c \in Cpus : dpc[c] = "done"
      /\ routine' = "none" /\ pc' = StepAfter[pc]
      /\ UNCHANGED <<dpc, vmx, enabled, launched, guestState, mem, records, twice, pool,
                     names, nested, crash, failed>>
  BY DEF DpcsDone, RoutineAt
<1>2. TypeOK'
  BY <1>1 DEF Inv, TypeOK, StepAfter
<1>3. ASSUME pc = "allocate" PROVE PhaseInv'
  <2>1. \A c \in Cpus : enabled[c] /\ Live(c, Structures) /\ vmx[c] = "on" /\ ~launched[c]
    BY <1>1, <1>3 DEF Inv, PhaseInv, AllocateInv, Allocating, Live, Have, Structures
  <2> QED
    BY <1>1, <1>3, <2>1
    DEF Inv, PhaseInv, LoadInv, AllocateInv, LaunchInv, RunInv, TerminateInv,
        ReleaseInv, AfterInv, Early, Launching, Live, StepAfter
<1>4. ASSUME pc = "launch" PROVE PhaseInv'
  BY <1>1, <1>4
  DEF Inv, PhaseInv, LoadInv, AllocateInv, LaunchInv, RunInv, TerminateInv,
      ReleaseInv, AfterInv, Early, Launching, Virtual, Live, StepAfter
<1>5. ASSUME pc = "terminate" PROVE PhaseInv'
  <2>1. \A c \in Cpus : /\ Off(c) /\ Gone(c, Regions) /\ mem[c]["ept"] # "dangling"
                        /\ guestState # "live" => mem[c]["ept"] = "null"
    BY <1>1, <1>5
    DEF Inv, PhaseInv, TerminateInv, Leaving, Empty, Gone, Structures
  <2> QED
    BY <1>1, <1>5, <2>1
    DEF Inv, PhaseInv, LoadInv, AllocateInv, LaunchInv, RunInv, TerminateInv,
        ReleaseInv, AfterInv, Early, Off, Gone, DanglingIsKnown, StepAfter
<1>6. PhaseInv'
  BY <1>1, <1>3, <1>4, <1>5
<1>7. RecordsInv' /\ SystemInv'
  BY <1>1 DEF Inv, RecordsInv, SystemInv, ThreadsLeft, StepAfter
<1> QED
  BY <1>2, <1>6, <1>7 DEF Inv

(* A processor in a routine: only its own entries change.                   *)

\* The phase in which a routine runs.
LEMMA PhaseOfRoutine ==
  ASSUME Inv
  PROVE  /\ routine = "AllocateVmStructures" => pc = "allocate"
         /\ routine = "InitializeGuest" => pc = "launch"
         /\ routine = "TerminateGuest" => pc = "terminate"
  BY DEF Inv, TypeOK, PhaseInv, LoadInv, AllocateInv, LaunchInv, RunInv, TerminateInv,
         ReleaseInv, AfterInv, Early

LEMMA AllocateStep ==
  ASSUME Inv, NEW c \in Cpus,
         EnableVmxOperation(c) \/ \E s \in Regions : AllocateStructure(c, s)
  PROVE  Inv'
<1> USE DEF cpuVars, memVars, sysVars, At, Goto
<1>1. /\ pc = "allocate" /\ routine = "AllocateVmStructures"
      /\ UNCHANGED <<pc, routine, launched, guestState, records, twice, pool, names,
                     nested, crash>>
  BY PhaseOfRoutine DEF EnableVmxOperation, AllocateStructure
<1>2. CASE EnableVmxOperation(c)
  <2>1. /\ dpc[c] = "start" /\ dpc' = [dpc EXCEPT ![c] = "vmxon"]
        /\ enabled' = [enabled EXCEPT ![c] = TRUE]
        /\ UNCHANGED <<vmx, mem, failed>>
    BY <1>2 DEF EnableVmxOperation
  <2>2. TypeOK'
    BY <1>1, <2>1 DEF Inv, TypeOK, Regions
  <2>3. AllocateInv'
    BY <1>1, <2>1 DEF Inv, TypeOK, PhaseInv, AllocateInv, Allocating, Live, Have
  <2>4. PhaseInv'
    BY <1>1, <2>3
    DEF PhaseInv, LoadInv, LaunchInv, RunInv, TerminateInv, ReleaseInv, AfterInv, Early
  <2>5. RecordsInv' /\ SystemInv'
    BY <1>1, <2>1 DEF Inv, RecordsInv, SystemInv, ThreadsLeft
  <2> QED
    BY <2>2, <2>4, <2>5 DEF Inv
<1>3. ASSUME NEW s \in Regions, AllocateStructure(c, s)
      PROVE  Inv'
  <2>1. /\ dpc[c] = s /\ UNCHANGED enabled
        /\ \/ /\ mem' = [mem EXCEPT ![c][s] = "live"]
              /\ vmx' = IF s = "vmxon" THEN [vmx EXCEPT ![c] = "on"] ELSE vmx
              /\ dpc' = [dpc EXCEPT ![c] = StructureAfter[s]]
              /\ UNCHANGED failed
           \/ /\ failed' = failed \cup {s}
              /\ dpc' = [dpc EXCEPT ![c] = "left"]
              /\ UNCHANGED <<mem, vmx>>
    BY <1>3 DEF AllocateStructure, Fail
  <2>2. TypeOK'
    <3>1. StructureAfter[s] \in Regions \cup {"barrier"} /\ s \in CpuSteps
          /\ s \in Structures
      BY DEF StructureAfter, Regions, CpuSteps, Structures
    <3>2. mem' \in [Cpus -> [Structures -> Pointers]]
      <4>1. CASE UNCHANGED mem
        BY <4>1 DEF Inv, TypeOK
      <4>2. CASE mem' = [mem EXCEPT ![c][s] = "live"]
        BY <3>1, <4>2 DEF Inv, TypeOK, Pointers
      <4> QED
        BY <2>1, <4>1, <4>2
    <3>3. dpc' \in [Cpus -> Regions \cup {"start", "off", "free", "barrier", "done",
                                         "left"}]
      BY <2>1, <3>1 DEF Inv, TypeOK
    <3>4. vmx' \in [Cpus -> {"off", "on", "guest", "root"}]
          /\ failed' \subseteq LoadSteps \cup CpuSteps
      BY <2>1, <3>1 DEF Inv, TypeOK
    <3> QED
      BY <1>1, <2>1, <3>2, <3>3, <3>4 DEF Inv, TypeOK
  <2>3. \A d \in Cpus \ {c} : /\ mem'[d] = mem[d] /\ vmx'[d] = vmx[d]
                              /\ dpc'[d] = dpc[d]
    BY <2>1 DEF Inv, TypeOK
  <2>4. mem'[c]["ept"] = mem[c]["ept"]
    BY <2>1 DEF Inv, TypeOK, Structures, Regions
  <2>5. Allocating(c)'
    <3>1. Allocating(c)
      BY <1>1 DEF Inv, PhaseInv, AllocateInv
    <3>2. CASE /\ mem' = [mem EXCEPT ![c][s] = "live"]
               /\ vmx' = IF s = "vmxon" THEN [vmx EXCEPT ![c] = "on"] ELSE vmx
               /\ dpc' = [dpc EXCEPT ![c] = StructureAfter[s]]
      <4>1. /\ mem'[c][s] = "live" /\ dpc'[c] = StructureAfter[s]
            /\ \A t \in Structures \ {s} : mem'[c][t] = mem[c][t]
            /\ vmx'[c] = IF s = "vmxon" THEN "on" ELSE vmx[c]
        BY <3>2 DEF Inv, TypeOK, Structures
      <4> QED
        BY <2>1, <3>1, <4>1
        DEF Allocating, Live, Have, StructureAfter, Structures, Regions
    <3>3. CASE dpc' = [dpc EXCEPT ![c] = "left"] /\ UNCHANGED <<mem, vmx>>
      BY <2>1, <3>1, <3>3 DEF Inv, TypeOK, Allocating, Live, Have, Regions
    <3> QED
      BY <2>1, <3>2, <3>3
  <2>6. AllocateInv'
    BY <1>1, <2>1, <2>3, <2>4, <2>5
    DEF Inv, PhaseInv, AllocateInv, Allocating, Live
  <2>7. PhaseInv'
    BY <1>1, <2>6
    DEF PhaseInv, LoadInv, LaunchInv, RunInv, TerminateInv, ReleaseInv, AfterInv, Early
  <2>8. RecordsInv' /\ SystemInv'
    <3>1. records = {}
      BY <1>1 DEF Inv, RecordsInv
    <3> QED
      BY <1>1, <2>1, <3>1 DEF Inv, RecordsInv, SystemInv, ThreadsLeft, Regions
  <2> QED
    BY <2>2, <2>7, <2>8 DEF Inv
<1> QED
  BY <1>2, <1>3

\* A step after which the machine stands still.
LEMMA CrashStep ==
  ASSUME Inv, crash' = TRUE,
         failed' = failed \/ \E s \in CpuSteps : failed' = failed \cup {s},
         UNCHANGED <<pc, dpcVars, cpuVars, memVars, sysVars, nested>>
  PROVE  Inv'
<1> USE DEF dpcVars, cpuVars, memVars, sysVars
<1>1. TypeOK'
  BY DEF Inv, TypeOK
<1>2. (ThreadsLeft' <=> ThreadsLeft) /\ failed \subseteq failed'
      /\ ("ept" \in failed' <=> "ept" \in failed)
  BY DEF ThreadsLeft, CpuSteps, Regions
<1>3. PhaseInv'
  BY <1>2
  DEF Inv, PhaseInv, LoadInv, AllocateInv, LaunchInv, RunInv, TerminateInv,
      ReleaseInv, AfterInv, Off, Live, Empty, Gone, Virtual, Allocating, Launching,
      Leaving, DanglingIsKnown, FreedOnce
<1>4. RecordsInv' /\ SystemInv'
  BY <1>2 DEF Inv, RecordsInv, SystemInv
<1> QED
  BY <1>1, <1>3, <1>4 DEF Inv

LEMMA VirtualizeStep ==
  ASSUME Inv, NEW c \in Cpus, Virtualize(c)
  PROVE  Inv'
<1> USE DEF memVars, sysVars, At, Goto
<1>1. /\ pc = "launch" /\ routine = "InitializeGuest" /\ dpc[c] = "start"
      /\ vmx' = [vmx EXCEPT ![c] = "guest"]
      /\ launched' = [launched EXCEPT ![c] = TRUE]
      /\ dpc' = [dpc EXCEPT ![c] = "barrier"]
      /\ UNCHANGED <<pc, routine, enabled, guestState, mem, records, twice, pool, names,
                     nested, crash, failed>>
  BY PhaseOfRoutine DEF Virtualize
<1>2. TypeOK'
  BY <1>1 DEF Inv, TypeOK
<1>3. LaunchInv'
  BY <1>1 DEF Inv, TypeOK, PhaseInv, LaunchInv, Launching, Live
<1>4. PhaseInv'
  BY <1>1, <1>3
  DEF PhaseInv, LoadInv, AllocateInv, RunInv, TerminateInv, ReleaseInv, AfterInv, Early
<1>5. RecordsInv' /\ SystemInv'
  BY <1>1 DEF Inv, RecordsInv, SystemInv, ThreadsLeft
<1> QED
  BY <1>2, <1>4, <1>5 DEF Inv

LEMMA VmcallStep ==
  ASSUME Inv, NEW c \in Cpus, VmcallVmxoff(c) \/ VmcallElsewhere(c)
  PROVE  Inv'
<1> USE DEF cpuVars, memVars, sysVars, At, Goto
<1>1. /\ pc = "terminate" /\ routine = "TerminateGuest" /\ dpc[c] = "start"
      /\ UNCHANGED <<pc, routine, enabled, launched, guestState, mem, records, twice,
                     pool, names, nested, failed>>
  BY PhaseOfRoutine DEF VmcallVmxoff, VmcallElsewhere
<1>2. CASE VmcallVmxoff(c)
  <2>1. /\ vmx[c] = "guest" /\ vmx' = [vmx EXCEPT ![c] = "root"]
        /\ dpc' = [dpc EXCEPT ![c] = "off"] /\ UNCHANGED crash
    BY <1>2 DEF VmcallVmxoff
  <2>2. guestState = "live"
    BY <1>1, <2>1 DEF Inv, PhaseInv, TerminateInv, Off
  <2>3. TerminateInv'
    BY <1>1, <2>1, <2>2
    DEF Inv, TypeOK, PhaseInv, TerminateInv, Leaving, Virtual, Off, Live, Gone,
        DanglingIsKnown
  <2>4. TypeOK'
    BY <1>1, <2>1 DEF Inv, TypeOK
  <2> QED
    BY <1>1, <2>3, <2>4
    DEF Inv, PhaseInv, LoadInv, AllocateInv, LaunchInv, RunInv, ReleaseInv, AfterInv,
        Early, RecordsInv, SystemInv, ThreadsLeft
<1>3. CASE VmcallElsewhere(c) /\ (nested \/ vmx[c] = "on")
  <2>1. /\ vmx[c] # "guest" /\ dpc' = [dpc EXCEPT ![c] = "free"]
        /\ UNCHANGED <<vmx, crash>>
    BY <1>3 DEF VmcallElsewhere
  <2>2. guestState # "live"
    BY <1>1, <2>1 DEF Inv, PhaseInv, TerminateInv, Leaving, Virtual
  <2>3. TerminateInv'
    BY <1>1, <2>1, <2>2
    DEF Inv, TypeOK, PhaseInv, TerminateInv, Off, Empty, DanglingIsKnown
  <2>4. TypeOK'
    BY <1>1, <1>3, <2>1 DEF Inv, TypeOK
  <2> QED
    BY <1>1, <2>3, <2>4
    DEF Inv, PhaseInv, LoadInv, AllocateInv, LaunchInv, RunInv, ReleaseInv, AfterInv,
        Early, RecordsInv, SystemInv, ThreadsLeft
<1>4. CASE VmcallElsewhere(c) /\ ~(nested \/ vmx[c] = "on")
  BY <1>1, <1>4, CrashStep DEF VmcallElsewhere, dpcVars
<1> QED
  BY <1>2, <1>3, <1>4 DEF VmcallElsewhere

LEMMA VmxoffStep ==
  ASSUME Inv, NEW c \in Cpus, VmxVmxoff(c)
  PROVE  Inv'
<1> USE DEF memVars, sysVars, At, Goto
<1>1. /\ pc = "terminate" /\ routine = "TerminateGuest" /\ dpc[c] = "off"
      /\ UNCHANGED <<pc, routine, guestState, mem, records, twice, pool, names, nested>>
  BY PhaseOfRoutine DEF VmxVmxoff
<1>2. CASE UNCHANGED <<crash, failed>> /\ vmx' = [vmx EXCEPT ![c] = "off"]
           /\ launched' = [launched EXCEPT ![c] = FALSE]
           /\ enabled' = [enabled EXCEPT ![c] = FALSE]
           /\ dpc' = [dpc EXCEPT ![c] = "free"]
  <2>1. guestState = "live"
    BY <1>1 DEF Inv, PhaseInv, TerminateInv
  <2>2. TerminateInv'
    <3>1. Off(c)' /\ Live(c, Regions)' /\ dpc'[c] = "free"
      BY <1>1, <1>2, <2>1
      DEF Inv, TypeOK, PhaseInv, TerminateInv, Leaving, Off, Live, Structures
    <3>2. \A d \in Cpus \ {c} : /\ vmx'[d] = vmx[d] /\ launched'[d] = launched[d]
                                /\ enabled'[d] = enabled[d] /\ dpc'[d] = dpc[d]
      BY <1>2 DEF Inv, TypeOK
    <3>3. \A d \in Cpus \ {c} : Leaving(d) => Leaving(d)'
      BY <1>1, <3>2 DEF Leaving, Virtual, Off, Live, Gone
    <3>4. \A d \in Cpus : Leaving(d)
      BY <1>1, <2>1 DEF Inv, PhaseInv, TerminateInv
    <3>5. Leaving(c)'
      BY <1>1, <3>1, <3>4 DEF Leaving
    <3> QED
      BY <1>1, <1>2, <2>1, <3>3, <3>4, <3>5
      DEF Inv, PhaseInv, TerminateInv, DanglingIsKnown
  <2>3. TypeOK'
    BY <1>1, <1>2 DEF Inv, TypeOK
  <2> QED
    BY <1>1, <1>2, <2>2, <2>3
    DEF Inv, PhaseInv, LoadInv, AllocateInv, LaunchInv, RunInv, ReleaseInv, AfterInv,
        Early, RecordsInv, SystemInv, ThreadsLeft
<1>3. CASE Fail("vmclear") /\ crash' = TRUE /\ UNCHANGED <<dpc, cpuVars>>
  BY <1>1, <1>3, CrashStep DEF Fail, dpcVars, CpuSteps
<1> QED
  BY <1>2, <1>3 DEF VmxVmxoff

LEMMA FreeStep ==
  ASSUME Inv, NEW c \in Cpus, VmxTerminate(c)
  PROVE  Inv'
<1> USE DEF cpuVars, sysVars, At, Goto
<1>1. /\ pc = "terminate" /\ routine = "TerminateGuest" /\ dpc[c] = "free"
      /\ UNCHANGED <<pc, routine, vmx, enabled, launched, guestState, records, pool,
                     names, nested, failed>>
  BY PhaseOfRoutine DEF VmxTerminate
<1>2. CASE guestState = "live" /\ UNCHANGED crash
  <2>1. /\ mem' = Freed(c, Regions, {"vmxon", "vmcs"})
        /\ twice' = twice \cup FreedAgain(c, Regions)
        /\ dpc' = [dpc EXCEPT ![c] = "barrier"]
    BY <1>2 DEF VmxTerminate
  <2>2. \A d \in Cpus : Leaving(d)
    BY <1>1, <1>2 DEF Inv, PhaseInv, TerminateInv
  <2>3. Off(c) /\ Live(c, Regions)
    BY <1>1, <2>2 DEF Leaving
  <2>4. /\ mem' \in [Cpus -> [Structures -> Pointers]]
        /\ \A d \in Cpus \ {c} : mem'[d] = mem[d]
        /\ mem'[c]["ept"] = mem[c]["ept"]
        /\ Gone(c, Regions)'
    BY <2>1 DEF Inv, TypeOK, Freed, Gone, Pointers, Structures, Regions
  <2>5. twice' = twice
    BY <2>1, <2>3 DEF FreedAgain, Live
  <2>6. TypeOK'
    BY <1>1, <1>2, <2>1, <2>4, <2>5 DEF Inv, TypeOK
  <2>7. TerminateInv'
    <3>1. Leaving(c)'
      BY <1>1, <2>1, <2>2, <2>3, <2>4 DEF Inv, TypeOK, Leaving, Off
    <3>2. \A d \in Cpus \ {c} : Leaving(d)'
      BY <1>1, <2>1, <2>2, <2>4 DEF Inv, TypeOK, Leaving, Virtual, Off, Live, Gone
    <3> QED
      BY <1>1, <1>2, <2>5, <3>1, <3>2 DEF Inv, PhaseInv, TerminateInv, DanglingIsKnown
  <2>8. RecordsInv'
    BY <1>1, <2>4 DEF Inv, TypeOK, RecordsInv
  <2> QED
    BY <1>1, <2>6, <2>7, <2>8
    DEF Inv, PhaseInv, LoadInv, AllocateInv, LaunchInv, RunInv, ReleaseInv, AfterInv,
        Early, SystemInv, ThreadsLeft
<1>3. CASE /\ guestState # "live" /\ UNCHANGED <<mem, twice, crash>>
           /\ dpc' = [dpc EXCEPT ![c] = "barrier"]
  <2>1. TerminateInv'
    BY <1>1, <1>3
    DEF Inv, TypeOK, PhaseInv, TerminateInv, Off, Empty, DanglingIsKnown
  <2>2. TypeOK'
    BY <1>1, <1>3 DEF Inv, TypeOK
  <2> QED
    BY <1>1, <1>3, <2>1, <2>2
    DEF Inv, PhaseInv, LoadInv, AllocateInv, LaunchInv, RunInv, ReleaseInv, AfterInv,
        Early, RecordsInv, SystemInv, ThreadsLeft
<1>4. CASE crash' = TRUE /\ UNCHANGED <<mem, twice, dpc>>
  BY <1>1, <1>4, CrashStep DEF dpcVars, memVars
<1> QED
  BY <1>2, <1>3, <1>4 DEF VmxTerminate

LEMMA CpuStepInv ==
  ASSUME Inv, NEW c \in Cpus, CpuStep(c)
  PROVE  Inv'
<1>1. CASE VirtualizeFails(c)
  <2>1. failed' = failed \/ \E s \in CpuSteps : failed' = failed \cup {s}
    BY <1>1 DEF VirtualizeFails, Fail, CpuSteps
  <2> QED
    BY <1>1, <2>1, CrashStep DEF VirtualizeFails
<1> QED
  BY <1>1, AllocateStep, VirtualizeStep, VmcallStep, VmxoffStep, FreeStep DEF CpuStep

LEMMA NextStep == Inv /\ [Next]_vars => Inv'
<1> SUFFICES ASSUME Inv, [Next]_vars PROVE Inv'
  OBVIOUS
<1>1. CASE DriverStep
  BY <1>1, EntryStep, InitializerStep, NewEptStep, UndoStep, CallBegins, CallEnds,
     RunStep, ReleaseStep, AfterStep
  DEF DriverStep
<1>2. CASE NovaUnload
  BY <1>2, RunStep
<1>3. CASE KeSignalCallDpcSynchronize
  BY <1>3, BarrierStep
<1>4. CASE \E c \in Cpus : CpuStep(c) \/ HookPage(c)
  BY <1>4, CpuStepInv, HookStep
<1> QED
  BY <1>1, <1>2, <1>3, <1>4, StutterStep DEF Next

LEMMA InvHolds == Spec => []Inv
  BY InitInv, NextStep, PTL DEF Spec

\* Whatever step fails and however processors and the driver's thread interleave,
\* what a processor uses in VMX operation is allocated (Vmx.cpp:60-73, 149-158,
\* 225-248).
THEOREM InUseStaysLive == Spec => []InUseIsLive
<1>1. Inv => InUseIsLive
  <2> SUFFICES ASSUME Inv PROVE InUseIsLive
    OBVIOUS
  <2>1. ASSUME NEW c \in Cpus
        PROVE  /\ vmx[c] # "off" => enabled[c] /\ mem[c]["vmxon"] = "live"
               /\ vmx[c] \in {"guest", "root"} =>
                    /\ guestState = "live"
                    /\ \A s \in Structures : mem[c][s] = "live"
               /\ launched[c] <=> vmx[c] \in {"guest", "root"}
    <3>1. CASE pc = "allocate"
      BY <3>1
      DEF Inv, TypeOK, PhaseInv, AllocateInv, Off, Allocating, Live, Have, Regions
    <3>2. CASE pc = "launch"
      BY <3>2 DEF Inv, TypeOK, PhaseInv, LaunchInv, Launching, Live, Structures, Regions
    <3>3. CASE pc = "terminate"
      BY <3>3
      DEF Inv, TypeOK, PhaseInv, TerminateInv, Leaving, Virtual, Off, Live, Structures,
          Regions
    <3>4. CASE pc \in {"test", "running"}
      BY <3>4 DEF Inv, PhaseInv, RunInv, Virtual, Live, Structures, Regions
    <3>5. CASE pc \notin {"allocate", "launch", "terminate", "test", "running"}
      BY <3>5 DEF Inv, TypeOK, PhaseInv, LoadInv, ReleaseInv, AfterInv, Off, Early
    <3> QED
      BY <3>1, <3>2, <3>3, <3>4, <3>5
  <2>2. records # {} => pool = "live"
    BY DEF Inv, RecordsInv, SystemInv
  <2> QED
    BY <2>1, <2>2 DEF InUseIsLive
<1> QED
  BY <1>1, InvHolds, PTL

\* Only GuestState is ever freed a second time, and only after an Ept could not be
\* built (Vmx.cpp:156).
THEOREM OnlyGuestStateTwice == Spec => []FreedOnce
<1>1. Inv => FreedOnce
  BY DEF Inv, TypeOK, PhaseInv, LoadInv, AllocateInv, LaunchInv, RunInv, TerminateInv,
         ReleaseInv, AfterInv, Early, FreedOnce
<1> QED
  BY <1>1, InvHolds, PTL

\* When the image goes away, nothing of the driver is left but the threads of a pool
\* that a failed load did not delete (NovaHypervisor.cpp:46-84).
THEOREM NothingStays == Spec => []NothingLeft
<1>1. Inv => NothingLeft
  BY DEF Inv, PhaseInv, AfterInv, SystemInv, Off, Gone, NothingLeft
<1> QED
  BY <1>1, InvHolds, PTL
=============================================================================
