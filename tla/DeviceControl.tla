---------------------------- MODULE DeviceControl ----------------------------
(***************************************************************************)
(* Requests from NovaClient to the page hooks of every processor:          *)
(* DeviceControl.cpp, the workers of VmxHelper.cpp and the client itself.  *)
(*                                                                         *)
(* A request is checked in the client's thread and broadcast; a processor  *)
(* that has executed its part goes on with its guest while others still    *)
(* wait for theirs.  The guest's memory manager may meanwhile give another *)
(* frame to an address or none.  What a hook does on its processor is in   *)
(* Ept.tla, of which this module keeps the addresses, frames and           *)
(* permissions of the records.                                             *)
(*                                                                         *)
(* Operators named Bad... are mutants of the definition that follows.      *)
(***************************************************************************)
EXTENDS FiniteSets

CONSTANTS
    Clients,
    Cpus,
    KernelPages,  \* page-aligned addresses of the kernel
    UserPages,    \* and of user space
    Frames,
    Permissions,  \* what a user may ask for
    None          \* no frame, no record, nobody

Pages == KernelPages \cup UserPages

ASSUME DeviceAssumption ==
    /\ Permissions \subseteq SUBSET {"read", "write", "execute"}
    /\ None \notin Frames \cup Clients \cup [frame : Frames, perms : Permissions]
    /\ KernelPages \cap UserPages = {}

VARIABLES
    pc,      \* client -> where its request is
    ask,     \* client -> what it asks for
    status,  \* client -> Irp->IoStatus.Status
    caller,  \* the client whose broadcast runs, or None
    home,    \* the processor it runs on
    todo,    \* the processors it still has to run on
    mapped,  \* address -> its frame, or None
    guard,   \* processor -> address -> the record that protects it, or None
    denied,  \* history: addresses that a processor has not protected when asked to
    moved    \* history: addresses that got another frame while protected

clientVars == <<pc, ask, status>>
ipiVars == <<caller, home, todo>>
vars == <<clientVars, ipiVars, mapped, guard, denied, moved>>

Asks == [op : {"protect"}, va : Pages, perms : Permissions]
        \cup [op : {"unprotect"}, va : Pages]
Records == [frame : Frames, perms : Permissions]

TypeOK ==
    /\ pc \in [Clients -> {"idle", "driver", "waiting", "broadcast", "complete",
                       "answered"}]
    /\ ask \in [Clients -> Asks \cup {None}]
    /\ status \in [Clients -> {"success", "invalid", "unsuccessful"}]
    /\ caller \in Clients \cup {None}
    /\ home \in Cpus \cup {None}
    /\ todo \subseteq Cpus
    /\ mapped \in [KernelPages -> Frames \cup {None}]
    /\ guard \in [Cpus -> [KernelPages -> Records \cup {None}]]
    /\ denied \subseteq KernelPages
    /\ moved \subseteq KernelPages

Init ==
    /\ pc = [k \in Clients |-> "idle"]
    /\ ask = [k \in Clients |-> None]
    /\ status = [k \in Clients |-> "success"]
    /\ caller = None
    /\ home = None
    /\ todo = {}
    /\ mapped = [va \in KernelPages |-> None]
    /\ guard = [c \in Cpus |-> [va \in KernelPages |-> None]]
    /\ denied = {}
    /\ moved = {}

Protected(c) == {va \in KernelPages : guard[c][va] # None}
ProtectedSomewhere == UNION {Protected(c) : c \in Cpus}

-----------------------------------------------------------------------------
(* The client and its thread in the driver.                                *)

\* The program refuses "w" without "r" itself.
ClientAccepts(perms) == "write" \in perms => "read" \in perms

ProtectAddressRange(k) ==
    /\ pc[k] = "idle"
    /\ \E a \in Asks :
         /\ a.op = "protect" => ClientAccepts(a.perms)
         /\ ask' = [ask EXCEPT ![k] = a]
    /\ pc' = [pc EXCEPT ![k] = "driver"]
    /\ UNCHANGED <<status, ipiVars, mapped, guard, denied, moved>>

\* VALID_KERNELMODE_MEMORY, then, to protect, permissions and a resident page.
Acceptable(a) ==
    /\ a.va \in KernelPages
    /\ a.op = "protect" =>
         /\ a.perms # {}
         /\ "write" \in a.perms => "read" \in a.perms
         /\ mapped[a.va] # None

BadNotCompleted(k) ==
    /\ pc[k] = "driver"
    /\ pc' = [pc EXCEPT ![k] = IF Acceptable(ask[k]) THEN "waiting" ELSE "lost"]
    /\ UNCHANGED <<ask, status, ipiVars, mapped, guard, denied, moved>>

NovaDeviceControl(k) ==
    /\ pc[k] = "driver"
    /\ IF Acceptable(ask[k])
       THEN pc' = [pc EXCEPT ![k] = "waiting"] /\ UNCHANGED status
       ELSE /\ pc' = [pc EXCEPT ![k] = "complete"]
            /\ status' = [status EXCEPT ![k] = "invalid"]
    /\ UNCHANGED <<ask, ipiVars, mapped, guard, denied, moved>>

\* One broadcast at a time.  It stops every processor before any of them executes
\* its part.
KeIpiGenericCall(k) ==
    /\ pc[k] = "waiting"
    /\ caller = None
    /\ caller' = k
    /\ home' \in Cpus
    /\ todo' = Cpus
    /\ pc' = [pc EXCEPT ![k] = "broadcast"]
    /\ UNCHANGED <<ask, status, mapped, guard, denied, moved>>

\* KeIpiGenericCall returns what the worker returned on the caller's processor.
EndOfCall(k) ==
    /\ pc[k] = "broadcast"
    /\ todo = {}
    /\ caller' = None
    /\ home' = None
    /\ pc' = [pc EXCEPT ![k] = "complete"]
    /\ UNCHANGED <<ask, status, todo, mapped, guard, denied, moved>>

IoCompleteRequest(k) ==
    /\ pc[k] = "complete"
    /\ pc' = [pc EXCEPT ![k] = "answered"]
    /\ UNCHANGED <<ask, status, ipiVars, mapped, guard, denied, moved>>

\* The program prints the result and ends; another may follow.
Exit(k) ==
    /\ pc[k] = "answered"
    /\ pc' = [pc EXCEPT ![k] = "idle"]
    /\ ask' = [ask EXCEPT ![k] = None]
    /\ status' = [status EXCEPT ![k] = "success"]
    /\ UNCHANGED <<ipiVars, mapped, guard, denied, moved>>

-----------------------------------------------------------------------------
(* The broadcast on processor c: a vmcall.                                 *)

\* Its result, on the caller's processor.
Result(c, s) ==
    status' = IF c = home THEN [status EXCEPT ![caller] = s] ELSE status

IsHookExists(c, va) == va \in Protected(c)

\* The address is translated here; a hook that exists is left as it is; a processor
\* may lack the memory for one.
HookPageByVmcall(c) ==
    /\ c \in todo
    /\ ask[caller].op = "protect"
    /\ LET a == ask[caller]
       IN  \/ /\ IsHookExists(c, a.va)
              /\ Result(c, "success")
              /\ UNCHANGED <<guard, denied>>
           \/ /\ ~IsHookExists(c, a.va)
              /\ mapped[a.va] # None
              /\ guard' = [guard EXCEPT ![c][a.va] =
                              [frame |-> mapped[a.va], perms |-> a.perms]]
              /\ Result(c, "success")
              /\ UNCHANGED denied
           \/ /\ ~IsHookExists(c, a.va)
              /\ denied' = denied \cup {a.va}
              /\ Result(c, "unsuccessful")
              /\ UNCHANGED guard
    /\ todo' = todo \ {c}
    /\ UNCHANGED <<pc, ask, caller, home, mapped, moved>>

BadMappedOnly(c) ==
    /\ c \in todo
    /\ ask[caller].op = "unprotect"
    /\ LET va == ask[caller].va
       IN  /\ guard' = IF mapped[va] = None THEN guard
                       ELSE [guard EXCEPT ![c][va] = None]
           /\ Result(c, IF IsHookExists(c, va) THEN "success" ELSE "unsuccessful")
           /\ todo' = todo \ {c}
           /\ denied' = IF todo' = {} THEN denied \ {va} ELSE denied
           /\ moved' = IF todo' = {} THEN moved \ {va} ELSE moved
    /\ UNCHANGED <<pc, ask, caller, home, mapped>>

BadOneProcessor(c) ==
    /\ c \in todo
    /\ ask[caller].op = "unprotect"
    /\ guard' = IF c = home
                THEN [guard EXCEPT ![c][ask[caller].va] = None] ELSE guard
    /\ Result(c, "success")
    /\ todo' = todo \ {c}
    /\ denied' = IF todo' = {} THEN denied \ {ask[caller].va} ELSE denied
    /\ moved' = IF todo' = {} THEN moved \ {ask[caller].va} ELSE moved
    /\ UNCHANGED <<pc, ask, caller, home, mapped>>

UnhookPageByVmcall(c) ==
    /\ c \in todo
    /\ ask[caller].op = "unprotect"
    /\ LET va == ask[caller].va
       IN  /\ guard' = [guard EXCEPT ![c][va] = None]
           /\ Result(c, IF IsHookExists(c, va) THEN "success" ELSE "unsuccessful")
           /\ todo' = todo \ {c}
           /\ denied' = IF todo' = {} THEN denied \ {va} ELSE denied
           /\ moved' = IF todo' = {} THEN moved \ {va} ELSE moved
    /\ UNCHANGED <<pc, ask, caller, home, mapped>>

-----------------------------------------------------------------------------
(* The guest's memory manager, on a processor that is not stopped.         *)

Remap(va) ==
    /\ todo # Cpus
    /\ \E f \in Frames \cup {None} :
         /\ f # mapped[va]
         /\ f # None => \A p \in KernelPages : mapped[p] # f
         /\ mapped' = [mapped EXCEPT ![va] = f]
    /\ moved' = IF va \in ProtectedSomewhere THEN moved \cup {va} ELSE moved
    /\ UNCHANGED <<clientVars, ipiVars, guard, denied>>

-----------------------------------------------------------------------------

Thread(k) ==
    \/ NovaDeviceControl(k) \/ KeIpiGenericCall(k) \/ EndOfCall(k)
    \/ IoCompleteRequest(k) \/ Exit(k)

Worker(c) == HookPageByVmcall(c) \/ UnhookPageByVmcall(c)

Next ==
    \/ \E k \in Clients : ProtectAddressRange(k) \/ Thread(k)
    \/ \E c \in Cpus : Worker(c)
    \/ \E va \in KernelPages : Remap(va)

\* Threads and vmcalls go on; whoever waits for a broadcast gets its turn.
Fairness ==
    /\ \A k \in Clients : SF_vars(Thread(k))
    /\ \A c \in Cpus : WF_vars(Worker(c))

Spec == Init /\ [][Next]_vars /\ Fairness

-----------------------------------------------------------------------------
(* Properties.                                                             *)

\* Between broadcasts, all processors protect the same addresses with the same
\* permissions, although each was told by itself, could fail by itself and went on
\* before the others; and what a record protects is the frame its address has, from
\* the check of the request through every processor's translation until the
\* protection is lifted.  Only an address that some processor has not protected, or
\* that got another frame meanwhile, may differ: no hook follows a page
\* (DeviceControl.cpp:34-69, VmxHelper.cpp:404-427, Ept.cpp:646-652).
Uniform ==
    /\ caller = None =>
        \A c, d \in Cpus, va \in KernelPages \ denied :
            /\ va \in Protected(c) <=> va \in Protected(d)
            /\ va \in Protected(c) => guard[c][va].perms = guard[d][va].perms
    /\ \A c \in Cpus : \A va \in Protected(c) \ moved :
        guard[c][va].frame = mapped[va]

\* What the status of a finished broadcast stands for.  Success of protecting: the
\* caller's processor protects the address, and every other one too that was able
\* to.  Unprotecting, whatever its status: nobody protects it (DeviceControl.cpp:39-69).
Outcome ==
    caller # None /\ todo = {} =>
        LET a == ask[caller]
        IN  IF a.op = "unprotect" THEN a.va \notin ProtectedSomewhere
            ELSE status[caller] = "success" =>
                   \A c \in Cpus :
                       c = home \/ a.va \notin denied => a.va \in Protected(c)

\* Every request is answered (DeviceControl.cpp:15-80).  The fairness of the processors
\* takes for granted that a vmcall ends: where Locks!Inverted holds it does not.
RequestsEnd == \A k \in Clients : pc[k] = "driver" ~> pc[k] = "idle"
=============================================================================
