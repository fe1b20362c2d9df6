-------------------------------- MODULE Locks --------------------------------
(***************************************************************************)
(* One Spinlock (Spinlock.cpp, taken through AutoLock) and the log lock of *)
(* ComLogger, between what runs in the guest and in the VM exits of every  *)
(* processor.                                                              *)
(*                                                                         *)
(* An exit stops the guest of its processor until it resumes.  A broadcast *)
(* (KeIpiGenericCall) stops the guest of every processor; when all have    *)
(* stopped, each executes a vmcall and goes on.                            *)
(*                                                                         *)
(* An operation takes the spin lock and may log while it holds it, or only *)
(* logs.  One thread stands for the guest of a processor.                  *)
(*                                                                         *)
(* Operators named Bad... are mutants of the definition that follows.      *)
(***************************************************************************)
EXTENDS Naturals

CONSTANTS
    Cpus,
    Retries,  \* WriteLockRetries
    Nobody

ASSUME LocksAssumption ==
    /\ Retries \in Nat \ {0}
    /\ Nobody \notin Cpus \X {"guest", "root"}

Contexts == Cpus \X {"guest", "root"}
Guest(c) == <<c, "guest">>
Root(c)  == <<c, "root">>

VARIABLES
    lock,       \* the lock word of the Spinlock
    writeLock,  \* the lock word of the logger
    pc,         \* context -> where it is
    holds,      \* context -> the spin lock is its own
    tries,      \* context -> tries left for the log lock
    root,       \* processors in a VM exit
    call,       \* the broadcast: none, gathering, at work
    held,       \* processors whose guest it has stopped
    line        \* the last piece of an unfinished line at the port, and from whom

lockVars == <<lock, holds>>
logVars  == <<writeLock, tries, line>>
cpuVars  == <<root, call, held>>
vars == <<lockVars, logVars, pc, cpuVars>>

Pieces == {"prefix", "message", "newline"}
NoLine == [by |-> Nobody, piece |-> "newline"]
After == [prefix |-> "message", message |-> "newline"]

TypeOK ==
    /\ lock \in {0, 1}
    /\ writeLock \in {0, 1}
    /\ pc \in [Contexts -> {"idle", "spin", "check", "inside", "log", "release"}
                           \cup Pieces]
    /\ holds \in [Contexts -> BOOLEAN]
    /\ tries \in [Contexts -> 0 .. Retries]
    /\ root \subseteq Cpus
    /\ call \in {"none", "gather", "work"}
    /\ held \subseteq Cpus
    /\ line \in [by : Contexts \cup {Nobody}, piece : Pieces]

Init ==
    /\ lock = 0
    /\ writeLock = 0
    /\ pc = [x \in Contexts |-> "idle"]
    /\ holds = [x \in Contexts |-> FALSE]
    /\ tries = [x \in Contexts |-> 0]
    /\ root = {}
    /\ call = "none"
    /\ held = {}
    /\ line = NoLine

Running(x) ==
    IF x[2] = "root" THEN x[1] \in root ELSE x[1] \notin root \cup held

Goto(x, step) == pc' = [pc EXCEPT ![x] = step]

-----------------------------------------------------------------------------
(* Spinlock.                                                               *)

BadExchange(x) ==
    /\ pc[x] = "spin"
    /\ lock' = 1
    /\ holds' = [holds EXCEPT ![x] = TRUE]
    /\ Goto(x, "check")
    /\ UNCHANGED logVars

\* InterlockedExchange16, when it returns 0; otherwise Lock waits and tries again.
Exchange(x) ==
    /\ pc[x] = "spin"
    /\ lock = 0
    /\ lock' = 1
    /\ holds' = [holds EXCEPT ![x] = TRUE]
    /\ Goto(x, "check")
    /\ UNCHANGED logVars

\* The second read of DoLock: a lock that is free again would be taken again.
\* Inside, an operation may log.
Check(x) ==
    /\ pc[x] = "check"
    /\ \/ /\ lock # 0
          /\ \/ Goto(x, "inside") /\ UNCHANGED tries
             \/ Goto(x, "log") /\ tries' = [tries EXCEPT ![x] = Retries]
          /\ UNCHANGED holds
       \/ /\ lock = 0
          /\ Goto(x, "spin")
          /\ holds' = [holds EXCEPT ![x] = FALSE]
          /\ UNCHANGED tries
    /\ UNCHANGED <<lock, writeLock, line>>

BadUnlock(x) ==
    /\ pc[x] = "inside"
    /\ holds' = [holds EXCEPT ![x] = FALSE]
    /\ Goto(x, "idle")
    /\ UNCHANGED <<lock, logVars>>

Unlock(x) ==
    /\ pc[x] = "inside"
    /\ lock' = 0
    /\ holds' = [holds EXCEPT ![x] = FALSE]
    /\ Goto(x, "idle")
    /\ UNCHANGED logVars

-----------------------------------------------------------------------------
(* ComLogger.                                                              *)

Return(x) == Goto(x, IF holds[x] THEN "inside" ELSE "idle")

BadWaitsForLock(x) ==
    /\ pc[x] = "log"
    /\ writeLock = 0
    /\ writeLock' = 1
    /\ Goto(x, "prefix")
    /\ UNCHANGED <<lockVars, tries, line>>

BadWritesAnyway(x) ==
    /\ pc[x] = "log"
    /\ writeLock' = 1
    /\ Goto(x, "prefix")
    /\ UNCHANGED <<lockVars, tries, line>>

\* One try of TryAcquireWriteLock; without the lock the message is dropped.
TryAcquireWriteLock(x) ==
    /\ pc[x] = "log"
    /\ IF tries[x] = 0
       THEN Return(x) /\ UNCHANGED <<writeLock, tries>>
       ELSE IF writeLock = 0
       THEN /\ writeLock' = 1
            /\ tries' = [tries EXCEPT ![x] = 0]
            /\ Goto(x, "prefix")
       ELSE /\ tries' = [tries EXCEPT ![x] = @ - 1]
            /\ UNCHANGED <<writeLock, pc>>
    /\ UNCHANGED <<lockVars, line>>

BadOtherOrder(x) ==
    /\ pc[x] \in Pieces
    /\ line' = IF pc[x] = "newline" THEN NoLine ELSE [by |-> x, piece |-> pc[x]]
    /\ Goto(x, IF pc[x] = "message" THEN "release" ELSE "message")
    /\ UNCHANGED <<lockVars, writeLock, tries>>

\* WriteString; a port that is not ready in time loses characters of the piece.
WriteString(x) ==
    /\ pc[x] \in Pieces
    /\ line' = IF pc[x] = "newline" THEN NoLine ELSE [by |-> x, piece |-> pc[x]]
    /\ Goto(x, IF pc[x] = "newline" THEN "release" ELSE After[pc[x]])
    /\ UNCHANGED <<lockVars, writeLock, tries>>

ReleaseWriteLock(x) ==
    /\ pc[x] = "release"
    /\ writeLock' = 0
    /\ Return(x)
    /\ UNCHANGED <<lockVars, tries, line>>

\* A step of the operation in progress.
Step(x) ==
    /\ Running(x)
    /\ \/ Exchange(x) \/ Check(x) \/ Unlock(x)
       \/ TryAcquireWriteLock(x) \/ WriteString(x) \/ ReleaseWriteLock(x)
    /\ UNCHANGED cpuVars

-----------------------------------------------------------------------------
(* Processors.                                                             *)

\* VWrite, on its own.
BeginLog(x) ==
    /\ pc[x] = "idle"
    /\ tries' = [tries EXCEPT ![x] = Retries]
    /\ Goto(x, "log")
    /\ UNCHANGED <<lockVars, writeLock, line>>

BeginLock(x) ==
    /\ pc[x] = "idle"
    /\ Goto(x, "spin")
    /\ UNCHANGED <<lockVars, logVars>>

GuestBegins(c) ==
    /\ Running(Guest(c))
    /\ BeginLog(Guest(c)) \/ BeginLock(Guest(c))
    /\ UNCHANGED cpuVars

\* At any instruction of the guest; such an exit only logs.
VmExit(c) ==
    /\ c \notin root \cup held
    /\ root' = root \cup {c}
    /\ BeginLog(Root(c))
    /\ UNCHANGED <<call, held>>

\* The vmcall of the broadcast needs the pool.
Vmcall(c) ==
    /\ call = "work"
    /\ c \in held \ root
    /\ root' = root \cup {c}
    /\ BeginLog(Root(c)) \/ BeginLock(Root(c))
    /\ UNCHANGED <<call, held>>

VmResume(c) ==
    /\ c \in root
    /\ pc[Root(c)] = "idle"
    /\ root' = root \ {c}
    /\ IF call = "work"
       THEN /\ held' = held \ {c}
            /\ call' = IF held' = {} THEN "none" ELSE "work"
       ELSE UNCHANGED <<call, held>>
    /\ UNCHANGED <<lockVars, logVars, pc>>

\* From a thread that is not in an operation.
KeIpiGenericCall(c) ==
    /\ call = "none"
    /\ Running(Guest(c))
    /\ pc[Guest(c)] = "idle"
    /\ call' = "gather"
    /\ UNCHANGED <<lockVars, logVars, pc, root, held>>

Arrive(c) ==
    /\ call = "gather"
    /\ c \notin root \cup held
    /\ held' = held \cup {c}
    /\ call' = IF held' = Cpus THEN "work" ELSE "gather"
    /\ UNCHANGED <<lockVars, logVars, pc, root>>

-----------------------------------------------------------------------------

Next ==
    \/ \E x \in Contexts : Step(x)
    \/ \E c \in Cpus : GuestBegins(c) \/ VmExit(c) \/ Vmcall(c)
                       \/ VmResume(c) \/ KeIpiGenericCall(c) \/ Arrive(c)

\* A processor executes, in root mode and in the broadcast; between exits the guest
\* gets on, and an interrupt gets through.  A spinner that finds the lock free again
\* and again gets it at last.
Fairness ==
    \A c \in Cpus :
        /\ SF_vars(Step(Root(c)))
        /\ WF_vars(VmResume(c))
        /\ WF_vars(Vmcall(c))
        /\ SF_vars(Step(Guest(c)))
        /\ SF_vars(Arrive(c))

Spec == Init /\ [][Next]_vars /\ Fairness

-----------------------------------------------------------------------------
(* Properties.                                                             *)

Writing(x) == pc[x] \in Pieces \cup {"release"}

Holders == {x \in Contexts : holds[x]}
Writers == {x \in Contexts : Writing(x)}

SpinLock == INSTANCE Mutex WITH holders <- Holders
LogLock  == INSTANCE Mutex WITH holders <- Writers

\* Both locks let one context in at a time, whether it runs in the guest or in an
\* exit, and whatever exits and broadcasts come between its steps
\* (Spinlock.cpp:12-28, ComLogger.cpp:76-90).
ImplementsMutex == SpinLock!Spec /\ LogLock!Spec

\* The lines on the serial port are whole: who is about to write a piece of a line
\* has written the piece before, and nobody has written since (ComLogger.cpp:26-38).
LinesWhole ==
    \A x \in Contexts : pc[x] \in Pieces =>
        IF pc[x] = "prefix" THEN line = NoLine
        ELSE line.by = x /\ pc[x] = After[line.piece]

HolderTells ==
    /\ \A x \in Contexts :
         /\ pc[x] \in {"check", "inside"} => holds[x]
         /\ pc[x] \in {"idle", "spin"} => ~holds[x]
         /\ holds[x] => lock = 1
    /\ \A x, y \in Contexts : holds[x] /\ holds[y] => x = y

WriterTells ==
    /\ \A x \in Contexts : Writing(x) => writeLock = 1
    /\ \A x, y \in Contexts : Writing(x) /\ Writing(y) => x = y
    /\ (\A x \in Contexts : pc[x] \notin {"message", "newline"}) => line = NoLine

\* The lock words say that somebody is inside whenever somebody is, and then only
\* one context is; between lines nobody is inside one.  With LinesWhole this is
\* inductive.
LocksInv == TypeOK /\ HolderTells /\ WriterTells

Logging(x) == Writing(x) \/ pc[x] = "log"

\* In an exit, logging ends: a writer that the exit has stopped, on this processor
\* or on another, costs the message and not the machine (ComLogger.cpp:30-31, 76-86).
LogEnds == \A c \in Cpus : Logging(Root(c)) ~> ~Logging(Root(c))

\* A vmcall waits for the lock of the thread that the broadcast has stopped on its
\* own processor: Spinlock has no bound on the wait.
Inverted == \E c \in Cpus : pc[Root(c)] = "spin" /\ holds[Guest(c)]

\* A broadcast ends unless a vmcall of it waits for the thread that its processor was
\* stopped in (Spinlock.cpp:16-24, PoolManager.cpp:171).
BroadcastEnds == call = "gather" ~> (call = "none" \/ Inverted)
=============================================================================
