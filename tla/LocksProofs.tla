----------------------------- MODULE LocksProofs -----------------------------
(***************************************************************************)
(* Mutual exclusion of both locks, for any processors and any number of    *)
(* tries: the invariant of Locks.tla, whole lines, and that each lock      *)
(* implements Mutex.tla.                                                   *)
(***************************************************************************)
EXTENDS Locks, TLAPS

Inv == LocksInv /\ LinesWhole

Steps == {"idle", "spin", "check", "inside", "log", "release"} \cup Pieces

LEMMA InitInv == Init => Inv
  BY LocksAssumption
  DEF Init, Inv, LocksInv, TypeOK, HolderTells, WriterTells, LinesWhole, Writing,
      NoLine, Pieces

(* What a step of context x leaves alone: everybody else, and its own side  *)
(* of the other lock.                                                       *)

\* Spinlock.
LEMMA SpinStep ==
  ASSUME Inv, NEW x \in Contexts, UNCHANGED cpuVars,
         Exchange(x) \/ Check(x) \/ Unlock(x)
  PROVE  Inv'
<1> USE DEF Inv, LocksInv, Pieces
<1>1. TypeOK'
  <2>1. lock' \in {0, 1} /\ holds' \in [Contexts -> BOOLEAN]
    BY DEF TypeOK, Exchange, Check, Unlock
  <2>2. tries' \in [Contexts -> 0 .. Retries]
    BY LocksAssumption DEF TypeOK, Exchange, Check, Unlock, logVars
  <2>3. pc' \in [Contexts -> Steps]
    BY DEF TypeOK, Exchange, Check, Unlock, Goto, Steps
  <2> QED
    BY <2>1, <2>2, <2>3
    DEF TypeOK, Exchange, Check, Unlock, cpuVars, logVars, Steps
<1>2. HolderTells'
  BY DEF TypeOK, HolderTells, Exchange, Check, Unlock, Goto
<1>3. \A y \in Contexts : pc'[y] \in Pieces \cup {"release"} => pc'[y] = pc[y]
  BY DEF TypeOK, Exchange, Check, Unlock, Goto
<1>4. /\ UNCHANGED <<writeLock, line>>
      /\ \A y \in Contexts : pc[y] \in Pieces => pc'[y] = pc[y]
  BY DEF TypeOK, Exchange, Check, Unlock, Goto, logVars
<1>5. WriterTells' /\ LinesWhole'
  BY <1>3, <1>4 DEF WriterTells, LinesWhole, Writing, NoLine, After
<1> QED
  BY <1>1, <1>2, <1>5

\* ComLogger.
LEMMA LogStep ==
  ASSUME Inv, NEW x \in Contexts, UNCHANGED cpuVars,
         TryAcquireWriteLock(x) \/ WriteString(x) \/ ReleaseWriteLock(x)
  PROVE  Inv'
<1> USE DEF Inv, LocksInv, Pieces
<1>1. TypeOK'
  BY LocksAssumption
  DEF TypeOK, TryAcquireWriteLock, WriteString, ReleaseWriteLock, Return, Goto,
      cpuVars, lockVars, After, NoLine
<1>2. /\ UNCHANGED <<lock, holds>>
      /\ \A y \in Contexts : pc'[y] # pc[y] => y = x
      /\ pc'[x] \notin {"check", "spin"}
      /\ pc'[x] \in {"inside"} => holds[x]
      /\ pc'[x] = "idle" => ~holds[x]
  BY DEF TypeOK, TryAcquireWriteLock, WriteString, ReleaseWriteLock, Return, Goto,
         lockVars, After
<1>3. HolderTells'
  BY <1>2 DEF HolderTells
<1>4. CASE TryAcquireWriteLock(x)
  <2>1. UNCHANGED line
    BY <1>4 DEF TryAcquireWriteLock
  <2>2. CASE writeLock = 0 /\ tries[x] # 0
    <3>1. /\ pc[x] = "log" /\ writeLock' = 1
          /\ pc' = [pc EXCEPT ![x] = "prefix"]
      BY <1>4, <2>2 DEF TryAcquireWriteLock, Goto
    <3>2. \A y \in Contexts \ {x} : pc'[y] = pc[y] /\ ~Writing(y)
      BY <2>2, <3>1 DEF TypeOK, WriterTells
    <3>3. line = NoLine
      BY <3>1, <3>2 DEF WriterTells, Writing
    <3>4. WriterTells' /\ LinesWhole'
      BY <2>1, <3>1, <3>2, <3>3
      DEF TypeOK, WriterTells, LinesWhole, Writing, NoLine
    <3> QED
      BY <1>1, <1>3, <3>4
  <2>3. CASE ~(writeLock = 0 /\ tries[x] # 0)
    <3>1. /\ UNCHANGED writeLock
          /\ \A y \in Contexts : pc'[y] \in Pieces \cup {"release"} => pc'[y] = pc[y]
          /\ \A y \in Contexts : pc[y] \in Pieces => pc'[y] = pc[y]
      BY <1>4, <2>3 DEF TypeOK, TryAcquireWriteLock, Return, Goto
    <3> QED
      BY <2>1, <3>1, <1>1, <1>3 DEF WriterTells, LinesWhole, Writing, NoLine, After
  <2> QED
    BY <2>2, <2>3, <1>1, <1>3
<1>5. CASE WriteString(x)
  <2>1. /\ pc[x] \in Pieces
        /\ pc' = [pc EXCEPT ![x] = IF pc[x] = "newline" THEN "release"
                                   ELSE After[pc[x]]]
        /\ line' = IF pc[x] = "newline" THEN NoLine
                   ELSE [by |-> x, piece |-> pc[x]]
        /\ UNCHANGED writeLock
    BY <1>5 DEF WriteString, Goto
  <2>2. \A y \in Contexts \ {x} : pc'[y] = pc[y] /\ ~Writing(y)
    BY <2>1 DEF TypeOK, WriterTells, Writing
  <2>3. WriterTells'
    BY <2>1, <2>2 DEF TypeOK, WriterTells, Writing, After, NoLine
  <2>4. LinesWhole'
    BY <2>1, <2>2 DEF TypeOK, LinesWhole, Writing, After, NoLine
  <2> QED
    BY <1>1, <1>3, <2>3, <2>4
<1>6. CASE ReleaseWriteLock(x)
  <2>1. /\ pc[x] = "release"
        /\ pc'[x] \in {"inside", "idle"}
        /\ \A y \in Contexts \ {x} : pc'[y] = pc[y] /\ ~Writing(y)
        /\ UNCHANGED line
    BY <1>6 DEF TypeOK, ReleaseWriteLock, Return, Goto, WriterTells, Writing
  <2>2. WriterTells' /\ LinesWhole'
    BY <2>1 DEF WriterTells, LinesWhole, Writing, After, NoLine
  <2> QED
    BY <1>1, <1>3, <2>2
<1> QED
  BY <1>4, <1>5, <1>6

\* A context begins an operation, in the guest or in an exit.
LEMMA BeginStep ==
  ASSUME Inv, NEW x \in Contexts, BeginLog(x) \/ BeginLock(x),
         root' \subseteq Cpus, UNCHANGED <<call, held>>
  PROVE  Inv'
<1> USE DEF Inv, LocksInv, Pieces
<1>1. TypeOK'
  BY LocksAssumption
  DEF TypeOK, BeginLog, BeginLock, Goto, lockVars, logVars
<1>2. /\ UNCHANGED <<lock, holds, writeLock, line>>
      /\ \A y \in Contexts : pc'[y] # pc[y] => y = x
      /\ pc[x] = "idle" /\ pc'[x] \in {"log", "spin"}
  BY DEF TypeOK, BeginLog, BeginLock, Goto, lockVars, logVars
<1>3. HolderTells'
  BY <1>2 DEF HolderTells
<1>4. WriterTells' /\ LinesWhole'
  BY <1>2 DEF WriterTells, LinesWhole, Writing, NoLine, After
<1> QED
  BY <1>1, <1>3, <1>4

\* The rest moves processors and leaves the locks alone.
LEMMA CpuStep ==
  ASSUME Inv, UNCHANGED <<lockVars, logVars, pc>>,
         root' \subseteq Cpus, held' \subseteq Cpus,
         call' \in {"none", "gather", "work"}
  PROVE  Inv'
  BY DEF Inv, LocksInv, TypeOK, HolderTells, WriterTells, LinesWhole, Writing,
         lockVars, logVars

LEMMA InvStep == Inv /\ [Next]_vars => Inv'
<1> SUFFICES ASSUME Inv, [Next]_vars
             PROVE  Inv'
  OBVIOUS
<1>0. TypeOK
  BY DEF Inv, LocksInv
<1>1. ASSUME NEW x \in Contexts, Step(x)
      PROVE  Inv'
  BY <1>1, SpinStep, LogStep DEF Step
<1>2. ASSUME NEW c \in Cpus, GuestBegins(c)
      PROVE  Inv'
  <2>1. Guest(c) \in Contexts
    BY DEF Guest, Contexts
  <2>2. root' \subseteq Cpus /\ UNCHANGED <<call, held>>
    BY <1>0, <1>2 DEF GuestBegins, cpuVars, TypeOK
  <2> QED
    BY <1>2, <2>1, <2>2, BeginStep DEF GuestBegins
<1>3. ASSUME NEW c \in Cpus, VmExit(c) \/ Vmcall(c)
      PROVE  Inv'
  <2>1. Root(c) \in Contexts
    BY DEF Root, Contexts
  <2>2. root' \subseteq Cpus /\ UNCHANGED <<call, held>>
    BY <1>0, <1>3 DEF VmExit, Vmcall, TypeOK
  <2>3. BeginLog(Root(c)) \/ BeginLock(Root(c))
    BY <1>3 DEF VmExit, Vmcall
  <2> QED
    BY <2>1, <2>2, <2>3, BeginStep
<1>4. ASSUME NEW c \in Cpus, VmResume(c) \/ KeIpiGenericCall(c) \/ Arrive(c)
      PROVE  Inv'
  <2>1. /\ UNCHANGED <<lockVars, logVars, pc>>
        /\ root' \subseteq Cpus /\ held' \subseteq Cpus
        /\ call' \in {"none", "gather", "work"}
    BY <1>0, <1>4 DEF VmResume, KeIpiGenericCall, Arrive, TypeOK
  <2> QED
    BY <2>1, CpuStep
<1>5. CASE UNCHANGED vars
  BY <1>0, <1>5, CpuStep DEF vars, cpuVars, TypeOK
<1> QED
  BY <1>1, <1>2, <1>3, <1>4, <1>5 DEF Next

\* At any time at most one context holds the spin lock and at most one writes to the
\* port, and the lock words say so (Spinlock.cpp:12-28, ComLogger.cpp:76-90).
THEOREM LocksInvHolds == Spec => []LocksInv
<1>1. Inv => LocksInv
  BY DEF Inv
<1> QED
  BY InitInv, InvStep, <1>1, PTL DEF Spec

\* Lines on the serial port are never mixed (ComLogger.cpp:26-38).
THEOREM LinesStayWhole == Spec => []LinesWhole
<1>1. Inv => LinesWhole
  BY DEF Inv
<1> QED
  BY InitInv, InvStep, <1>1, PTL DEF Spec

-----------------------------------------------------------------------------
(* Refinement.                                                             *)

LEMMA SpinRefines ==
  ASSUME Inv, NEW x \in Contexts, Step(x)
  PROVE  [SpinLock!Next]_Holders
<1> USE DEF Inv, LocksInv, TypeOK, Pieces
<1>1. CASE Exchange(x)
  <2>1. Holders = {} /\ Holders' = {x}
    BY <1>1 DEF Exchange, HolderTells, Holders
  <2> QED
    BY <2>1 DEF SpinLock!Next, SpinLock!Acquire
<1>2. CASE Unlock(x)
  <2>1. Holders = {x} /\ Holders' = {}
    BY <1>2 DEF Unlock, HolderTells, Holders
  <2> QED
    BY <2>1 DEF SpinLock!Next, SpinLock!Release
<1>3. CASE Check(x) \/ TryAcquireWriteLock(x) \/ WriteString(x) \/ ReleaseWriteLock(x)
  <2>1. UNCHANGED holds
    BY <1>3 DEF Check, TryAcquireWriteLock, WriteString, ReleaseWriteLock, lockVars,
                HolderTells
  <2> QED
    BY <2>1 DEF Holders
<1> QED
  BY <1>1, <1>2, <1>3 DEF Step

LEMMA LogRefines ==
  ASSUME Inv, NEW x \in Contexts, Step(x)
  PROVE  [LogLock!Next]_Writers
<1> USE DEF Inv, LocksInv, TypeOK, Pieces
<1>1. CASE TryAcquireWriteLock(x) /\ writeLock = 0 /\ tries[x] # 0
  <2>1. pc[x] = "log" /\ pc' = [pc EXCEPT ![x] = "prefix"]
    BY <1>1 DEF TryAcquireWriteLock, Goto
  <2>2. Writers = {} /\ Writers' = {x}
    BY <1>1, <2>1 DEF WriterTells, Writers, Writing
  <2> QED
    BY <2>2 DEF LogLock!Next, LogLock!Acquire
<1>2. CASE ReleaseWriteLock(x)
  <2>1. pc[x] = "release" /\ pc'[x] \in {"inside", "idle"}
        /\ \A y \in Contexts \ {x} : pc'[y] = pc[y]
    BY <1>2 DEF ReleaseWriteLock, Return, Goto
  <2>2. Writers = {x} /\ Writers' = {}
    BY <2>1 DEF WriterTells, Writers, Writing
  <2> QED
    BY <2>2 DEF LogLock!Next, LogLock!Release
<1>3. CASE \/ Exchange(x) \/ Check(x) \/ Unlock(x) \/ WriteString(x)
           \/ TryAcquireWriteLock(x) /\ ~(writeLock = 0 /\ tries[x] # 0)
  <2>1. \A y \in Contexts : Writing(y)' <=> Writing(y)
    BY <1>3 DEF Exchange, Check, Unlock, WriteString, TryAcquireWriteLock, Return,
                Goto, Writing, After
  <2> QED
    BY <2>1 DEF Writers
<1> QED
  BY <1>1, <1>2, <1>3 DEF Step

LEMMA OtherRefines ==
  ASSUME Inv, [Next]_vars, ~ \E x \in Contexts : Step(x)
  PROVE  UNCHANGED Holders /\ UNCHANGED Writers
<1> USE DEF Inv, LocksInv, TypeOK, Pieces
<1>1. ASSUME NEW x \in Contexts, BeginLog(x) \/ BeginLock(x)
      PROVE  UNCHANGED Holders /\ UNCHANGED Writers
  <2>1. UNCHANGED holds /\ \A y \in Contexts : Writing(y)' <=> Writing(y)
    BY <1>1 DEF BeginLog, BeginLock, Goto, Writing, lockVars
  <2> QED
    BY <2>1 DEF Holders, Writers
<1>2. ASSUME UNCHANGED <<lockVars, logVars, pc>>
      PROVE  UNCHANGED Holders /\ UNCHANGED Writers
  BY <1>2 DEF Holders, Writers, Writing, lockVars
<1>3. ASSUME NEW c \in Cpus, GuestBegins(c) \/ VmExit(c) \/ Vmcall(c)
      PROVE  \E x \in Contexts : BeginLog(x) \/ BeginLock(x)
  BY <1>3 DEF GuestBegins, VmExit, Vmcall, Guest, Root, Contexts
<1> QED
  BY <1>1, <1>2, <1>3 DEF Next, VmResume, KeIpiGenericCall, Arrive, vars

\* Each lock implements a lock: who enters finds nobody inside (Spinlock.cpp:12-28,
\* ComLogger.cpp:76-90).
THEOREM LocksAreMutexes == Spec => ImplementsMutex
<1>1. Init => SpinLock!Init /\ LogLock!Init
  BY DEF Init, SpinLock!Init, LogLock!Init, Holders, Writers, Writing, Pieces
<1>2. Inv /\ [Next]_vars => [SpinLock!Next]_Holders /\ [LogLock!Next]_Writers
  BY SpinRefines, LogRefines, OtherRefines
<1> QED
  BY InitInv, InvStep, <1>1, <1>2, PTL
  DEF Spec, ImplementsMutex, SpinLock!Spec, LogLock!Spec
=============================================================================
