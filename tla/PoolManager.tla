----------------------------- MODULE PoolManager -----------------------------
(***************************************************************************)
(* The pool of preallocated blocks (PoolManager.cpp): the callers of       *)
(* Allocate and Free, which run in VMX root mode and can only poll, the    *)
(* allocation thread and the free thread, which do what needs the kernel's *)
(* allocator or takes time, and the driver's load and unload, which        *)
(* create and stop those threads.                                          *)
(*                                                                         *)
(* A critical section is one step: the allocation lists, the two request   *)
(* lists and the running flag each have a lock of their own, and no        *)
(* section takes two of them.  (Operators named Bad... are mutants, see    *)
(* Ept.tla.)                                                               *)
(***************************************************************************)
EXTENDS RequestList, FiniteSets, SequencesExt

CONSTANTS
    SplitBlocks,    \* blocks of type SPLIT_2MB_PAGING_TO_4KB_PAGE
    HookBlocks,     \* blocks of type EPT_HOOK_PAGE
    InitialBlocks,  \* the blocks the constructor manages to allocate
    Clients,        \* processors calling Allocate and Free
    MaxTries        \* how often a caller tries again before it gives up

Blocks == SplitBlocks \cup HookBlocks
Types == {"split", "hook"}
BlocksOf(type) == IF type = "split" THEN SplitBlocks ELSE HookBlocks
TypeOf(b) == IF b \in SplitBlocks THEN "split" ELSE "hook"

ASSUME PoolAssumption ==
    /\ SplitBlocks \cap HookBlocks = {}
    /\ IsFiniteSet(Blocks)
    /\ InitialBlocks \subseteq Blocks
    /\ MaxRequests \in Nat \ {0}
    /\ MaxTries \in Nat \ {0}
    /\ Nil \notin Blocks \cup Types

VARIABLES
    list,      \* type -> the blocks of its list, in list order
    isUsed,    \* block -> IsUsed
    dirty,     \* block -> its memory has been written since it was zeroed
    allocationRequests,
    freeRequests,
    running,
    allocator, \* the allocation thread
    freer,     \* the free thread
    main,      \* the thread that loads and unloads the driver
    client,    \* client -> the call it has in progress
    held       \* client -> the blocks it was given and still uses

listVars   == <<list, isUsed, dirty>>
clientVars == <<client, held>>
vars == <<listVars, allocationRequests, freeRequests, running, allocator, freer,
          main, clientVars>>

Threads == [pc : {"none", "check", "pop", "work", "update", "exit"},
            isRunning : BOOLEAN, item : Blocks \cup Types \cup {Nil}]
NewThread == [pc |-> "check", isRunning |-> TRUE, item |-> Nil]

Calls == [pc : {"idle", "insert", "poll", "free"}, type : Types \cup {Nil},
          block : Blocks \cup {Nil}, tries : 0 .. MaxTries]
NoCall == [pc |-> "idle", type |-> Nil, block |-> Nil, tries |-> 0]

-----------------------------------------------------------------------------
(* The allocation lists.                                                   *)

Listed(b) == b \in ToSet(list[TypeOf(b)])

NoFreeSlot(type) == \A b \in ToSet(list[type]) : isUsed[b]

BadNotMarked(c, type) ==
    \E i \in DOMAIN list[type] :
        LET b == list[type][i]
        IN  /\ ~isUsed[b]
            /\ held' = [held EXCEPT ![c] = @ \cup {b}]
            /\ UNCHANGED listVars

\* The first unused block of the list goes to client c, who writes to it.
FindFreeSlot(c, type) ==
    \E i \in DOMAIN list[type] :
        LET b == list[type][i]
        IN  /\ ~isUsed[b]
            /\ \A j \in 1 .. (i - 1) : isUsed[list[type][j]]
            /\ isUsed' = [isUsed EXCEPT ![b] = TRUE]
            /\ dirty' = [dirty EXCEPT ![b] = TRUE]
            /\ held' = [held EXCEPT ![c] = @ \cup {b}]
            /\ UNCHANGED list

\* A new zeroed block at the tail, unless the kernel has no memory.
AllocateInternal(type) ==
    \/ \E b \in BlocksOf(type) \ ToSet(list[type]) :
         /\ list' = [list EXCEPT ![type] = Append(@, b)]
         /\ isUsed' = [isUsed EXCEPT ![b] = FALSE]
         /\ dirty' = [dirty EXCEPT ![b] = FALSE]
    \/ UNCHANGED listVars

BadNotZeroed(b) ==
    /\ isUsed' = [isUsed EXCEPT ![b] = FALSE]
    /\ UNCHANGED <<list, dirty>>

\* Block b is zeroed and unused again, if it is found in its list.
FreeInternal(b) ==
    IF Listed(b)
    THEN /\ isUsed' = [isUsed EXCEPT ![b] = FALSE]
         /\ dirty' = [dirty EXCEPT ![b] = FALSE]
         /\ UNCHANGED list
    ELSE UNCHANGED listVars

-----------------------------------------------------------------------------
(* Allocate and Free, on client c.                                         *)

Return(c) == client' = [client EXCEPT ![c] = NoCall]

BadOneMore(c) ==
    IF client[c].tries > MaxTries
    THEN Return(c)
    ELSE client' = [client EXCEPT ![c].tries = @ + 1]

BadForever(c) == UNCHANGED client

TryAgain(c) ==
    IF client[c].tries = MaxTries
    THEN Return(c)
    ELSE client' = [client EXCEPT ![c].tries = @ + 1]

Allocate(c, type) ==
    /\ main = "serve"
    /\ client[c] = NoCall
    /\ \/ /\ FindFreeSlot(c, type)
          /\ UNCHANGED client
       \/ /\ NoFreeSlot(type)
          /\ client' = [client EXCEPT ![c] =
                          [NoCall EXCEPT !.pc = "insert", !.type = type]]
          /\ UNCHANGED <<listVars, held>>
    /\ UNCHANGED <<allocationRequests, freeRequests, running, allocator, freer, main>>

\* A request queued in the last try is not waited for.
InsertAllocation(c) ==
    /\ client[c].pc = "insert"
    /\ \/ /\ ~IsFull(allocationRequests)
          /\ allocationRequests' = Insert(allocationRequests, client[c].type)
          /\ IF client[c].tries = MaxTries
             THEN Return(c)
             ELSE client' = [client EXCEPT ![c] =
                               [@ EXCEPT !.pc = "poll", !.tries = 1]]
       \/ /\ IsFull(allocationRequests)
          /\ TryAgain(c)
          /\ UNCHANGED allocationRequests
    /\ UNCHANGED <<listVars, freeRequests, running, allocator, freer, main, held>>

Poll(c) ==
    /\ client[c].pc = "poll"
    /\ \/ /\ FindFreeSlot(c, client[c].type)
          /\ Return(c)
       \/ /\ NoFreeSlot(client[c].type)
          /\ TryAgain(c)
          /\ UNCHANGED <<listVars, held>>
    /\ UNCHANGED <<allocationRequests, freeRequests, running, allocator, freer, main>>

Free(c, b) ==
    /\ main = "serve"
    /\ client[c] = NoCall
    /\ b \in held[c]
    /\ held' = [held EXCEPT ![c] = @ \ {b}]
    /\ client' = [client EXCEPT ![c] = [NoCall EXCEPT !.pc = "free", !.block = b]]
    /\ UNCHANGED <<listVars, allocationRequests, freeRequests, running, allocator,
                   freer, main>>

\* When the list stays full the block is forgotten.
InsertFree(c) ==
    /\ client[c].pc = "free"
    /\ \/ /\ ~IsFull(freeRequests)
          /\ freeRequests' = Insert(freeRequests, client[c].block)
          /\ Return(c)
       \/ /\ IsFull(freeRequests)
          /\ TryAgain(c)
          /\ UNCHANGED freeRequests
    /\ UNCHANGED <<listVars, allocationRequests, running, allocator, freer, main, held>>

-----------------------------------------------------------------------------
(* The threads.  Each reads the size of its list, pops, works and looks at *)
(* the running flag in four critical sections.                             *)

AllocatorCheck ==
    /\ allocator.pc = "check"
    /\ allocator' = [allocator EXCEPT !.pc =
                       IF allocationRequests.itemsCount = 0 THEN "update" ELSE "pop"]
    /\ UNCHANGED <<listVars, allocationRequests, freeRequests, running, freer, main,
                   clientVars>>

AllocatorPop ==
    /\ allocator.pc = "pop"
    /\ LET popped == Pop(allocationRequests, "split")
       IN  /\ allocationRequests' = popped.list
           /\ allocator' = [allocator EXCEPT !.pc = "work", !.item = popped.item]
    /\ UNCHANGED <<listVars, freeRequests, running, freer, main, clientVars>>

AllocatorWork ==
    /\ allocator.pc = "work"
    /\ AllocateInternal(allocator.item)
    /\ allocator' = [allocator EXCEPT !.pc = "update", !.item = Nil]
    /\ UNCHANGED <<allocationRequests, freeRequests, running, freer, main, clientVars>>

AllocatorUpdate ==
    /\ allocator.pc = "update"
    /\ allocator' = [allocator EXCEPT !.pc = IF running THEN "check" ELSE "exit",
                                      !.isRunning = running]
    /\ UNCHANGED <<listVars, allocationRequests, freeRequests, running, freer, main,
                   clientVars>>

BadNoDrain ==
    /\ freer.pc = "check"
    /\ freer' = [freer EXCEPT !.pc = IF ~freer.isRunning THEN "exit"
                                     ELSE IF freeRequests.itemsCount = 0 THEN "update"
                                     ELSE "pop"]
    /\ UNCHANGED <<listVars, allocationRequests, freeRequests, running, allocator, main,
                   clientVars>>

\* Once stopped, the free thread drains its list and only then exits.
FreerCheck ==
    /\ freer.pc = "check"
    /\ freer' = [freer EXCEPT !.pc = IF freeRequests.itemsCount > 0 THEN "pop"
                                     ELSE IF freer.isRunning THEN "update"
                                     ELSE "exit"]
    /\ UNCHANGED <<listVars, allocationRequests, freeRequests, running, allocator, main,
                   clientVars>>

FreerPop ==
    /\ freer.pc = "pop"
    /\ LET popped == Pop(freeRequests, Nil)
       IN  /\ freeRequests' = popped.list
           /\ freer' = [freer EXCEPT !.pc = "work", !.item = popped.item]
    /\ UNCHANGED <<listVars, allocationRequests, running, allocator, main, clientVars>>

FreerWork ==
    /\ freer.pc = "work"
    /\ IF freer.item = Nil THEN UNCHANGED listVars ELSE FreeInternal(freer.item)
    /\ freer' = [freer EXCEPT !.pc = IF freer.isRunning THEN "update" ELSE "check",
                              !.item = Nil]
    /\ UNCHANGED <<allocationRequests, freeRequests, running, allocator, main, clientVars>>

FreerUpdate ==
    /\ freer.pc = "update"
    /\ freer' = [freer EXCEPT !.pc = "check", !.isRunning = running]
    /\ UNCHANGED <<listVars, allocationRequests, freeRequests, running, allocator, main,
                   clientVars>>

-----------------------------------------------------------------------------
(* Load and unload.                                                        *)

\* The constructor has filled the lists; the driver does not load when a
\* thread cannot be created, and what was started before stays.
CreateAllocator ==
    /\ main = "filled"
    /\ \/ main' = "window" /\ allocator' = NewThread
       \/ main' = "failed" /\ UNCHANGED allocator
    /\ UNCHANGED <<listVars, allocationRequests, freeRequests, running, freer, clientVars>>

\* The allocation thread may already be at work, and may see running = false.
SetRunning ==
    /\ main = "window"
    /\ running' = TRUE
    /\ main' = "running"
    /\ UNCHANGED <<listVars, allocationRequests, freeRequests, allocator, freer, clientVars>>

CreateFreer ==
    /\ main = "running"
    /\ \/ main' = "serve" /\ freer' = NewThread
       \/ main' = "failed" /\ UNCHANGED freer
    /\ UNCHANGED <<listVars, allocationRequests, freeRequests, running, allocator, clientVars>>

\* TerminateVmx is done: no processor is in VMX root mode any more.
Unload ==
    /\ main = "serve"
    /\ \A c \in Clients : client[c] = NoCall
    /\ main' = "stop"
    /\ UNCHANGED <<listVars, allocationRequests, freeRequests, running, allocator, freer,
                   clientVars>>

BadStillRunning ==
    /\ main = "stop"
    /\ main' = "join allocator"
    /\ UNCHANGED <<listVars, allocationRequests, freeRequests, running, allocator, freer,
                   clientVars>>

StopThreads ==
    /\ main = "stop"
    /\ main' = IF running THEN "join allocator" ELSE "release"
    /\ running' = FALSE
    /\ UNCHANGED <<listVars, allocationRequests, freeRequests, allocator, freer, clientVars>>

JoinAllocator ==
    /\ main = "join allocator"
    /\ allocator.pc = "exit"
    /\ main' = "join freer"
    /\ UNCHANGED <<listVars, allocationRequests, freeRequests, running, allocator, freer,
                   clientVars>>

BadNoJoin ==
    /\ main = "join freer"
    /\ main' = "release"
    /\ UNCHANGED <<listVars, allocationRequests, freeRequests, running, allocator, freer,
                   clientVars>>

JoinFreer ==
    /\ main = "join freer"
    /\ freer.pc = "exit"
    /\ main' = "release"
    /\ UNCHANGED <<listVars, allocationRequests, freeRequests, running, allocator, freer,
                   clientVars>>

\* The memory of every block goes back to the kernel, used or not.
FreeAllocations ==
    /\ main = "release"
    /\ main' = "gone"
    /\ list' = [type \in Types |-> <<>>]
    /\ UNCHANGED <<isUsed, dirty, allocationRequests, freeRequests, running, allocator,
                   freer, clientVars>>

-----------------------------------------------------------------------------

\* The lists are filled (PoolManager.cpp:21-24), no thread is running yet.
Init ==
    /\ list = [type \in Types |-> SetToSeq(InitialBlocks \cap BlocksOf(type))]
    /\ isUsed = [b \in Blocks |-> FALSE]
    /\ dirty = [b \in Blocks |-> FALSE]
    /\ allocationRequests = EmptyList
    /\ freeRequests = EmptyList
    /\ running = FALSE
    /\ allocator = [NewThread EXCEPT !.pc = "none"]
    /\ freer = [NewThread EXCEPT !.pc = "none"]
    /\ main = "filled"
    /\ client = [c \in Clients |-> NoCall]
    /\ held = [c \in Clients |-> {}]

ClientStart(c) ==
    \/ \E type \in Types : Allocate(c, type)
    \/ \E b \in held[c] : Free(c, b)

ClientStep(c) == InsertAllocation(c) \/ Poll(c) \/ InsertFree(c)

AllocatorStep == AllocatorCheck \/ AllocatorPop \/ AllocatorWork \/ AllocatorUpdate

FreerStep == FreerCheck \/ FreerPop \/ FreerWork \/ FreerUpdate

Load == CreateAllocator \/ SetRunning \/ CreateFreer

Stop == StopThreads \/ JoinAllocator \/ JoinFreer \/ FreeAllocations

Next ==
    \/ \E c \in Clients : ClientStart(c) \/ ClientStep(c)
    \/ AllocatorStep
    \/ FreerStep
    \/ Load
    \/ Unload
    \/ Stop

Spec == Init /\ [][Next]_vars

\* Threads are scheduled, a call that has begun runs on in root mode, and load
\* and unload run to their ends.  Nobody has to allocate, free or unload.
Fairness ==
    /\ \A c \in Clients : WF_vars(ClientStep(c))
    /\ WF_vars(AllocatorStep)
    /\ WF_vars(FreerStep)
    /\ WF_vars(Load)
    /\ WF_vars(Stop)

FairSpec == Spec /\ Fairness

-----------------------------------------------------------------------------
(* Properties.                                                             *)

\* The places that have block b: a client that uses it, a call of Free that has
\* not queued it yet, a slot of the request list, the hand of the free thread.
Places(b) ==
    {<<"held", c>> : c \in {d \in Clients : b \in held[d]}}
    \cup {<<"call", c>> : c \in {d \in Clients : client[d].block = b}}
    \cup {<<"slot", i>> : i \in {j \in 1 .. MaxRequests : freeRequests.slots[j] = b}}
    \cup {<<"freer", Nil>> : x \in {f \in {freer} : f.item = b}}

\* The shape of the state.
PoolTypeOK ==
    /\ list \in [Types -> Seq(Blocks)]
    /\ isUsed \in [Blocks -> BOOLEAN]
    /\ dirty \in [Blocks -> BOOLEAN]
    /\ allocationRequests \in RequestLists(Types)
    /\ freeRequests \in RequestLists(Blocks)
    /\ running \in BOOLEAN
    /\ allocator \in Threads
    /\ freer \in Threads
    /\ main \in {"filled", "window", "running", "failed", "serve", "stop",
                 "join allocator", "join freer", "release", "gone"}
    /\ client \in [Clients -> Calls]
    /\ held \in [Clients -> SUBSET Blocks]

\* A block is in at most one place, and while it is in one it is marked as used:
\* nobody else can be given it, nor can it be wiped under its owner
\* (PoolManager.cpp:171-181 and 130-139 against any number of callers).
OneOwner ==
    \A b \in Blocks :
        /\ \A x, y \in Places(b) : x = y
        /\ Places(b) # {} => isUsed[b] /\ (main # "gone" => Listed(b))

\* A block that can be handed out has been zeroed since its last owner wrote to
\* it: a new page table permits nothing, a new record is empty (136).
ZeroedWhenFree ==
    \A b \in Blocks : Listed(b) /\ ~isUsed[b] => ~dirty[b]

\* The size a thread read in one critical section still lets it pop in the next,
\* and the counter of a list is the number of its used slots: otherwise Pop gives
\* out a default request, an unwanted page table (RequestList.hpp:47-61).
PopFindsRequest ==
    /\ \A l \in {allocationRequests, freeRequests} : l.itemsCount = Cardinality(UsedSlots(l))
    /\ allocator.pc = "pop" => UsedSlots(allocationRequests) # {}
    /\ freer.pc = "pop" => UsedSlots(freeRequests) # {}

\* When the destructor frees the lists both threads have exited and nothing is
\* left to be freed (PoolManager.cpp:45-65, 348-355).
QuietWhenReleased ==
    main \in {"release", "gone"} =>
        /\ allocator.pc = "exit" /\ freer.pc = "exit"
        /\ UsedSlots(freeRequests) = {} /\ freer.item = Nil

\* A call returns in bounded time: a list that stays full or a request that is
\* never served does not hold a processor in root mode (194-278).  That it gets the
\* locks is taken for granted: where Locks!Inverted holds it does not.
CallsReturn == \A c \in Clients : client[c].pc # "idle" ~> client[c].pc = "idle"

\* An unload ends: both threads notice the flag, whatever they were doing (368-394).
StopEnds == main = "stop" ~> main = "gone"

\* The pool does what the EPT code relies on.
Count(l, item) == Cardinality({i \in 1 .. MaxRequests : l.slots[i] = item})
InHand(thread, item) == IF thread.item = item THEN 1 ELSE 0

Allocator ==
    INSTANCE BlockAllocator WITH
        status   <- [b \in Blocks |-> IF ~Listed(b) THEN "absent"
                                      ELSE IF isUsed[b] THEN "used" ELSE "free"],
        requests <- [t \in Types |-> Count(allocationRequests, t) + InHand(allocator, t)],
        queued   <- [b \in Blocks |-> Count(freeRequests, b) + InHand(freer, b)]

\* Every step of callers, threads, load and unload is a step of the abstract
\* allocator that Ept.tla is built on, or none (the whole of PoolManager.cpp).
ImplementsAllocator == Allocator!AllocSpec
=============================================================================
