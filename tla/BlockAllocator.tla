--------------------------- MODULE BlockAllocator ---------------------------
(***************************************************************************)
(* What the pool manager promises to the EPT code: blocks of two types,    *)
(* handed out one owner at a time, returned through a queue that a thread  *)
(* drains later, and created on demand by another thread.                  *)
(*                                                                         *)
(* Ept.tla takes its blocks from this module; PoolManager.tla, which has   *)
(* the threads, the request lists and the locks, is checked to implement   *)
(* it.  (Operators named Bad... are mutants, see Ept.tla.)                 *)
(***************************************************************************)
EXTENDS Integers, FiniteSets

CONSTANTS
    SplitBlocks,    \* blocks of type SPLIT_2MB_PAGING_TO_4KB_PAGE
    HookBlocks,     \* blocks of type EPT_HOOK_PAGE
    InitialBlocks,  \* the blocks the constructor allocates
    MaxRequests     \* the slots of a request list (100 in the code)

Blocks == SplitBlocks \cup HookBlocks

ASSUME BlockAssumption ==
    /\ SplitBlocks \cap HookBlocks = {}
    /\ InitialBlocks \subseteq Blocks
    /\ MaxRequests \in Nat \ {0}

Types == {"split", "hook"}

BlocksOf(type) == IF type = "split" THEN SplitBlocks ELSE HookBlocks

VARIABLES
    status,    \* block -> "absent" (no memory yet), "free" or "used" (IsUsed)
    requests,  \* type -> allocations asked of the allocation thread
    queued     \* block -> how many times it waits to be freed

allocVars == <<status, requests, queued>>

AllocTypeOK ==
    /\ status \in [Blocks -> {"absent", "free", "used"}]
    /\ requests \in [Types -> Nat]
    /\ queued \in [Blocks -> Nat]

AllocInit ==
    /\ status = [b \in Blocks |-> IF b \in InitialBlocks THEN "free" ELSE "absent"]
    /\ requests = [t \in Types |-> 0]
    /\ queued = [b \in Blocks |-> 0]

-----------------------------------------------------------------------------

\* What a request list holds: at most MaxRequests slots, and one more item that
\* its thread has popped and not yet served.
PendingItems(count) == UNION {{<<x, n>> : n \in 1 .. count[x]} : x \in DOMAIN count}
Pending(count) == Cardinality(PendingItems(count))
MayInsert(count) == Pending(count) <= MaxRequests
MayBeFull(count) == Pending(count) >= MaxRequests

NoneFree(type) == \A b \in BlocksOf(type) : status[b] # "free"

BadNotMarked(b) ==
    /\ status[b] = "free"
    /\ UNCHANGED allocVars

\* A caller is given block b.
Take(b) ==
    /\ status[b] = "free"
    /\ status' = [status EXCEPT ![b] = "used"]
    /\ UNCHANGED <<requests, queued>>

\* A caller that found no free block asks for one, whatever was freed since ...
Ask(type) ==
    /\ MayInsert(requests)
    /\ requests' = [requests EXCEPT ![type] = @ + 1]
    /\ UNCHANGED <<status, queued>>

BadEmptyPop(type) ==
    /\ requests' = [requests EXCEPT ![type] = @ - 1]
    /\ UNCHANGED <<status, queued>>

\* ... and the allocation thread serves the request: a new block, or none when
\* the kernel has no memory.
Grow(type) ==
    /\ requests[type] > 0
    /\ requests' = [requests EXCEPT ![type] = @ - 1]
    /\ \/ \E b \in BlocksOf(type) :
            /\ status[b] = "absent"
            /\ status' = [status EXCEPT ![b] = "free"]
       \/ UNCHANGED status
    /\ UNCHANGED queued

\* A caller returns block b: it is queued, or dropped when the queue stays full.
Release(b) ==
    \/ /\ MayInsert(queued)
       /\ queued' = [queued EXCEPT ![b] = @ + 1]
       /\ UNCHANGED <<status, requests>>
    \/ /\ MayBeFull(queued)
       /\ UNCHANGED allocVars

\* The free thread makes block b free again.
Reclaim(b) ==
    /\ queued[b] > 0
    /\ queued' = [queued EXCEPT ![b] = @ - 1]
    /\ status' = [status EXCEPT ![b] = "free"]
    /\ UNCHANGED requests

\* Unload: the memory of all blocks is gone, when none waits to be freed.
Destroy ==
    /\ \A b \in Blocks : queued[b] = 0
    /\ status' = [b \in Blocks |-> "absent"]
    /\ UNCHANGED <<requests, queued>>

AllocNext ==
    \/ \E b \in Blocks : Take(b) \/ Release(b) \/ Reclaim(b)
    \/ \E type \in Types : Ask(type) \/ Grow(type)
    \/ Destroy

AllocSpec == AllocInit /\ [][AllocNext]_allocVars

=============================================================================
