----------------------------- MODULE RequestList -----------------------------
(* The fixed array of request slots that the pool's callers and its threads  *)
(* share (RequestList.hpp).  Each operation holds the list's lock throughout. *)
EXTENDS Integers

CONSTANTS
    MaxRequests,  \* MAX_ALLOCATION_REQUESTS
    Nil           \* what a slot holds when it is not used

RequestLists(Items) ==
    [slots : [1 .. MaxRequests -> Items \cup {Nil}], itemsCount : 0 .. MaxRequests]

EmptyList == [slots |-> [i \in 1 .. MaxRequests |-> Nil], itemsCount |-> 0]

UsedSlots(l) == {i \in 1 .. MaxRequests : l.slots[i] # Nil}
Holds(l, item) == \E i \in 1 .. MaxRequests : l.slots[i] = item

IsFull(l) == l.itemsCount = MaxRequests \/ UsedSlots(l) = 1 .. MaxRequests

\* The lowest free slot takes the item.
Insert(l, item) ==
    LET first == CHOOSE i \in 1 .. MaxRequests :
                    l.slots[i] = Nil /\ \A j \in 1 .. (i - 1) : l.slots[j] # Nil
    IN  [slots |-> [l.slots EXCEPT ![first] = item], itemsCount |-> l.itemsCount + 1]

\* The lowest used slot is given out: the oldest item only when there is one.
FirstUsed(l) == CHOOSE i \in UsedSlots(l) : \A j \in UsedSlots(l) : i <= j

BadKeepCount(l) == [slots |-> [l.slots EXCEPT ![FirstUsed(l)] = Nil],
                    itemsCount |-> l.itemsCount]

Rest(l) == [slots |-> [l.slots EXCEPT ![FirstUsed(l)] = Nil],
            itemsCount |-> l.itemsCount - 1]

\* Pop returns default and leaves the list alone when it is empty.
Pop(l, default) ==
    IF l.itemsCount = 0 \/ UsedSlots(l) = {}
    THEN [item |-> default, list |-> l]
    ELSE [item |-> l.slots[FirstUsed(l)], list |-> Rest(l)]
=============================================================================
