-------------------------- MODULE PoolManagerProofs --------------------------
(***************************************************************************)
(* The pool, for any blocks, callers, list sizes and numbers of tries: one *)
(* owner per block, zeroed blocks, counters that agree with their slots,   *)
(* threads that are gone when the lists are released; and that the pool    *)
(* implements the abstract allocator.                                      *)
(***************************************************************************)
EXTENDS PoolManager, FiniteSetTheorems, TLAPS

Slots == 1 .. MaxRequests

\* A counter agrees with its slots.
Counted(l) == l.itemsCount = Cardinality(UsedSlots(l))

\* A block has at most one of: a client that uses it, a call that returns it, a
\* slot of the list, the hand of the free thread.
Exclusive ==
    /\ \A c, d \in Clients : \A b \in held[c] :
         /\ b \in held[d] => c = d
         /\ client[d].block # b
    /\ \A c \in Clients : \A b \in held[c] :
         freer.item # b /\ \A i \in Slots : freeRequests.slots[i] # b
    /\ \A c, d \in Clients :
         client[c].block # Nil /\ client[c].block = client[d].block => c = d
    /\ \A c \in Clients : client[c].block # Nil =>
         /\ freer.item # client[c].block
         /\ \A i \in Slots : freeRequests.slots[i] # client[c].block
    /\ \A i, j \in Slots :
         freeRequests.slots[i] # Nil /\ freeRequests.slots[i] = freeRequests.slots[j]
         => i = j
    /\ \A i \in Slots :
         freeRequests.slots[i] # Nil => freer.item # freeRequests.slots[i]

Owned(b) ==
    \/ \E c \in Clients : b \in held[c] \/ client[c].block = b
    \/ \E i \in Slots : freeRequests.slots[i] = b
    \/ freer.item = b

UsedInv == \A b \in Blocks : Owned(b) => isUsed[b] /\ (main # "gone" => Listed(b))

ListInv == \A type \in Types : ToSet(list[type]) \subseteq BlocksOf(type)

CallInv ==
    \A c \in Clients :
        /\ client[c].block # Nil <=> client[c].pc = "free"
        /\ client[c].pc \in {"insert", "poll"} => client[c].type \in Types
        /\ main # "serve" => client[c] = NoCall

\* What a thread has in hand, and has seen.
ThreadInv ==
    /\ allocator.item \in Types \cup {Nil}
    /\ allocator.pc = "work" <=> allocator.item # Nil
    /\ freer.item \in Blocks \cup {Nil}
    /\ freer.item # Nil => freer.pc = "work"
    /\ allocator.pc = "pop" => allocationRequests.itemsCount > 0
    /\ freer.pc = "pop" => freeRequests.itemsCount > 0

\* How far the threads are, against load and unload.
StopInv ==
    /\ main \in {"running", "serve", "stop"} => running
    /\ main \in {"serve", "stop"} => freer.isRunning
    /\ main \in {"filled", "window", "running", "failed"} => freer.pc = "none"
    /\ main = "filled" => allocator.pc = "none"
    /\ main \in {"join freer", "release", "gone"} => allocator.pc = "exit"
    /\ main \in {"release", "gone"} => freer.pc = "exit"
    /\ freer.pc = "exit" => ~freer.isRunning /\ freeRequests.itemsCount = 0

CountInv == Counted(allocationRequests) /\ Counted(freeRequests)

Inv == /\ PoolTypeOK /\ ListInv /\ CallInv /\ ThreadInv /\ StopInv /\ CountInv
       /\ Exclusive /\ UsedInv /\ ZeroedWhenFree

-----------------------------------------------------------------------------
(* The request list.                                                       *)

LEMMA Smallest ==
  ASSUME NEW S \in SUBSET Nat, S # {}
  PROVE  \E m \in S : \A n \in S : m <= n
<1> DEFINE R == OpToRel(<, Nat)
<1>1. \E m \in S : \A n \in S : ~(<<n, m>> \in R)
  BY NatLessThanWellFounded, WFMin, Zenon
<1>2. PICK m \in S : \A n \in S : ~(<<n, m>> \in R)
  BY <1>1
<1>3. ASSUME NEW n \in S  PROVE m <= n
  <2>1. ~(<<n, m>> \in R) /\ m \in Nat /\ n \in Nat
    BY <1>2, <1>3
  <2> QED
    BY <2>1 DEF OpToRel
<1> QED
  BY <1>3

LEMMA SlotsFinite ==
  /\ \A S \in SUBSET Slots : IsFiniteSet(S) /\ Cardinality(S) \in 0 .. MaxRequests
  /\ Cardinality(Slots) = MaxRequests
<1>1. IsFiniteSet(Slots) /\ Cardinality(Slots) = MaxRequests
  BY FS_Interval, PoolAssumption DEF Slots
<1>2. ASSUME NEW S \in SUBSET Slots
      PROVE  IsFiniteSet(S) /\ Cardinality(S) \in 0 .. MaxRequests
  <2>1. IsFiniteSet(S) /\ Cardinality(S) <= MaxRequests
    BY <1>1, FS_Subset
  <2>2. Cardinality(S) \in Nat
    BY <2>1, FS_CardinalityType
  <2> QED
    BY <2>1, <2>2, PoolAssumption
<1> QED
  BY <1>1, <1>2

LEMMA EmptyListFacts ==
  ASSUME NEW Items
  PROVE  EmptyList \in RequestLists(Items) /\ Counted(EmptyList)
<1>1. UsedSlots(EmptyList) = {}
  BY DEF UsedSlots, EmptyList
<1> QED
  BY <1>1, FS_EmptySet, PoolAssumption DEF EmptyList, RequestLists, Counted

\* An item that is inserted takes one free slot.
LEMMA InsertFacts ==
  ASSUME NEW Items, Nil \notin Items, NEW l \in RequestLists(Items), Counted(l),
         ~IsFull(l), NEW item \in Items
  PROVE  /\ \E f \in Slots : /\ l.slots[f] = Nil
                             /\ Insert(l, item).slots = [l.slots EXCEPT ![f] = item]
         /\ Insert(l, item).itemsCount = l.itemsCount + 1
         /\ Insert(l, item) \in RequestLists(Items)
         /\ Counted(Insert(l, item))
<1> DEFINE first == CHOOSE i \in 1 .. MaxRequests :
                      l.slots[i] = Nil /\ \A j \in 1 .. (i - 1) : l.slots[j] # Nil
           S == Slots \ UsedSlots(l)
           k == Insert(l, item)
<1>1. S \in SUBSET Nat /\ S # {}
  BY DEF IsFull, UsedSlots, Slots
<1>2. PICK m \in S : \A n \in S : m <= n
  BY <1>1, Smallest
<1>3. l.slots[m] = Nil /\ m \in Slots /\ \A j \in 1 .. (m - 1) : l.slots[j] # Nil
  <2>1. m \in 1 .. MaxRequests /\ l.slots[m] = Nil
    BY DEF UsedSlots, Slots
  <2>2. ASSUME NEW j \in 1 .. (m - 1), l.slots[j] = Nil
        PROVE  FALSE
    <3>1. j \in 1 .. MaxRequests /\ j < m
      BY <2>1, PoolAssumption
    <3>2. j \in S
      BY <2>2, <3>1 DEF UsedSlots, Slots
    <3> QED
      BY <1>2, <2>1, <3>1, <3>2, PoolAssumption
  <2> QED
    BY <2>1, <2>2 DEF Slots
<1>4. first \in Slots /\ l.slots[first] = Nil
  BY <1>3 DEF Slots
<1>5. /\ k.slots = [l.slots EXCEPT ![first] = item]
      /\ k.itemsCount = l.itemsCount + 1
      /\ k = [slots |-> k.slots, itemsCount |-> k.itemsCount]
  BY DEF Insert
<1> HIDE DEF first, k
<1>6. UsedSlots(k) = UsedSlots(l) \cup {first} /\ first \notin UsedSlots(l)
  BY <1>4, <1>5 DEF UsedSlots, Slots, RequestLists
<1>7. UsedSlots(l) \in SUBSET Slots /\ UsedSlots(k) \in SUBSET Slots
  BY DEF UsedSlots, Slots
<1>8. Cardinality(UsedSlots(k)) = Cardinality(UsedSlots(l)) + 1
  BY <1>6, <1>7, SlotsFinite, FS_AddElement
<1>9. Counted(k)
  BY <1>5, <1>8 DEF Counted
<1>10. k.itemsCount \in 0 .. MaxRequests
  BY <1>9, <1>7, SlotsFinite DEF Counted
<1>11. k.slots \in [1 .. MaxRequests -> Items \cup {Nil}]
  BY <1>4, <1>5 DEF RequestLists, Slots
<1> QED
  BY <1>4, <1>5, <1>9, <1>10, <1>11 DEF RequestLists, k

\* Pop finds a request when the counter says so, and empties its slot.
LEMMA PopFacts ==
  ASSUME NEW Items, Nil \notin Items, NEW l \in RequestLists(Items), Counted(l),
         NEW default, l.itemsCount > 0
  PROVE  /\ \E f \in Slots :
              /\ l.slots[f] # Nil
              /\ Pop(l, default).item = l.slots[f]
              /\ Pop(l, default).list.slots = [l.slots EXCEPT ![f] = Nil]
         /\ Pop(l, default).item \in Items
         /\ Pop(l, default).list \in RequestLists(Items)
         /\ Counted(Pop(l, default).list)
<1> DEFINE f == FirstUsed(l)
           k == Rest(l)
<1>1. UsedSlots(l) \in SUBSET Nat /\ UsedSlots(l) \in SUBSET Slots
  BY DEF UsedSlots, Slots
<1>2. UsedSlots(l) # {}
  BY FS_EmptySet DEF Counted
<1>3. f \in UsedSlots(l)
  <2>1. PICK m \in UsedSlots(l) : \A n \in UsedSlots(l) : m <= n
    BY <1>1, <1>2, Smallest
  <2> QED
    BY <2>1 DEF FirstUsed
<1>4. f \in Slots /\ l.slots[f] # Nil
  BY <1>3 DEF UsedSlots, Slots
<1>5. Pop(l, default) = [item |-> l.slots[f], list |-> k]
  BY <1>2 DEF Pop, RequestLists
<1>6. k.slots = [l.slots EXCEPT ![f] = Nil] /\ k.itemsCount = l.itemsCount - 1
      /\ k = [slots |-> k.slots, itemsCount |-> k.itemsCount]
  BY DEF Rest
<1> HIDE DEF f, k
<1>7. UsedSlots(k) = UsedSlots(l) \ {f}
  BY <1>4, <1>6 DEF UsedSlots, Slots, RequestLists
<1>8. Cardinality(UsedSlots(k)) = Cardinality(UsedSlots(l)) - 1
  BY <1>1, <1>3, <1>7, SlotsFinite, FS_RemoveElement
<1>9. Counted(k)
  BY <1>6, <1>8 DEF Counted
<1>10. k.itemsCount \in 0 .. MaxRequests
  BY <1>1, <1>7, <1>9, SlotsFinite DEF Counted
<1>11. k.slots \in [1 .. MaxRequests -> Items \cup {Nil}]
  BY <1>4, <1>6 DEF RequestLists, Slots
<1>12. l.slots[f] \in Items
  BY <1>4 DEF RequestLists, Slots
<1>13. k \in RequestLists(Items)
  BY <1>6, <1>10, <1>11 DEF RequestLists
<1>14. Pop(l, default).item = l.slots[f] /\ Pop(l, default).list = k
  BY <1>5
<1> QED
  BY <1>4, <1>6, <1>9, <1>12, <1>13, <1>14

-----------------------------------------------------------------------------
(* The steps that move no block.                                           *)

\* What is said of blocks depends on nothing else.
Moves == <<list, isUsed, dirty, held, freeRequests, freer.item,
           [c \in Clients |-> client[c].block]>>

LEMMA NothingMoves ==
  ASSUME Inv, UNCHANGED Moves, main = "gone" => main' = "gone"
  PROVE  Exclusive' /\ UsedInv' /\ ZeroedWhenFree' /\ ListInv'
<1>1. \A c \in Clients : client'[c].block = client[c].block
  <2>1. ASSUME NEW c \in Clients
        PROVE  client'[c].block = client[c].block
    <3>1. [d \in Clients |-> client'[d].block] = [d \in Clients |-> client[d].block]
      BY DEF Moves
    <3>2. [d \in Clients |-> client'[d].block][c] = [d \in Clients |-> client[d].block][c]
      BY <3>1
    <3> QED
      BY <3>2
  <2> QED
    BY <2>1
<1>2. UNCHANGED <<list, isUsed, dirty, held, freeRequests, freer.item>>
  BY DEF Moves
<1>3. Exclusive'
  BY <1>1, <1>2 DEF Inv, Exclusive
<1>4. UsedInv'
  <2>1. ASSUME NEW b \in Blocks, Owned(b)'
        PROVE  isUsed'[b] /\ (main' # "gone" => Listed(b)')
    <3>1. Owned(b)
      BY <1>1, <1>2, <2>1 DEF Owned
    <3>2. isUsed[b] /\ (main # "gone" => Listed(b))
      BY <3>1 DEF Inv, UsedInv
    <3>3. isUsed' = isUsed /\ list' = list
      BY <1>2
    <3>4. isUsed'[b]
      BY <3>2, <3>3
    <3>5. main' # "gone" => Listed(b)'
      BY <3>2, <3>3 DEF Listed
    <3> QED
      BY <3>4, <3>5
  <2> QED
    BY <2>1 DEF UsedInv
<1>5. ZeroedWhenFree' /\ ListInv'
  BY <1>2 DEF Inv, ZeroedWhenFree, ListInv, Listed
<1> QED
  BY <1>3, <1>4, <1>5

LEMMA AppendFacts ==
  ASSUME NEW S, NEW s \in Seq(S), NEW e \in S
  PROVE  Append(s, e) \in Seq(S) /\ ToSet(Append(s, e)) = ToSet(s) \cup {e}
<1> DEFINE t == Append(s, e)
<1>1. Len(s) \in Nat /\ DOMAIN s = 1 .. Len(s) /\ \A i \in DOMAIN s : s[i] \in S
  OBVIOUS
<1>2. /\ t \in Seq(S) /\ DOMAIN t = 1 .. (Len(s) + 1)
      /\ t[Len(s) + 1] = e
      /\ \A i \in 1 .. Len(s) : t[i] = s[i]
  OBVIOUS
<1>3. DOMAIN t = DOMAIN s \cup {Len(s) + 1}
  BY <1>1, <1>2
<1> HIDE DEF t
<1>4. {t[i] : i \in DOMAIN t} = {s[i] : i \in DOMAIN s} \cup {e}
  BY <1>1, <1>2, <1>3
<1> QED
  BY <1>2, <1>4 DEF ToSet, t

\* Who has a block does not depend on the lists.
LEMMA NothingTaken ==
  ASSUME Inv, UNCHANGED <<held, client, freeRequests, freer>>
  PROVE  Exclusive'
BY DEF Inv, Exclusive

LEMMA NilIsNoItem == Nil \notin Blocks /\ Nil \notin Types
BY PoolAssumption

\* The parts of the type that the threads and the driver do not touch.
Rested == <<listVars, allocationRequests, freeRequests, client, held>>

LEMMA RestedFacts ==
  ASSUME Inv, UNCHANGED Rested, freer'.item = freer.item, main = "gone" => main' = "gone",
         running' \in BOOLEAN, allocator' \in Threads, freer' \in Threads,
         main' \in {"filled", "window", "running", "failed", "serve", "stop",
                    "join allocator", "join freer", "release", "gone"}
  PROVE  PoolTypeOK' /\ Exclusive' /\ UsedInv' /\ ZeroedWhenFree' /\ ListInv' /\ CountInv'
<1>1. UNCHANGED <<list, isUsed, dirty, allocationRequests, freeRequests, client, held>>
  BY DEF Rested, listVars
<1>2. PoolTypeOK'
  BY <1>1 DEF Inv, PoolTypeOK
<1>3. Exclusive' /\ UsedInv' /\ ZeroedWhenFree' /\ ListInv'
  BY <1>1, NothingMoves DEF Moves
<1>4. CountInv'
  BY <1>1 DEF Inv, CountInv, Counted, UsedSlots
<1> QED
  BY <1>2, <1>3, <1>4

LEMMA DriverStep ==
  ASSUME Inv, Load \/ Unload \/ StopThreads \/ JoinAllocator \/ JoinFreer
  PROVE  Inv'
<1> DEFINE Goal == /\ UNCHANGED Rested
                   /\ freer'.item = freer.item
                   /\ main # "gone"
                   /\ running' \in BOOLEAN /\ allocator' \in Threads /\ freer' \in Threads
                   /\ main' \in {"filled", "window", "running", "failed", "serve", "stop",
                                 "join allocator", "join freer", "release", "gone"}
                   /\ CallInv' /\ ThreadInv' /\ StopInv'
<1>0. /\ running \in BOOLEAN /\ allocator \in Threads /\ freer \in Threads
      /\ CallInv /\ ThreadInv /\ StopInv
  BY DEF Inv, PoolTypeOK
<1> DEFINE New == [pc |-> "check", isRunning |-> TRUE, item |-> Nil]
<1>n. NewThread \in Threads /\ NewThread = New
  BY DEF NewThread, Threads
<1>1. ASSUME CreateAllocator
      PROVE  Goal
  <2>1. /\ UNCHANGED Rested /\ main # "gone"
        /\ main' \in {"filled", "window", "running", "failed", "serve", "stop",
                      "join allocator", "join freer", "release", "gone"}
        /\ running' \in BOOLEAN /\ allocator' \in Threads /\ freer' \in Threads
    BY <1>0, <1>1, <1>n DEF CreateAllocator, Rested, listVars, clientVars
  <2>2. CallInv'
    BY <1>0, <1>1 DEF CreateAllocator, CallInv, clientVars
  <2>3. freer'.item = freer.item /\ ThreadInv'
    BY <1>0, <1>1, <1>n, NilIsNoItem DEF CreateAllocator, ThreadInv, StopInv
  <2>4. StopInv'
    BY <1>0, <1>1, <1>n DEF CreateAllocator, StopInv
  <2> QED
    BY <2>1, <2>2, <2>3, <2>4
<1>2. ASSUME SetRunning
      PROVE  Goal
  <2>1. /\ UNCHANGED Rested /\ main # "gone"
        /\ main' \in {"filled", "window", "running", "failed", "serve", "stop",
                      "join allocator", "join freer", "release", "gone"}
        /\ running' \in BOOLEAN /\ allocator' \in Threads /\ freer' \in Threads
    BY <1>0, <1>2, <1>n DEF SetRunning, Rested, listVars, clientVars
  <2>2. CallInv'
    BY <1>0, <1>2 DEF SetRunning, CallInv, clientVars
  <2>3. freer'.item = freer.item /\ ThreadInv'
    BY <1>0, <1>2, <1>n, NilIsNoItem DEF SetRunning, ThreadInv, StopInv
  <2>4. StopInv'
    BY <1>0, <1>2, <1>n DEF SetRunning, StopInv
  <2> QED
    BY <2>1, <2>2, <2>3, <2>4
<1>3. ASSUME CreateFreer
      PROVE  Goal
  <2>1. /\ UNCHANGED Rested /\ main # "gone"
        /\ main' \in {"filled", "window", "running", "failed", "serve", "stop",
                      "join allocator", "join freer", "release", "gone"}
        /\ running' \in BOOLEAN /\ allocator' \in Threads /\ freer' \in Threads
    BY <1>0, <1>3, <1>n DEF CreateFreer, Rested, listVars, clientVars
  <2>2. CallInv'
    BY <1>0, <1>3 DEF CreateFreer, CallInv, clientVars
  <2>3. freer'.item = freer.item /\ ThreadInv'
    BY <1>0, <1>3, <1>n, NilIsNoItem DEF CreateFreer, ThreadInv, StopInv
  <2>4. StopInv'
    <3>1. running /\ freer.pc = "none" /\ main = "running" /\ UNCHANGED <<running, allocator>>
      BY <1>0, <1>3 DEF CreateFreer, StopInv
    <3>2. \/ main' = "serve" /\ freer'.pc = "check" /\ freer'.isRunning
          \/ main' = "failed" /\ freer'.pc = "none"
      BY <1>3, <1>n, <3>1 DEF CreateFreer
    <3> QED
      BY <3>1, <3>2 DEF StopInv
  <2> QED
    BY <2>1, <2>2, <2>3, <2>4
<1>4. ASSUME Unload
      PROVE  Goal
  <2>1. /\ UNCHANGED Rested /\ main # "gone"
        /\ main' \in {"filled", "window", "running", "failed", "serve", "stop",
                      "join allocator", "join freer", "release", "gone"}
        /\ running' \in BOOLEAN /\ allocator' \in Threads /\ freer' \in Threads
    BY <1>0, <1>4, <1>n DEF Unload, Rested, listVars, clientVars
  <2>2. CallInv'
    BY <1>0, <1>4 DEF Unload, CallInv, clientVars
  <2>3. freer'.item = freer.item /\ ThreadInv'
    BY <1>0, <1>4, <1>n, NilIsNoItem DEF Unload, ThreadInv, StopInv
  <2>4. StopInv'
    BY <1>0, <1>4, <1>n DEF Unload, StopInv
  <2> QED
    BY <2>1, <2>2, <2>3, <2>4
<1>5. ASSUME StopThreads
      PROVE  Goal
  <2>1. /\ UNCHANGED Rested /\ main # "gone"
        /\ main' \in {"filled", "window", "running", "failed", "serve", "stop",
                      "join allocator", "join freer", "release", "gone"}
        /\ running' \in BOOLEAN /\ allocator' \in Threads /\ freer' \in Threads
    BY <1>0, <1>5, <1>n DEF StopThreads, Rested, listVars, clientVars
  <2>2. CallInv'
    BY <1>0, <1>5 DEF StopThreads, CallInv, clientVars
  <2>3. freer'.item = freer.item /\ ThreadInv'
    BY <1>0, <1>5, <1>n, NilIsNoItem DEF StopThreads, ThreadInv, StopInv
  <2>4. StopInv'
    BY <1>0, <1>5, <1>n DEF StopThreads, StopInv
  <2> QED
    BY <2>1, <2>2, <2>3, <2>4
<1>6. ASSUME JoinAllocator
      PROVE  Goal
  <2>1. /\ UNCHANGED Rested /\ main # "gone"
        /\ main' \in {"filled", "window", "running", "failed", "serve", "stop",
                      "join allocator", "join freer", "release", "gone"}
        /\ running' \in BOOLEAN /\ allocator' \in Threads /\ freer' \in Threads
    BY <1>0, <1>6, <1>n DEF JoinAllocator, Rested, listVars, clientVars
  <2>2. CallInv'
    BY <1>0, <1>6 DEF JoinAllocator, CallInv, clientVars
  <2>3. freer'.item = freer.item /\ ThreadInv'
    BY <1>0, <1>6, <1>n, NilIsNoItem DEF JoinAllocator, ThreadInv, StopInv
  <2>4. StopInv'
    BY <1>0, <1>6, <1>n DEF JoinAllocator, StopInv
  <2> QED
    BY <2>1, <2>2, <2>3, <2>4
<1>7. ASSUME JoinFreer
      PROVE  Goal
  <2>1. /\ UNCHANGED Rested /\ main # "gone"
        /\ main' \in {"filled", "window", "running", "failed", "serve", "stop",
                      "join allocator", "join freer", "release", "gone"}
        /\ running' \in BOOLEAN /\ allocator' \in Threads /\ freer' \in Threads
    BY <1>0, <1>7, <1>n DEF JoinFreer, Rested, listVars, clientVars
  <2>2. CallInv'
    BY <1>0, <1>7 DEF JoinFreer, CallInv, clientVars
  <2>3. freer'.item = freer.item /\ ThreadInv'
    BY <1>0, <1>7, <1>n, NilIsNoItem DEF JoinFreer, ThreadInv, StopInv
  <2>4. StopInv'
    BY <1>0, <1>7, <1>n DEF JoinFreer, StopInv
  <2> QED
    BY <2>1, <2>2, <2>3, <2>4
<1>8. Goal
  BY <1>1, <1>2, <1>3, <1>4, <1>5, <1>6, <1>7 DEF Load
<1>9. PoolTypeOK' /\ Exclusive' /\ UsedInv' /\ ZeroedWhenFree' /\ ListInv' /\ CountInv'
  BY <1>8, RestedFacts
<1> QED
  BY <1>8, <1>9 DEF Inv

-----------------------------------------------------------------------------
(* The threads.                                                            *)

LEMMA LookStep ==
  ASSUME Inv, AllocatorCheck \/ AllocatorUpdate \/ FreerCheck \/ FreerUpdate
  PROVE  Inv'
<1> DEFINE Goal == /\ UNCHANGED <<Rested, running, main>>
                   /\ freer'.item = freer.item
                   /\ allocator' \in Threads /\ freer' \in Threads
                   /\ ThreadInv' /\ StopInv'
<1>0. /\ running \in BOOLEAN /\ allocator \in Threads /\ freer \in Threads
      /\ ThreadInv /\ StopInv
  BY DEF Inv, PoolTypeOK
<1>c. allocationRequests.itemsCount \in Nat /\ freeRequests.itemsCount \in Nat
  <2>1. 0 .. MaxRequests \subseteq Nat
    BY PoolAssumption
  <2> QED
    BY <2>1 DEF Inv, PoolTypeOK, RequestLists
<1>1. ASSUME AllocatorCheck
      PROVE  Goal
  <2>1. UNCHANGED <<Rested, running, main, freer>>
    BY <1>1 DEF AllocatorCheck, clientVars, Rested
  <2>2. allocator' \in Threads /\ allocator'.item = allocator.item
    BY <1>0, <1>1 DEF AllocatorCheck, Threads
  <2>3. ThreadInv'
    BY <1>0, <1>c, <1>1, <2>1, <2>2 DEF AllocatorCheck, ThreadInv, Threads, Rested
  <2>4. StopInv'
    <3>1. /\ allocator.pc = "check" /\ allocator'.isRunning = allocator.isRunning
          /\ UNCHANGED <<main, running, freeRequests>>
      BY <1>0, <1>1, <2>1 DEF AllocatorCheck, Threads, Rested
    <3>2. UNCHANGED freer
      BY <2>1
    <3>3. main \in {"stop", "serve", "window", "running", "failed", "join allocator"}
      BY <1>0, <3>1 DEF StopInv, Inv, PoolTypeOK
    <3> QED
      BY <1>0, <3>1, <3>2, <3>3 DEF StopInv
  <2> QED
    BY <1>0, <2>1, <2>2, <2>3, <2>4
<1>2. ASSUME AllocatorUpdate
      PROVE  Goal
  <2>1. UNCHANGED <<Rested, running, main, freer>>
    BY <1>2 DEF AllocatorUpdate, clientVars, Rested
  <2>2. allocator' \in Threads /\ allocator'.item = allocator.item
    BY <1>0, <1>2 DEF AllocatorUpdate, Threads
  <2>3. ThreadInv'
    BY <1>0, <1>2, <2>2 DEF AllocatorUpdate, ThreadInv, Threads
  <2>4. StopInv'
    BY <1>0, <1>2 DEF AllocatorUpdate, StopInv, ThreadInv, Threads
  <2> QED
    BY <1>0, <2>1, <2>2, <2>3, <2>4
<1>3. ASSUME FreerCheck
      PROVE  Goal
  <2>1. UNCHANGED <<Rested, running, main, allocator>>
    BY <1>3 DEF FreerCheck, clientVars, Rested
  <2>2. freer' \in Threads /\ freer'.item = freer.item
    BY <1>0, <1>3 DEF FreerCheck, Threads
  <2>3. ThreadInv'
    BY <1>0, <1>c, <1>3, <2>1, <2>2 DEF FreerCheck, ThreadInv, Threads, Rested
  <2>4. StopInv'
    <3>1. /\ freer.pc = "check" /\ freer'.isRunning = freer.isRunning
          /\ UNCHANGED <<main, running, freeRequests>>
      BY <1>0, <1>3, <2>1 DEF FreerCheck, Threads, Rested
    <3>a. UNCHANGED allocator
      BY <2>1
    <3>2. freer'.pc = "exit" => ~freer.isRunning /\ freeRequests.itemsCount = 0
      BY <1>0, <1>c, <1>3 DEF FreerCheck, Threads
    <3> QED
      BY <1>0, <3>1, <3>2, <3>a DEF StopInv
  <2> QED
    BY <1>0, <2>1, <2>2, <2>3, <2>4
<1>4. ASSUME FreerUpdate
      PROVE  Goal
  <2>1. UNCHANGED <<Rested, running, main, allocator>>
    BY <1>4 DEF FreerUpdate, clientVars, Rested
  <2>2. freer' \in Threads /\ freer'.item = freer.item
    BY <1>0, <1>4 DEF FreerUpdate, Threads
  <2>3. ThreadInv'
    BY <1>0, <1>4, <2>2 DEF FreerUpdate, ThreadInv, Threads
  <2>4. StopInv'
    BY <1>0, <1>4 DEF FreerUpdate, StopInv, ThreadInv, Threads
  <2> QED
    BY <1>0, <2>1, <2>2, <2>3, <2>4
<1>5. Goal
  BY <1>1, <1>2, <1>3, <1>4
<1>6. PoolTypeOK' /\ Exclusive' /\ UsedInv' /\ ZeroedWhenFree' /\ ListInv' /\ CountInv'
  BY <1>0, <1>5, RestedFacts DEF Inv, PoolTypeOK
<1>7. CallInv'
  BY <1>5 DEF CallInv, Inv, Rested
<1> QED
  BY <1>5, <1>6, <1>7 DEF Inv

LEMMA AllocatorPopStep ==
  ASSUME Inv, AllocatorPop
  PROVE  Inv'
<1> USE DEF Inv, PoolTypeOK
<1>1. /\ allocationRequests' = Pop(allocationRequests, "split").list
      /\ allocator' = [allocator EXCEPT !.pc = "work",
                                        !.item = Pop(allocationRequests, "split").item]
      /\ allocator.pc = "pop" /\ allocationRequests.itemsCount > 0
      /\ UNCHANGED <<listVars, freeRequests, running, freer, main, client, held>>
  BY DEF AllocatorPop, clientVars, ThreadInv
<1>2. /\ Pop(allocationRequests, "split").item \in Types
      /\ allocationRequests' \in RequestLists(Types) /\ Counted(allocationRequests')
  BY <1>1, PopFacts, NilIsNoItem DEF CountInv
<1>3. Exclusive' /\ UsedInv' /\ ZeroedWhenFree' /\ ListInv'
  BY <1>1, NothingMoves DEF Moves, listVars
<1>4. PoolTypeOK' /\ ThreadInv'
  BY <1>1, <1>2, NilIsNoItem DEF Threads, ThreadInv, listVars
<1>5. CallInv' /\ StopInv'
  BY <1>1 DEF CallInv, StopInv, Threads
<1>6. CountInv'
  BY <1>1, <1>2 DEF CountInv, Counted, UsedSlots
<1> QED
  BY <1>3, <1>4, <1>5, <1>6

LEMMA AllocatorWorkStep ==
  ASSUME Inv, AllocatorWork
  PROVE  Inv'
<1> USE DEF Inv, PoolTypeOK
<1> DEFINE type == allocator.item
<1>1. /\ allocator.pc = "work" /\ type \in Types
      /\ AllocateInternal(type)
      /\ allocator' = [allocator EXCEPT !.pc = "update", !.item = Nil]
      /\ UNCHANGED <<allocationRequests, freeRequests, running, freer, main, client, held>>
      /\ main # "gone"
  BY DEF AllocatorWork, clientVars, ThreadInv, StopInv
<1>2. /\ allocator' \in Threads /\ ThreadInv' /\ CallInv' /\ StopInv' /\ CountInv'
      /\ Exclusive'
  <2>1. allocator' \in Threads /\ ThreadInv'
    BY <1>1 DEF Threads, ThreadInv
  <2>2. CallInv' /\ StopInv' /\ CountInv'
    BY <1>1 DEF CallInv, StopInv, CountInv, Counted, UsedSlots, Threads
  <2>3. Exclusive'
    BY <1>1, NothingTaken
  <2> QED
    BY <2>1, <2>2, <2>3
<1>3. CASE UNCHANGED listVars
  <2>1. UsedInv' /\ ZeroedWhenFree' /\ ListInv'
    BY <1>1, <1>3, NothingMoves DEF Moves, listVars
  <2> QED
    BY <1>1, <1>2, <1>3, <2>1 DEF listVars
<1>4. CASE ~UNCHANGED listVars
  <2>1. PICK b \in BlocksOf(type) \ ToSet(list[type]) :
          /\ list' = [list EXCEPT ![type] = Append(@, b)]
          /\ isUsed' = [isUsed EXCEPT ![b] = FALSE]
          /\ dirty' = [dirty EXCEPT ![b] = FALSE]
    BY <1>1, <1>4 DEF AllocateInternal
  <2>2. b \in Blocks /\ TypeOf(b) = type /\ b \notin ToSet(list[TypeOf(b)])
    BY <1>1, PoolAssumption DEF Blocks, Types, BlocksOf, TypeOf
  <2>3. ~Owned(b)
    BY <1>1, <2>2 DEF UsedInv, Listed
  <2>s. list[type] \in Seq(Blocks)
    BY <1>1
  <2>a. /\ Append(list[type], b) \in Seq(Blocks)
        /\ ToSet(Append(list[type], b)) = ToSet(list[type]) \cup {b}
    <3> HIDE DEF type
    <3> QED
      BY ONLY <2>2, <2>s, AppendFacts
  <2>4. list' \in [Types -> Seq(Blocks)] /\ isUsed' \in [Blocks -> BOOLEAN]
        /\ dirty' \in [Blocks -> BOOLEAN]
    <3> HIDE DEF type
    <3> QED
      BY <2>1, <2>2, <2>a
  <2>5. ToSet(list'[type]) = ToSet(list[type]) \cup {b}
        /\ \A t \in Types \ {type} : ToSet(list'[t]) = ToSet(list[t])
    BY <1>1, <2>1, <2>a
  <2>6. \A d \in Blocks : TypeOf(d) \in Types
    BY DEF TypeOf, Types
  <2>7. ListInv'
    BY <2>1, <2>2, <2>5 DEF ListInv
  <2>8. UsedInv'
    <3>1. \A d \in Blocks : (Owned(d)' <=> Owned(d)) /\ (Listed(d) => Listed(d)')
      BY <1>1, <2>5, <2>6 DEF Owned, Listed
    <3> QED
      BY <1>1, <2>1, <2>2, <2>3, <3>1 DEF UsedInv
  <2>9. ZeroedWhenFree'
    <3>1. \A d \in Blocks \ {b} : Listed(d)' <=> Listed(d)
      BY <2>2, <2>5, <2>6 DEF Listed
    <3> QED
      BY <2>1, <2>2, <3>1 DEF ZeroedWhenFree
  <2> QED
    BY <1>1, <1>2, <2>4, <2>7, <2>8, <2>9
<1> QED
  BY <1>3, <1>4

LEMMA FreerPopStep ==
  ASSUME Inv, FreerPop
  PROVE  Inv'
<1> DEFINE popped == Pop(freeRequests, Nil)
<1>1. /\ freeRequests' = popped.list
      /\ freer' = [freer EXCEPT !.pc = "work", !.item = popped.item]
      /\ freer.pc = "pop" /\ freeRequests.itemsCount > 0 /\ freer.item = Nil
      /\ freer \in Threads /\ allocator \in Threads
      /\ UNCHANGED <<list, isUsed, dirty, allocationRequests, running, allocator, main,
                     client, held>>
  BY DEF FreerPop, clientVars, listVars, ThreadInv, Inv, PoolTypeOK
<1>2. /\ \E f \in Slots : /\ freeRequests.slots[f] # Nil
                          /\ popped.item = freeRequests.slots[f]
                          /\ popped.list.slots = [freeRequests.slots EXCEPT ![f] = Nil]
      /\ popped.item \in Blocks
      /\ freeRequests' \in RequestLists(Blocks) /\ Counted(freeRequests')
  <2>1. Nil \notin Blocks /\ freeRequests \in RequestLists(Blocks) /\ Counted(freeRequests)
    BY NilIsNoItem DEF Inv, PoolTypeOK, CountInv
  <2> QED
    BY <1>1, <2>1, PopFacts
<1> HIDE DEF popped
<1>3. PICK f \in Slots : /\ freeRequests.slots[f] # Nil
                         /\ popped.item = freeRequests.slots[f]
                         /\ freeRequests'.slots = [freeRequests.slots EXCEPT ![f] = Nil]
  BY <1>1, <1>2
<1>4. /\ freer' \in Threads /\ freer'.item = freeRequests.slots[f] /\ freer'.pc = "work"
      /\ freer'.isRunning = freer.isRunning
  BY <1>1, <1>2, <1>3 DEF Threads
<1>5. /\ freeRequests.slots \in [Slots -> Blocks \cup {Nil}]
      /\ freeRequests'.slots[f] = Nil
      /\ \A i \in Slots \ {f} : freeRequests'.slots[i] = freeRequests.slots[i]
  BY <1>3 DEF Inv, PoolTypeOK, RequestLists, Slots
<1>6. PoolTypeOK'
  BY <1>1, <1>2, <1>4 DEF Inv, PoolTypeOK
<1>7. ListInv' /\ CallInv'
  BY <1>1 DEF Inv, ListInv, CallInv
<1>8. ThreadInv'
  BY <1>1, <1>2, <1>4 DEF Inv, ThreadInv, Threads
<1>9. StopInv'
  BY <1>1, <1>4 DEF Inv, StopInv
<1>10. CountInv'
  BY <1>1, <1>2 DEF Inv, CountInv, Counted, UsedSlots
<1>11. Exclusive'
  BY <1>1, <1>3, <1>4, <1>5 DEF Inv, Exclusive
<1>12. UsedInv'
  <2>1. ASSUME NEW b \in Blocks, Owned(b)'
        PROVE  Owned(b)
    BY <1>1, <1>3, <1>4, <1>5, <2>1, NilIsNoItem DEF Owned
  <2> QED
    BY <1>1, <2>1 DEF Inv, UsedInv, Listed
<1>13. ZeroedWhenFree'
  BY <1>1 DEF Inv, ZeroedWhenFree, Listed
<1> QED
  BY <1>6, <1>7, <1>8, <1>9, <1>10, <1>11, <1>12, <1>13 DEF Inv

LEMMA FreerWorkStep ==
  ASSUME Inv, FreerWork
  PROVE  Inv'
<1> DEFINE b == freer.item
<1>1. /\ freer.pc = "work" /\ b \in Blocks \cup {Nil}
      /\ freer' = [freer EXCEPT !.pc = IF freer.isRunning THEN "update" ELSE "check",
                                !.item = Nil]
      /\ freer \in Threads /\ allocator \in Threads
      /\ UNCHANGED <<list, allocationRequests, freeRequests, running, allocator, main,
                     client, held>>
      /\ \/ /\ b # Nil /\ isUsed' = [isUsed EXCEPT ![b] = FALSE]
            /\ dirty' = [dirty EXCEPT ![b] = FALSE]
         \/ UNCHANGED <<isUsed, dirty>>
  BY DEF FreerWork, FreeInternal, clientVars, listVars, ThreadInv, Inv, PoolTypeOK
<1>2. /\ freer' \in Threads /\ freer'.item = Nil /\ freer'.pc \in {"update", "check"}
      /\ freer'.isRunning = freer.isRunning
  BY <1>1 DEF Threads
<1>3. PoolTypeOK'
  <2>1. isUsed' \in [Blocks -> BOOLEAN] /\ dirty' \in [Blocks -> BOOLEAN]
    BY <1>1 DEF Inv, PoolTypeOK
  <2> QED
    BY <1>1, <1>2, <2>1 DEF Inv, PoolTypeOK
<1>4. ListInv' /\ CallInv'
  BY <1>1 DEF Inv, ListInv, CallInv
<1>5. ThreadInv'
  BY <1>1, <1>2 DEF Inv, ThreadInv, Threads
<1>6. StopInv'
  BY <1>1, <1>2 DEF Inv, StopInv
<1>7. CountInv'
  BY <1>1 DEF Inv, CountInv, Counted, UsedSlots
<1>8. Exclusive'
  <2>1. \A c \in Clients : Nil \notin held[c]
    BY NilIsNoItem DEF Inv, PoolTypeOK
  <2> QED
    BY <1>1, <1>2, <2>1 DEF Inv, Exclusive
<1>9. UsedInv'
  <2>1. ASSUME NEW d \in Blocks, Owned(d)'
        PROVE  Owned(d) /\ d # b
    BY <1>1, <1>2, <2>1, NilIsNoItem DEF Owned, Inv, Exclusive
  <2>2. ASSUME NEW d \in Blocks, d # b
        PROVE  isUsed'[d] = isUsed[d]
    BY <1>1, <2>2 DEF Inv, PoolTypeOK
  <2>3. ASSUME NEW d \in Blocks, Owned(d)'
        PROVE  isUsed'[d] /\ (main' # "gone" => Listed(d)')
    <3>1. isUsed[d] /\ (main # "gone" => Listed(d)) /\ isUsed'[d] = isUsed[d]
      BY <2>1, <2>2, <2>3 DEF Inv, UsedInv
    <3> QED
      BY <1>1, <3>1 DEF Listed
  <2> QED
    BY <2>3 DEF UsedInv
<1>10. ZeroedWhenFree'
  <2>1. ASSUME NEW d \in Blocks
        PROVE  \/ isUsed'[d] = isUsed[d] /\ dirty'[d] = dirty[d]
               \/ ~dirty'[d]
    BY <1>1 DEF Inv, PoolTypeOK
  <2> QED
    BY <1>1, <2>1 DEF Inv, ZeroedWhenFree, Listed
<1> QED
  BY <1>3, <1>4, <1>5, <1>6, <1>7, <1>8, <1>9, <1>10 DEF Inv

\* The memory goes; whoever still has a block keeps its address.
LEMMA ReleaseStep ==
  ASSUME Inv, FreeAllocations
  PROVE  Inv'
<1>1. /\ main = "release" /\ main' = "gone" /\ list' = [type \in Types |-> <<>>]
      /\ UNCHANGED <<isUsed, dirty, allocationRequests, freeRequests, running, allocator,
                     freer, client, held>>
  BY DEF FreeAllocations, clientVars
<1>2. /\ PoolTypeOK' /\ CallInv' /\ ThreadInv' /\ CountInv'
  BY <1>1 DEF Inv, PoolTypeOK, CallInv, ThreadInv, CountInv, Counted, UsedSlots
<1>3. StopInv'
  BY <1>1 DEF Inv, StopInv
<1>4. Exclusive'
  BY <1>1, NothingTaken
<1>5. UsedInv'
  <2>1. ASSUME NEW b \in Blocks, Owned(b)'
        PROVE  isUsed'[b]
    <3>1. isUsed[b]
      BY <1>1, <2>1 DEF Owned, Inv, UsedInv
    <3> QED
      BY <1>1, <3>1
  <2> QED
    BY <1>1, <2>1 DEF UsedInv
<1>6. ZeroedWhenFree' /\ ListInv'
  <2>1. \A type \in Types : ToSet(list'[type]) = {}
    BY <1>1 DEF ToSet
  <2>2. \A b \in Blocks : TypeOf(b) \in Types
    BY DEF TypeOf, Types
  <2> QED
    BY <2>1, <2>2 DEF ZeroedWhenFree, ListInv, Listed
<1> QED
  BY <1>2, <1>3, <1>4, <1>5, <1>6 DEF Inv

-----------------------------------------------------------------------------
(* The callers.                                                            *)

\* A call that goes on, or ends without a block.
Proceeds(c) ==
    /\ c \in Clients /\ main = "serve" /\ UNCHANGED main
    /\ \E k \in Calls : /\ client' = [client EXCEPT ![c] = k]
                        /\ k.block # Nil <=> k.pc = "free"
                        /\ k.pc \in {"insert", "poll"} => k.type \in Types

LEMMA ProceedsFacts ==
  ASSUME Inv, NEW c, Proceeds(c)
  PROVE  client' \in [Clients -> Calls] /\ CallInv'
<1>1. PICK k \in Calls : /\ client' = [client EXCEPT ![c] = k]
                         /\ k.block # Nil <=> k.pc = "free"
                         /\ k.pc \in {"insert", "poll"} => k.type \in Types
  BY DEF Proceeds
<1>2. client \in [Clients -> Calls] /\ CallInv /\ c \in Clients
      /\ main = "serve" /\ main' = "serve"
  BY DEF Inv, PoolTypeOK, Proceeds
<1>3. client' \in [Clients -> Calls]
  BY <1>1, <1>2
<1>4. ASSUME NEW d \in Clients
      PROVE  /\ client'[d].block # Nil <=> client'[d].pc = "free"
             /\ client'[d].pc \in {"insert", "poll"} => client'[d].type \in Types
  <2>1. CASE d = c
    BY <1>1, <1>2, <2>1
  <2>2. CASE d # c
    <3>1. client'[d] = client[d]
      BY <1>1, <1>2, <2>2
    <3> QED
      BY <1>2, <3>1 DEF CallInv
  <2> QED
    BY <2>1, <2>2
<1> QED
  BY <1>2, <1>3, <1>4 DEF CallInv

LEMMA NoCallFacts ==
  NoCall \in Calls /\ NoCall.block = Nil /\ NoCall.pc = "idle"
BY PoolAssumption DEF NoCall, Calls

\* The next try, or the end of the call.
LEMMA TryAgainFacts ==
  ASSUME Inv, NEW c \in Clients, TryAgain(c), client[c].pc # "idle", UNCHANGED main
  PROVE  Proceeds(c) /\ client' = [client EXCEPT ![c] = client'[c]]
         /\ (client'[c].block = client[c].block \/ client'[c] = NoCall)
<1>1. client[c] \in Calls /\ main = "serve" /\ client \in [Clients -> Calls]
      /\ (client[c].block # Nil <=> client[c].pc = "free")
      /\ (client[c].pc \in {"insert", "poll"} => client[c].type \in Types)
  BY NoCallFacts DEF Inv, PoolTypeOK, CallInv
<1>2. CASE client' = [client EXCEPT ![c] = NoCall]
  BY <1>1, <1>2, NoCallFacts DEF Proceeds
<1>3. CASE /\ client[c].tries # MaxTries
           /\ client' = [client EXCEPT ![c].tries = @ + 1]
  <2> DEFINE k == [client[c] EXCEPT !.tries = @ + 1]
  <2>1. client[c].tries + 1 \in 0 .. MaxTries
    BY <1>1, <1>3, PoolAssumption DEF Calls
  <2>2. k \in Calls /\ k.block = client[c].block /\ k.pc = client[c].pc
        /\ k.type = client[c].type
    BY <1>1, <2>1 DEF Calls
  <2>3. client' = [client EXCEPT ![c] = k]
    BY <1>1, <1>3 DEF Calls
  <2> HIDE DEF k
  <2>4. client'[c] = k
    BY <1>1, <2>3
  <2> QED
    BY <1>1, <2>2, <2>3, <2>4 DEF Proceeds
<1> QED
  BY <1>2, <1>3 DEF TryAgain, Return

\* What a step of a caller leaves to itself.
Others == <<running, allocator, freer, main>>

LEMMA OthersFacts ==
  ASSUME Inv, UNCHANGED Others
  PROVE  /\ running' \in BOOLEAN /\ allocator' \in Threads /\ freer' \in Threads
         /\ main' \in {"filled", "window", "running", "failed", "serve", "stop",
                      "join allocator", "join freer", "release", "gone"}
         /\ main = "serve" => StopInv'
         /\ /\ allocationRequests.itemsCount > 0 => allocationRequests'.itemsCount > 0
            /\ freeRequests.itemsCount > 0 => freeRequests'.itemsCount > 0
            => ThreadInv'
<1>1. UNCHANGED <<running, allocator, freer, main>>
  BY DEF Others
<1>2. /\ running' \in BOOLEAN /\ allocator' \in Threads /\ freer' \in Threads
      /\ main' \in {"filled", "window", "running", "failed", "serve", "stop",
                   "join allocator", "join freer", "release", "gone"}
  BY <1>1 DEF Inv, PoolTypeOK
<1>3. ASSUME main = "serve"
      PROVE  StopInv'
  <2>1. running /\ freer.isRunning /\ freer.pc # "exit"
    BY <1>3 DEF Inv, StopInv
  <2> QED
    BY <1>1, <1>3, <2>1 DEF StopInv
<1>4. ASSUME allocationRequests.itemsCount > 0 => allocationRequests'.itemsCount > 0,
             freeRequests.itemsCount > 0 => freeRequests'.itemsCount > 0
      PROVE  ThreadInv'
  BY <1>1, <1>4 DEF Inv, ThreadInv
<1> QED
  BY <1>2, <1>3, <1>4

\* Its client c is given an unused block, which nobody had.
LEMMA FindFacts ==
  ASSUME Inv, NEW c \in Clients, NEW type \in Types, FindFreeSlot(c, type),
         Proceeds(c), client'[c].block = Nil, client[c].block = Nil,
         UNCHANGED <<allocationRequests, freeRequests, Others>>
  PROVE  Inv'
<1>1. UNCHANGED <<allocationRequests, freeRequests, running, allocator, freer, main>>
  BY DEF Others
<1>2. PICK b :
        /\ b \in ToSet(list[type]) /\ ~isUsed[b]
        /\ isUsed' = [isUsed EXCEPT ![b] = TRUE]
        /\ dirty' = [dirty EXCEPT ![b] = TRUE]
        /\ held' = [held EXCEPT ![c] = @ \cup {b}]
        /\ UNCHANGED list
  BY DEF FindFreeSlot, ToSet
<1>4. b \in Blocks /\ TypeOf(b) = type
  BY <1>2, PoolAssumption DEF Inv, ListInv, Types, BlocksOf, Blocks, TypeOf
<1>6. ~Owned(b)
  BY <1>4, <1>2 DEF Inv, UsedInv
<1>7. \A d \in Clients : client'[d].block = client[d].block
  BY DEF Proceeds, Inv, PoolTypeOK
<1>8. \A d \in Clients : held'[d] = IF d = c THEN held[d] \cup {b} ELSE held[d]
  BY <1>2 DEF Inv, PoolTypeOK
<1>9. Exclusive'
  <2>1. ASSUME NEW d \in Clients, b \in held[d] \/ client[d].block = b
        PROVE  FALSE
    BY <1>6, <2>1 DEF Owned
  <2>2. freer.item # b /\ \A j \in Slots : freeRequests.slots[j] # b
    BY <1>6 DEF Owned
  <2>3. ASSUME NEW d \in Clients, NEW e \in Clients, NEW x \in held'[d]
        PROVE  /\ x \in held'[e] => d = e
               /\ client'[e].block # x
               /\ freer'.item # x /\ \A j \in Slots : freeRequests'.slots[j] # x
    <3>1. CASE x = b
      BY <1>1, <1>7, <1>8, <2>1, <2>2, <3>1
    <3>2. CASE x # b
      <4>1. x \in held[d] /\ (x \in held'[e] <=> x \in held[e])
        BY <1>8, <3>2
      <4> QED
        BY <1>1, <1>7, <4>1 DEF Inv, Exclusive
    <3> QED
      BY <3>1, <3>2
  <2>4. ASSUME NEW d \in Clients, NEW e \in Clients, client'[d].block # Nil
        PROVE  /\ client'[d].block = client'[e].block => d = e
               /\ freer'.item # client'[d].block
               /\ \A j \in Slots : freeRequests'.slots[j] # client'[d].block
    BY <1>1, <1>7, <2>4 DEF Inv, Exclusive
  <2>5. ASSUME NEW j \in Slots, NEW m \in Slots, freeRequests'.slots[j] # Nil
        PROVE  /\ freeRequests'.slots[j] = freeRequests'.slots[m] => j = m
               /\ freer'.item # freeRequests'.slots[j]
    BY <1>1, <2>5 DEF Inv, Exclusive
  <2> QED
    BY <2>3, <2>4, <2>5 DEF Exclusive
<1>10. UsedInv'
  <2>1. ASSUME NEW d \in Blocks, Owned(d)'
        PROVE  isUsed'[d] /\ (main' # "gone" => Listed(d)')
    <3>1. Owned(d) \/ d = b
      BY <1>1, <1>7, <1>8, <2>1 DEF Owned
    <3>2. Listed(b)' /\ isUsed'[b]
      BY <1>2, <1>4 DEF Listed, Inv, PoolTypeOK
    <3>3. Owned(d) => isUsed[d] /\ (main # "gone" => Listed(d))
      BY DEF Inv, UsedInv
    <3>4. Listed(d)' <=> Listed(d)
      BY <1>2 DEF Listed
    <3>5. isUsed[d] => isUsed'[d]
      BY <1>4, <1>2 DEF Inv, PoolTypeOK
    <3> QED
      BY <1>1, <3>1, <3>2, <3>3, <3>4, <3>5
  <2> QED
    BY <2>1 DEF UsedInv
<1>11. ZeroedWhenFree'
  <2>1. ASSUME NEW d \in Blocks, ~isUsed'[d]
        PROVE  ~isUsed[d] /\ dirty'[d] = dirty[d]
    BY <1>4, <1>2, <2>1 DEF Inv, PoolTypeOK
  <2> QED
    BY <1>2, <2>1 DEF Inv, ZeroedWhenFree, Listed
<1>12. ListInv' /\ CountInv'
  BY <1>1, <1>2 DEF Inv, ListInv, CountInv, Counted, UsedSlots
<1>13. PoolTypeOK'
  <2>1. /\ isUsed' \in [Blocks -> BOOLEAN] /\ dirty' \in [Blocks -> BOOLEAN]
        /\ held' \in [Clients -> SUBSET Blocks]
    BY <1>4, <1>2 DEF Inv, PoolTypeOK
  <2> QED
    BY <1>1, <1>2, <2>1, ProceedsFacts, OthersFacts DEF Inv, PoolTypeOK
<1>14. ThreadInv' /\ StopInv' /\ CallInv'
  BY <1>1, ProceedsFacts, OthersFacts DEF Proceeds
<1> QED
  BY <1>9, <1>10, <1>11, <1>12, <1>13, <1>14 DEF Inv

\* The blocks stay where they are, but for one that client c may drop.
LEMMA StayFacts ==
  ASSUME Inv, NEW c \in Clients, Proceeds(c),
         client'[c].block = client[c].block \/ client'[c].block = Nil,
         UNCHANGED <<listVars, held, freeRequests, Others>>,
         allocationRequests' \in RequestLists(Types), Counted(allocationRequests'),
         allocationRequests.itemsCount > 0 => allocationRequests'.itemsCount > 0
  PROVE  Inv'
<1>1. UNCHANGED <<list, isUsed, dirty, held, freeRequests, running, allocator, freer, main>>
  BY DEF Others, listVars
<1>2. \A d \in Clients : client'[d].block = client[d].block \/ client'[d].block = Nil
  BY DEF Proceeds, Inv, PoolTypeOK
<1>3. Exclusive'
  <2>1. \A d \in Clients : Nil \notin held[d]
    BY NilIsNoItem DEF Inv, PoolTypeOK
  <2> QED
    BY <1>1, <1>2, <2>1 DEF Inv, Exclusive
<1>4. UsedInv'
  <2>1. ASSUME NEW b \in Blocks, Owned(b)'
        PROVE  Owned(b)
    BY <1>1, <1>2, <2>1, NilIsNoItem DEF Owned
  <2> QED
    BY <1>1, <2>1 DEF Inv, UsedInv, Listed
<1>5. ZeroedWhenFree' /\ ListInv'
  BY <1>1 DEF Inv, ZeroedWhenFree, ListInv, Listed
<1>6. CountInv'
  BY <1>1 DEF Inv, CountInv, Counted, UsedSlots
<1>7. PoolTypeOK' /\ CallInv'
  BY <1>1, ProceedsFacts DEF Inv, PoolTypeOK
<1>8. ThreadInv' /\ StopInv'
  BY <1>1, OthersFacts DEF Proceeds
<1> QED
  BY <1>3, <1>4, <1>5, <1>6, <1>7, <1>8 DEF Inv

LEMMA AllocateStep ==
  ASSUME Inv, NEW c \in Clients, NEW type \in Types, Allocate(c, type)
  PROVE  Inv'
<1>1. /\ main = "serve" /\ client[c] = NoCall /\ client \in [Clients -> Calls]
      /\ UNCHANGED <<allocationRequests, freeRequests, running, allocator, freer, main>>
  BY DEF Allocate, Inv, PoolTypeOK
<1>2. UNCHANGED <<allocationRequests, freeRequests, Others>>
  BY <1>1 DEF Others
<1>3. CASE FindFreeSlot(c, type) /\ UNCHANGED client
  <2>1. client' = [client EXCEPT ![c] = NoCall]
    BY <1>1, <1>3
  <2>2. Proceeds(c) /\ client'[c].block = Nil /\ client[c].block = Nil
    BY <1>1, <1>3, <2>1, NoCallFacts DEF Proceeds
  <2> QED
    BY <1>2, <1>3, <2>2, FindFacts
<1>4. CASE /\ client' = [client EXCEPT ![c] =
                          [NoCall EXCEPT !.pc = "insert", !.type = type]]
           /\ UNCHANGED <<listVars, held>>
  <2> DEFINE k == [NoCall EXCEPT !.pc = "insert", !.type = type]
  <2>1. k \in Calls /\ k.block = Nil /\ k.pc = "insert" /\ k.type = type
    BY NoCallFacts DEF Calls
  <2>2. Proceeds(c) /\ client'[c].block = Nil
    <3> HIDE DEF k
    <3>1. client' = [client EXCEPT ![c] = k]
      BY <1>4 DEF k
    <3> QED
      BY <1>1, <2>1, <3>1 DEF Proceeds
  <2>3. /\ allocationRequests' \in RequestLists(Types) /\ Counted(allocationRequests')
        /\ allocationRequests' = allocationRequests
    BY <1>1 DEF Inv, PoolTypeOK, CountInv, Counted, UsedSlots
  <2> QED
    BY <1>2, <1>4, <2>2, <2>3, StayFacts
<1> QED
  BY <1>3, <1>4 DEF Allocate

LEMMA InsertAllocationStep ==
  ASSUME Inv, NEW c \in Clients, InsertAllocation(c)
  PROVE  Inv'
<1>1. /\ client[c].pc = "insert" /\ main = "serve" /\ client \in [Clients -> Calls]
      /\ client[c].type \in Types /\ client[c].block = Nil
      /\ UNCHANGED <<listVars, freeRequests, running, allocator, freer, main, held>>
  BY NoCallFacts DEF InsertAllocation, Inv, PoolTypeOK, CallInv
<1>2. UNCHANGED <<listVars, held, freeRequests, Others>> /\ UNCHANGED main
  BY <1>1 DEF Others
<1>a. /\ allocationRequests \in RequestLists(Types) /\ Counted(allocationRequests)
      /\ Nil \notin Types
  BY NilIsNoItem DEF Inv, PoolTypeOK, CountInv
<1>3. CASE /\ ~IsFull(allocationRequests)
           /\ allocationRequests' = Insert(allocationRequests, client[c].type)
           /\ IF client[c].tries = MaxTries
              THEN Return(c)
              ELSE client' = [client EXCEPT ![c] = [@ EXCEPT !.pc = "poll", !.tries = 1]]
  <2>1. /\ allocationRequests' \in RequestLists(Types) /\ Counted(allocationRequests')
        /\ allocationRequests'.itemsCount = allocationRequests.itemsCount + 1
    BY <1>1, <1>3, <1>a, InsertFacts
  <2>2. allocationRequests.itemsCount > 0 => allocationRequests'.itemsCount > 0
    BY <2>1, <1>a, PoolAssumption DEF RequestLists
  <2> DEFINE k == [client[c] EXCEPT !.pc = "poll", !.tries = 1]
  <2>3. k \in Calls /\ k.block = Nil /\ k.pc = "poll" /\ k.type \in Types
    <3>1. 1 \in 0 .. MaxTries
      BY PoolAssumption
    <3>2. client[c] \in Calls
      BY <1>1
    <3> QED
      BY <1>1, <3>1, <3>2 DEF Calls
  <2>4. \/ client' = [client EXCEPT ![c] = NoCall]
        \/ client' = [client EXCEPT ![c] = k]
    BY <1>3 DEF Return
  <2> HIDE DEF k
  <2>5. Proceeds(c) /\ client'[c].block = Nil
    BY <1>1, <2>3, <2>4, NoCallFacts DEF Proceeds
  <2> QED
    BY <1>2, <2>1, <2>2, <2>5, StayFacts
<1>4. CASE TryAgain(c) /\ UNCHANGED allocationRequests
  <2>1. Proceeds(c) /\ (client'[c].block = client[c].block \/ client'[c].block = Nil)
    BY <1>1, <1>2, <1>4, TryAgainFacts, NoCallFacts
  <2>2. allocationRequests' \in RequestLists(Types) /\ Counted(allocationRequests')
    BY <1>4, <1>a DEF Counted, UsedSlots
  <2> QED
    BY <1>2, <1>4, <2>1, <2>2, StayFacts
<1> QED
  BY <1>3, <1>4 DEF InsertAllocation

LEMMA PollStep ==
  ASSUME Inv, NEW c \in Clients, Poll(c)
  PROVE  Inv'
<1>1. /\ client[c].pc = "poll" /\ main = "serve" /\ client \in [Clients -> Calls]
      /\ client[c].type \in Types /\ client[c].block = Nil
      /\ UNCHANGED <<allocationRequests, freeRequests, running, allocator, freer, main>>
  BY NoCallFacts DEF Poll, Inv, PoolTypeOK, CallInv
<1>2. UNCHANGED <<allocationRequests, freeRequests, Others>> /\ UNCHANGED main
  BY <1>1 DEF Others
<1>3. CASE FindFreeSlot(c, client[c].type) /\ Return(c)
  <2>1. Proceeds(c) /\ client'[c].block = Nil
    BY <1>1, <1>3, NoCallFacts DEF Proceeds, Return
  <2>2. PICK type \in Types : type = client[c].type
    BY <1>1
  <2> QED
    BY <1>1, <1>2, <1>3, <2>1, <2>2, FindFacts
<1>4. CASE TryAgain(c) /\ UNCHANGED <<listVars, held>>
  <2>1. Proceeds(c) /\ (client'[c].block = client[c].block \/ client'[c].block = Nil)
    BY <1>1, <1>2, <1>4, TryAgainFacts, NoCallFacts
  <2>2. /\ allocationRequests' \in RequestLists(Types) /\ Counted(allocationRequests')
        /\ allocationRequests' = allocationRequests
    BY <1>1 DEF Inv, PoolTypeOK, CountInv, Counted, UsedSlots
  <2> QED
    BY <1>2, <1>4, <2>1, <2>2, StayFacts
<1> QED
  BY <1>3, <1>4 DEF Poll

LEMMA FreeStep ==
  ASSUME Inv, NEW c \in Clients, NEW b \in held[c], Free(c, b)
  PROVE  Inv'
<1> DEFINE k == [NoCall EXCEPT !.pc = "free", !.block = b]
<1>1. /\ main = "serve" /\ client[c] = NoCall /\ b \in Blocks /\ b # Nil
      /\ held' = [held EXCEPT ![c] = @ \ {b}] /\ client' = [client EXCEPT ![c] = k]
      /\ UNCHANGED <<list, isUsed, dirty, allocationRequests, freeRequests, running,
                     allocator, freer, main>>
  BY NilIsNoItem DEF Free, Inv, PoolTypeOK, listVars
<1>2. k \in Calls /\ k.block = b /\ k.pc = "free"
  BY <1>1, NoCallFacts DEF Calls
<1> HIDE DEF k
<1>3. Proceeds(c) /\ UNCHANGED Others
  BY <1>1, <1>2 DEF Proceeds, Others
<1>4. /\ \A d \in Clients \ {c} : client'[d].block = client[d].block /\ held'[d] = held[d]
      /\ client'[c].block = b /\ held'[c] = held[c] \ {b} /\ client[c].block = Nil
  BY <1>1, <1>2, NoCallFacts DEF Inv, PoolTypeOK
<1>5. Exclusive'
  BY <1>1, <1>4 DEF Inv, Exclusive
<1>6. UsedInv'
  <2>1. ASSUME NEW d \in Blocks, Owned(d)'
        PROVE  Owned(d)
    BY <1>1, <1>4, <2>1 DEF Owned
  <2> QED
    BY <1>1, <2>1 DEF Inv, UsedInv, Listed
<1>7. ZeroedWhenFree' /\ ListInv' /\ CountInv'
  BY <1>1 DEF Inv, ZeroedWhenFree, ListInv, CountInv, Counted, UsedSlots, Listed
<1>8. PoolTypeOK' /\ CallInv'
  <2>1. held' \in [Clients -> SUBSET Blocks]
    BY <1>1 DEF Inv, PoolTypeOK
  <2> QED
    BY <1>1, <1>3, <2>1, ProceedsFacts DEF Inv, PoolTypeOK
<1>9. ThreadInv' /\ StopInv'
  BY <1>1, <1>3, OthersFacts
<1> QED
  BY <1>5, <1>6, <1>7, <1>8, <1>9 DEF Inv

LEMMA InsertFreeStep ==
  ASSUME Inv, NEW c \in Clients, InsertFree(c)
  PROVE  Inv'
<1>1. /\ client[c].pc = "free" /\ main = "serve" /\ client \in [Clients -> Calls]
      /\ UNCHANGED <<listVars, allocationRequests, running, allocator, freer, main, held>>
  BY NoCallFacts DEF InsertFree, Inv, PoolTypeOK, CallInv
<1>a. /\ freeRequests \in RequestLists(Blocks) /\ Counted(freeRequests)
      /\ allocationRequests \in RequestLists(Types) /\ Counted(allocationRequests)
      /\ Nil \notin Blocks
  BY NilIsNoItem DEF Inv, PoolTypeOK, CountInv
<1>2. UNCHANGED main /\ UNCHANGED Others /\ UNCHANGED listVars /\ UNCHANGED held
  BY <1>1 DEF Others
<1>3. CASE TryAgain(c) /\ UNCHANGED freeRequests
  <2>1. Proceeds(c) /\ (client'[c].block = client[c].block \/ client'[c].block = Nil)
    BY <1>1, <1>2, <1>3, TryAgainFacts, NoCallFacts
  <2>2. /\ allocationRequests' \in RequestLists(Types) /\ Counted(allocationRequests')
        /\ allocationRequests' = allocationRequests
    BY <1>1, <1>a DEF Counted, UsedSlots
  <2> QED
    BY <1>2, <1>3, <2>1, <2>2, StayFacts
<1>4. CASE /\ ~IsFull(freeRequests)
           /\ freeRequests' = Insert(freeRequests, client[c].block)
           /\ Return(c)
  <2>1. PICK b \in Blocks : b = client[c].block
    BY <1>1 DEF Inv, PoolTypeOK, CallInv, Calls
  <2>2. /\ \E f \in Slots : /\ freeRequests.slots[f] = Nil
                            /\ freeRequests'.slots = [freeRequests.slots EXCEPT ![f] = b]
        /\ freeRequests'.itemsCount = freeRequests.itemsCount + 1
        /\ freeRequests' \in RequestLists(Blocks) /\ Counted(freeRequests')
    BY <1>4, <1>a, <2>1, InsertFacts
  <2>3. PICK f \in Slots : /\ freeRequests.slots[f] = Nil
                           /\ freeRequests'.slots = [freeRequests.slots EXCEPT ![f] = b]
    BY <2>2
  <2>4. /\ freeRequests'.slots[f] = b
        /\ \A i \in Slots \ {f} : freeRequests'.slots[i] = freeRequests.slots[i]
    BY <1>a, <2>3 DEF RequestLists, Slots
  <2>5. /\ Proceeds(c) /\ client'[c].block = Nil
        /\ \A d \in Clients \ {c} : client'[d].block = client[d].block
    BY <1>1, <1>4, NoCallFacts DEF Return, Proceeds
  <2>6. UNCHANGED <<list, isUsed, dirty, allocationRequests, running, allocator, freer,
                    main, held>>
    BY <1>1 DEF listVars
  <2>7. Exclusive'
    <3>1. /\ client[c].block = b /\ b # Nil /\ freer.item # b
          /\ \A d \in Clients : b \notin held[d]
          /\ \A d \in Clients \ {c} : client[d].block # b
          /\ \A i \in Slots : freeRequests.slots[i] # b
      BY <1>a, <2>1 DEF Inv, Exclusive
    <3>2. \A d \in Clients : Nil \notin held[d]
      BY <1>a DEF Inv, PoolTypeOK
    <3>3. ASSUME NEW d \in Clients, NEW e \in Clients, NEW x \in held'[d]
          PROVE  /\ x \in held'[e] => d = e
                 /\ client'[e].block # x
                 /\ freer'.item # x /\ \A j \in Slots : freeRequests'.slots[j] # x
      <4>1. x \in held[d] /\ x # b /\ x # Nil
        BY <2>6, <3>1, <3>2, <3>3
      <4> QED
        BY <2>4, <2>5, <2>6, <4>1 DEF Inv, Exclusive
    <3>4. ASSUME NEW d \in Clients, NEW e \in Clients, client'[d].block # Nil
          PROVE  /\ client'[d].block = client'[e].block => d = e
                 /\ freer'.item # client'[d].block
                 /\ \A j \in Slots : freeRequests'.slots[j] # client'[d].block
      <4>1. d # c /\ client'[d].block = client[d].block /\ client[d].block # b
        BY <2>5, <3>1, <3>4
      <4> QED
        BY <2>4, <2>5, <2>6, <3>4, <4>1 DEF Inv, Exclusive
    <3>5. ASSUME NEW j \in Slots, NEW m \in Slots, freeRequests'.slots[j] # Nil
          PROVE  /\ freeRequests'.slots[j] = freeRequests'.slots[m] => j = m
                 /\ freer'.item # freeRequests'.slots[j]
      BY <2>4, <2>6, <3>1, <3>5 DEF Inv, Exclusive
    <3> QED
      BY <3>3, <3>4, <3>5 DEF Exclusive
  <2>8. UsedInv'
    <3>1. ASSUME NEW d \in Blocks, Owned(d)'
          PROVE  Owned(d)
      BY <1>a, <2>1, <2>4, <2>5, <2>6, <3>1 DEF Owned
    <3> QED
      BY <2>6, <3>1 DEF Inv, UsedInv, Listed
  <2>9. ZeroedWhenFree' /\ ListInv'
    BY <2>6 DEF Inv, ZeroedWhenFree, ListInv, Listed
  <2>10. CountInv'
    BY <1>a, <2>2, <2>6 DEF CountInv, Counted, UsedSlots
  <2>11. PoolTypeOK' /\ CallInv'
    BY <1>a, <2>2, <2>5, <2>6, ProceedsFacts DEF Inv, PoolTypeOK
  <2>12. freeRequests.itemsCount > 0 => freeRequests'.itemsCount > 0
    BY <1>a, <2>2, PoolAssumption DEF RequestLists
  <2>13. ThreadInv' /\ StopInv'
    BY <1>1, <1>2, <2>12, OthersFacts
  <2> QED
    BY <2>7, <2>8, <2>9, <2>10, <2>11, <2>13 DEF Inv
<1> QED
  BY <1>3, <1>4 DEF InsertFree

-----------------------------------------------------------------------------
(* The specification.                                                      *)

LEMMA ListedOnce ==
  ASSUME NEW S, IsFiniteSet(S)
  PROVE  SetToSeq(S) \in Seq(S) /\ ToSet(SetToSeq(S)) = S
<1> DEFINE I == 1 .. Cardinality(S)
           s == SetToSeq(S)
<1>1. Cardinality(S) \in Nat /\ ExistsBijection(I, S)
  BY FS_CardinalityType
<1>2. \E f \in [I -> S] : IsInjective(f)
  BY <1>1 DEF ExistsBijection, Bijection, Injection, IsInjective
<1>3. s \in [I -> S] /\ IsInjective(s)
  BY <1>2 DEF SetToSeq
<1>4. IsFiniteSet(I) /\ Cardinality(I) = Cardinality(S)
  BY <1>1, FS_Interval
<1> HIDE DEF s
<1>5. s \in Injection(I, S)
  BY <1>3 DEF Injection, IsInjective
<1>6. s \in Surjection(I, S)
  BY <1>4, <1>5, FS_Injection
<1>7. ToSet(s) = S
  BY <1>3, <1>6 DEF ToSet, Surjection
<1>8. s \in Seq(S)
  BY <1>1, <1>3
<1> QED
  BY <1>7, <1>8 DEF s

LEMMA InitInv == Init => Inv
<1> SUFFICES ASSUME Init
             PROVE  Inv
  OBVIOUS
<1>1. \A type \in Types :
        /\ list[type] \in Seq(Blocks)
        /\ ToSet(list[type]) \subseteq BlocksOf(type)
  <2>1. ASSUME NEW type \in Types
        PROVE  /\ list[type] \in Seq(Blocks)
               /\ ToSet(list[type]) \subseteq BlocksOf(type)
    <3> DEFINE S == InitialBlocks \cap BlocksOf(type)
    <3>1. S \subseteq Blocks /\ IsFiniteSet(S)
      BY PoolAssumption, FS_Subset
    <3>2. list[type] \in Seq(S)
      BY <3>1, ListedOnce DEF Init
    <3> QED
      BY <3>1, <3>2 DEF ToSet
  <2> QED
    BY <2>1
<1>2. /\ EmptyList \in RequestLists(Blocks) /\ EmptyList \in RequestLists(Types)
      /\ Counted(EmptyList) /\ EmptyList.itemsCount = 0
      /\ \A i \in Slots : EmptyList.slots[i] = Nil
  BY EmptyListFacts DEF EmptyList, Slots
<1>3. PoolTypeOK
  <2>1. list \in [Types -> Seq(Blocks)]
    BY <1>1 DEF Init
  <2>2. isUsed \in [Blocks -> BOOLEAN] /\ dirty \in [Blocks -> BOOLEAN]
    BY DEF Init
  <2>3. allocator \in Threads /\ freer \in Threads
    BY DEF Init, Threads, NewThread
  <2>4. client \in [Clients -> Calls] /\ held \in [Clients -> SUBSET Blocks]
    BY NoCallFacts DEF Init
  <2> QED
    BY <1>2, <2>1, <2>2, <2>3, <2>4 DEF Init, PoolTypeOK
<1>4. ListInv /\ CallInv
  BY <1>1, NoCallFacts DEF Init, ListInv, CallInv
<1>5. ThreadInv /\ StopInv
  BY DEF Init, ThreadInv, StopInv, NewThread
<1>6. CountInv
  BY <1>2 DEF Init, CountInv
<1>7. /\ \A c \in Clients : held[c] = {} /\ client[c].block = Nil
      /\ \A i \in Slots : freeRequests.slots[i] = Nil
      /\ freer.item = Nil
  BY <1>2, NoCallFacts DEF Init, NewThread
<1>8. Exclusive /\ UsedInv
  BY <1>7, NilIsNoItem DEF Exclusive, UsedInv, Owned
<1>9. ZeroedWhenFree
  BY DEF Init, ZeroedWhenFree
<1> QED
  BY <1>3, <1>4, <1>5, <1>6, <1>8, <1>9 DEF Inv

LEMMA StutterStep ==
  ASSUME Inv, UNCHANGED vars
  PROVE  Inv'
<1>1. UNCHANGED <<Rested, running, allocator, freer, main>>
  BY DEF vars, Rested, clientVars
<1>2. PoolTypeOK' /\ Exclusive' /\ UsedInv' /\ ZeroedWhenFree' /\ ListInv' /\ CountInv'
  BY <1>1, RestedFacts DEF Inv, PoolTypeOK
<1>3. CallInv' /\ ThreadInv' /\ StopInv'
  BY <1>1 DEF Inv, CallInv, ThreadInv, StopInv, Rested
<1> QED
  BY <1>2, <1>3 DEF Inv

LEMMA InvStep == Inv /\ [Next]_vars => Inv'
<1> SUFFICES ASSUME Inv, [Next]_vars
             PROVE  Inv'
  OBVIOUS
<1>1. ASSUME NEW c \in Clients, ClientStart(c) \/ ClientStep(c)
      PROVE  Inv'
  BY <1>1, AllocateStep, FreeStep, InsertAllocationStep, PollStep, InsertFreeStep
  DEF ClientStart, ClientStep
<1>2. CASE AllocatorStep
  BY <1>2, LookStep, AllocatorPopStep, AllocatorWorkStep DEF AllocatorStep
<1>3. CASE FreerStep
  BY <1>3, LookStep, FreerPopStep, FreerWorkStep DEF FreerStep
<1>4. CASE Load \/ Unload \/ Stop
  BY <1>4, DriverStep, ReleaseStep DEF Stop
<1>5. CASE UNCHANGED vars
  BY <1>5, StutterStep
<1> QED
  BY <1>1, <1>2, <1>3, <1>4, <1>5 DEF Next

LEMMA Invariant == Spec => []Inv
  BY InitInv, InvStep, PTL DEF Spec

\* The pool's state keeps its shape (PoolManager.hpp, RequestList.hpp).
THEOREM PoolIsTyped == Spec => []PoolTypeOK
<1>1. Inv => PoolTypeOK
  BY DEF Inv
<1> QED
  BY Invariant, <1>1, PTL

\* A block has one owner, and is marked as used as long as it has one: however
\* many processors allocate and free, none is given another's block.
THEOREM BlocksHaveOneOwner == Spec => []OneOwner
<1>1. Inv => OneOwner
  <2> SUFFICES ASSUME Inv, NEW b \in Blocks
               PROVE  /\ \A x, y \in Places(b) : x = y
                      /\ Places(b) # {} => isUsed[b] /\ (main # "gone" => Listed(b))
    BY DEF OneOwner
  <2>1. \A x \in Places(b) :
          \/ \E c \in Clients : x = <<"held", c>> /\ b \in held[c]
          \/ \E c \in Clients : x = <<"call", c>> /\ client[c].block = b
          \/ \E i \in Slots : x = <<"slot", i>> /\ freeRequests.slots[i] = b
          \/ x = <<"freer", Nil>> /\ freer.item = b
    BY DEF Places, Slots
  <2>2. b # Nil
    BY NilIsNoItem
  <2>3. \A x, y \in Places(b) : x = y
    BY <2>1, <2>2 DEF Inv, Exclusive
  <2>4. Places(b) # {} => Owned(b)
    BY <2>1 DEF Owned
  <2> QED
    BY <2>3, <2>4 DEF Inv, UsedInv
<1> QED
  BY Invariant, <1>1, PTL

\* What can be handed out is zeroed, whoever wrote to it before.
THEOREM FreeBlocksAreZeroed == Spec => []ZeroedWhenFree
<1>1. Inv => ZeroedWhenFree
  BY DEF Inv
<1> QED
  BY Invariant, <1>1, PTL

\* The size of a list that a thread has read is still good when it pops.
THEOREM PopsFindRequests == Spec => []PopFindsRequest
<1>1. Inv => PopFindsRequest
  <2> SUFFICES ASSUME Inv
               PROVE  PopFindsRequest
    OBVIOUS
  <2>1. /\ allocationRequests.itemsCount = Cardinality(UsedSlots(allocationRequests))
        /\ freeRequests.itemsCount = Cardinality(UsedSlots(freeRequests))
    BY DEF Inv, CountInv, Counted
  <2>2. allocator.pc = "pop" => UsedSlots(allocationRequests) # {}
    BY <2>1, FS_EmptySet DEF Inv, ThreadInv
  <2>3. freer.pc = "pop" => UsedSlots(freeRequests) # {}
    BY <2>1, FS_EmptySet DEF Inv, ThreadInv
  <2> QED
    BY <2>1, <2>2, <2>3 DEF PopFindsRequest
<1> QED
  BY Invariant, <1>1, PTL

\* The lists are released when both threads are gone and nothing waits.
THEOREM ReleasedWhenQuiet == Spec => []QuietWhenReleased
<1>1. Inv => QuietWhenReleased
  <2> SUFFICES ASSUME Inv, main \in {"release", "gone"}
               PROVE  /\ allocator.pc = "exit" /\ freer.pc = "exit"
                      /\ UsedSlots(freeRequests) = {} /\ freer.item = Nil
    BY DEF QuietWhenReleased
  <2>1. allocator.pc = "exit" /\ freer.pc = "exit" /\ freeRequests.itemsCount = 0
    BY DEF Inv, StopInv
  <2>2. freer.item = Nil
    BY <2>1 DEF Inv, ThreadInv
  <2>3. UsedSlots(freeRequests) \in SUBSET Slots
    BY DEF UsedSlots, Slots
  <2>4. UsedSlots(freeRequests) = {}
    BY <2>1, <2>3, SlotsFinite, FS_EmptySet DEF Inv, CountInv, Counted
  <2> QED
    BY <2>1, <2>2, <2>4
<1> QED
  BY Invariant, <1>1, PTL

-----------------------------------------------------------------------------
(* The abstract allocator.  A request list and its thread together hold    *)
(* so many of each item; how many they hold of all items is the counter of *)
(* the list, and one while the thread has an item in hand.                 *)

Held(l, thread, Items) == [x \in Items |-> Count(l, x) + InHand(thread, x)]

Total(l, thread) == l.itemsCount + IF thread.item = Nil THEN 0 ELSE 1

HeldInv(l, thread, Items) ==
    /\ IsFiniteSet(Allocator!PendingItems(Held(l, thread, Items)))
    /\ Allocator!Pending(Held(l, thread, Items)) = Total(l, thread)

PendingInv ==
    /\ HeldInv(allocationRequests, allocator, Types)
    /\ HeldInv(freeRequests, freer, Blocks)

\* The module that is instantiated has a name of its own for Cardinality.
LEMMA SameCardinality == \A S : Allocator!Cardinality(S) = Cardinality(S)
BY DEF Allocator!Cardinality, Cardinality

LEMMA PendingFacts ==
  \A m : Allocator!Pending(m) = Cardinality(Allocator!PendingItems(m))
BY SameCardinality DEF Allocator!Pending

LEMMA SlotsOf == \A s, x : IsFiniteSet({i \in 1 .. MaxRequests : s[i] = x})
<1> SUFFICES ASSUME NEW s, NEW x
             PROVE  IsFiniteSet({i \in 1 .. MaxRequests : s[i] = x})
  OBVIOUS
<1>1. {i \in 1 .. MaxRequests : s[i] = x} \in SUBSET Slots
  BY DEF Slots
<1> QED
  BY <1>1, SlotsFinite

LEMMA CountIsNat == \A l, x : Count(l, x) \in Nat
BY SlotsOf, FS_CardinalityType DEF Count

LEMMA HeldFacts ==
  ASSUME NEW l, NEW thread, NEW Items
  PROVE  /\ Held(l, thread, Items) \in [Items -> Nat]
         /\ \A x \in Items : Held(l, thread, Items)[x] = Count(l, x) + InHand(thread, x)
BY CountIsNat DEF Held, InHand

LEMMA PendingMember ==
  \A Items : \A m \in [Items -> Nat] : \A q :
    q \in Allocator!PendingItems(m) <=> \E y \in Items : \E i \in 1 .. m[y] : q = <<y, i>>
<1> SUFFICES ASSUME NEW Items, NEW m \in [Items -> Nat], NEW q
             PROVE  q \in Allocator!PendingItems(m)
                    <=> \E y \in Items : \E i \in 1 .. m[y] : q = <<y, i>>
  OBVIOUS
<1> DEFINE row(y) == {<<y, i>> : i \in 1 .. m[y]}
<1>1. Allocator!PendingItems(m) = UNION {row(y) : y \in Items}
  <2>1. DOMAIN m = Items
    OBVIOUS
  <2> QED
    BY <2>1, Zenon DEF Allocator!PendingItems
<1>2. \A y : q \in row(y) <=> \E i \in 1 .. m[y] : q = <<y, i>>
  OBVIOUS
<1> HIDE DEF row
<1>3. q \in Allocator!PendingItems(m) <=> \E y \in Items : q \in row(y)
  BY <1>1, Zenon
<1> QED
  BY <1>2, <1>3, Zenon

\* One item more.
LEMMA OneMore ==
  ASSUME NEW Items, NEW m \in [Items -> Nat], NEW n \in [Items -> Nat], NEW x \in Items,
         n[x] = m[x] + 1, \A y \in Items \ {x} : n[y] = m[y],
         IsFiniteSet(Allocator!PendingItems(m))
  PROVE  /\ IsFiniteSet(Allocator!PendingItems(n))
         /\ Allocator!Pending(n) = Allocator!Pending(m) + 1
<1> DEFINE new == <<x, n[x]>>
<1>1. 1 .. n[x] = (1 .. m[x]) \cup {n[x]} /\ n[x] \notin 1 .. m[x] /\ n[x] \in 1 .. n[x]
  OBVIOUS
<1>2. \A q : q \in Allocator!PendingItems(m) <=> \E y \in Items : \E i \in 1 .. m[y] : q = <<y, i>>
  BY PendingMember
<1>3. \A q : q \in Allocator!PendingItems(n) <=> \E y \in Items : \E i \in 1 .. n[y] : q = <<y, i>>
  BY PendingMember
<1>4. ASSUME NEW q
      PROVE  q \in Allocator!PendingItems(n) <=> q \in Allocator!PendingItems(m) \/ q = new
  <2>1. ASSUME q \in Allocator!PendingItems(n)
        PROVE  q \in Allocator!PendingItems(m) \/ q = new
    <3>1. PICK y \in Items : \E i \in 1 .. n[y] : q = <<y, i>>
      BY <1>3, <2>1
    <3>2. CASE y = x
      BY <1>1, <1>2, <3>1, <3>2
    <3>3. CASE y # x
      BY <1>2, <3>1, <3>3
    <3> QED
      BY <3>2, <3>3
  <2>2. ASSUME q \in Allocator!PendingItems(m) \/ q = new
        PROVE  q \in Allocator!PendingItems(n)
    <3>1. CASE q = new
      BY <1>1, <1>3, <3>1
    <3>2. CASE q \in Allocator!PendingItems(m)
      <4>1. PICK y \in Items : \E i \in 1 .. m[y] : q = <<y, i>>
        BY <1>2, <3>2
      <4>2. 1 .. m[y] \subseteq 1 .. n[y]
        BY <1>1
      <4> QED
        BY <1>3, <4>1, <4>2
    <3> QED
      BY <2>2, <3>1, <3>2
  <2> QED
    BY <2>1, <2>2
<1>5. Allocator!PendingItems(n) = Allocator!PendingItems(m) \cup {new}
  BY <1>4
<1>6. new \notin Allocator!PendingItems(m)
  BY <1>1, <1>2
<1>0. IsFiniteSet(Allocator!PendingItems(m))
  OBVIOUS
<1> HIDE DEF new
<1>7. /\ IsFiniteSet(Allocator!PendingItems(n))
      /\ Cardinality(Allocator!PendingItems(n)) = Cardinality(Allocator!PendingItems(m)) + 1
  BY ONLY <1>0, <1>5, <1>6, FS_AddElement
<1> QED
  BY <1>7, PendingFacts

\* One item less.
LEMMA OneLess ==
  ASSUME NEW Items, NEW m \in [Items -> Nat], NEW n \in [Items -> Nat], NEW x \in Items,
         m[x] = n[x] + 1, \A y \in Items \ {x} : n[y] = m[y],
         IsFiniteSet(Allocator!PendingItems(m))
  PROVE  /\ IsFiniteSet(Allocator!PendingItems(n))
         /\ Allocator!Pending(n) = Allocator!Pending(m) - 1
<1>1. Allocator!PendingItems(n) \in SUBSET Allocator!PendingItems(m)
  <2>1. ASSUME NEW q \in Allocator!PendingItems(n)
        PROVE  q \in Allocator!PendingItems(m)
    <3>1. PICK y \in Items : \E i \in 1 .. n[y] : q = <<y, i>>
      BY PendingMember
    <3>2. 1 .. n[y] \subseteq 1 .. m[y]
      BY <3>1
    <3>3. \E i \in 1 .. m[y] : q = <<y, i>>
      BY <3>1, <3>2
    <3> QED
      BY <3>3, PendingMember
  <2> QED
    BY <2>1
<1>2. IsFiniteSet(Allocator!PendingItems(n))
  BY <1>1, FS_Subset
<1>3. Allocator!Pending(m) = Allocator!Pending(n) + 1
  BY <1>2, OneMore
<1>4. Allocator!Pending(n) \in Nat
  BY <1>2, FS_CardinalityType, PendingFacts
<1> QED
  BY <1>2, <1>3, <1>4

\* A slot that changes from one item to another.
Occurs(s, x) == Cardinality({i \in 1 .. MaxRequests : s[i] = x})

LEMMA SlotCount ==
  ASSUME NEW s, NEW t, NEW f \in Slots, NEW old, NEW new, s[f] = old, t[f] = new, old # new,
         \A i \in Slots \ {f} : t[i] = s[i]
  PROVE  /\ Occurs(t, new) = Occurs(s, new) + 1
         /\ Occurs(s, old) = Occurs(t, old) + 1
         /\ \A x : x # new /\ x # old => Occurs(t, x) = Occurs(s, x)
<1> DEFINE At(u, x) == {i \in 1 .. MaxRequests : u[i] = x}
<1>1. f \in 1 .. MaxRequests /\ \A i \in (1 .. MaxRequests) \ {f} : t[i] = s[i]
  BY DEF Slots
<1>2. At(t, new) = At(s, new) \cup {f} /\ f \notin At(s, new)
  BY <1>1
<1>3. At(s, old) = At(t, old) \cup {f} /\ f \notin At(t, old)
  BY <1>1
<1>4. ASSUME NEW x, x # new, x # old
      PROVE  At(t, x) = At(s, x)
  BY <1>1, <1>4
<1>5. \A u, x : IsFiniteSet(At(u, x))
  BY SlotsOf
<1>6. \A u, x : Occurs(u, x) = Cardinality(At(u, x))
  BY DEF Occurs
<1> HIDE DEF At
<1> QED
  BY <1>2, <1>3, <1>4, <1>5, <1>6, FS_AddElement

\* What is put on the list is held by it.
LEMMA InsertHeld ==
  ASSUME NEW Items, Nil \notin Items, NEW l \in RequestLists(Items), Counted(l),
         ~IsFull(l), NEW item \in Items, NEW thread, HeldInv(l, thread, Items)
  PROVE  LET k == Insert(l, item)
             m == Held(l, thread, Items)
         IN  /\ Held(k, thread, Items) = [m EXCEPT ![item] = @ + 1]
             /\ HeldInv(k, thread, Items)
<1> DEFINE k == Insert(l, item)
           m == Held(l, thread, Items)
           n == Held(k, thread, Items)
<1>1. PICK f \in Slots : /\ l.slots[f] = Nil
                         /\ k.slots = [l.slots EXCEPT ![f] = item]
  BY InsertFacts
<1>2. k.itemsCount = l.itemsCount + 1 /\ l.itemsCount \in Nat
  BY InsertFacts DEF RequestLists
<1> HIDE DEF k
<1>3. \A x \in Items : Count(k, x) = IF x = item THEN Count(l, x) + 1 ELSE Count(l, x)
  <2> DEFINE s == l.slots
             t == k.slots
  <2>1. s[f] = Nil /\ t[f] = item /\ Nil # item /\ \A i \in Slots \ {f} : t[i] = s[i]
    BY <1>1 DEF RequestLists, Slots
  <2>2. \A x : Count(l, x) = Occurs(s, x) /\ Count(k, x) = Occurs(t, x)
    BY DEF Count, Occurs
  <2> HIDE DEF s, t
  <2>3. /\ Occurs(t, item) = Occurs(s, item) + 1
        /\ \A x : x # item /\ x # Nil => Occurs(t, x) = Occurs(s, x)
    BY <2>1, SlotCount
  <2> QED
    BY <2>2, <2>3
<1>4. /\ m \in [Items -> Nat] /\ n \in [Items -> Nat]
      /\ \A x \in Items : m[x] = Count(l, x) + InHand(thread, x)
      /\ \A x \in Items : n[x] = Count(k, x) + InHand(thread, x)
  BY HeldFacts
<1> HIDE DEF m, n
<1>a. n[item] = m[item] + 1 /\ \A x \in Items \ {item} : n[x] = m[x]
  BY <1>3, <1>4, CountIsNat DEF InHand
<1>5. n = [m EXCEPT ![item] = @ + 1]
  <2> QED
    BY <1>4, <1>a
<1>6. IsFiniteSet(Allocator!PendingItems(m)) /\ Allocator!Pending(m) = Total(l, thread)
  BY DEF HeldInv, m
<1>7. IsFiniteSet(Allocator!PendingItems(n)) /\ Allocator!Pending(n) = Total(l, thread) + 1
  BY <1>4, <1>6, <1>a, OneMore
<1>8. Total(k, thread) = Total(l, thread) + 1
  BY <1>2 DEF Total
<1> QED
  BY <1>5, <1>7, <1>8 DEF HeldInv, k, m, n

\* What is popped is still held, by the thread.
LEMMA PopHeld ==
  ASSUME NEW Items, Nil \notin Items, NEW l \in RequestLists(Items), Counted(l),
         l.itemsCount > 0, NEW default, NEW thread, thread.item = Nil,
         NEW next, next.item = Pop(l, default).item, HeldInv(l, thread, Items)
  PROVE  LET k == Pop(l, default).list
         IN  /\ Held(k, next, Items) = Held(l, thread, Items)
             /\ HeldInv(k, next, Items)
<1> DEFINE k == Pop(l, default).list
           m == Held(l, thread, Items)
           n == Held(k, next, Items)
<1>1. PICK f \in Slots : /\ l.slots[f] # Nil
                         /\ next.item = l.slots[f]
                         /\ k.slots = [l.slots EXCEPT ![f] = Nil]
  BY PopFacts
<1>2. next.item \in Items /\ k \in RequestLists(Items) /\ Counted(k)
  BY PopFacts
<1> HIDE DEF k
<1>3. l.slots \in [1 .. MaxRequests -> Items \cup {Nil}]
  BY DEF RequestLists
<1>4. \A x \in Items : Count(l, x) = IF x = next.item THEN Count(k, x) + 1 ELSE Count(k, x)
  <2> DEFINE s == l.slots
             t == k.slots
  <2>1. /\ s[f] = next.item /\ t[f] = Nil /\ next.item # Nil
        /\ \A i \in Slots \ {f} : t[i] = s[i]
    BY <1>1, <1>2, <1>3 DEF Slots
  <2>2. \A x : Count(l, x) = Occurs(s, x) /\ Count(k, x) = Occurs(t, x)
    BY DEF Count, Occurs
  <2> HIDE DEF s, t
  <2>3. /\ Occurs(s, next.item) = Occurs(t, next.item) + 1
        /\ \A x : x # Nil /\ x # next.item => Occurs(t, x) = Occurs(s, x)
    BY <2>1, SlotCount
  <2> QED
    BY <2>2, <2>3
<1>5. /\ m \in [Items -> Nat] /\ n \in [Items -> Nat]
      /\ \A x \in Items : m[x] = Count(l, x) + InHand(thread, x)
      /\ \A x \in Items : n[x] = Count(k, x) + InHand(next, x)
  BY HeldFacts
<1> HIDE DEF m, n
<1>6. n = m
  <2>1. ASSUME NEW x \in Items
        PROVE  n[x] = m[x]
    BY <1>4, <1>5, CountIsNat DEF InHand
  <2> QED
    BY <1>5, <2>1
<1>7. Total(k, next) = Total(l, thread)
  <2>1. UsedSlots(k) \cup {f} = UsedSlots(l) /\ f \notin UsedSlots(k)
    BY <1>1, <1>3 DEF UsedSlots, Slots
  <2>2. UsedSlots(k) \in SUBSET Slots
    BY DEF UsedSlots, Slots
  <2>3. Cardinality(UsedSlots(l)) = Cardinality(UsedSlots(k)) + 1
    BY <2>1, <2>2, SlotsFinite, FS_AddElement
  <2>4. l.itemsCount = k.itemsCount + 1 /\ l.itemsCount \in Nat /\ k.itemsCount \in Nat
    BY <1>2, <2>3 DEF Counted, RequestLists
  <2>5. next.item # Nil
    BY <1>2
  <2> QED
    BY <2>4, <2>5 DEF Total
<1> QED
  BY <1>6, <1>7 DEF HeldInv, k, m, n

\* What the thread has served is held no more.
LEMMA ServedHeld ==
  ASSUME NEW Items, Nil \notin Items, NEW l \in RequestLists(Items),
         NEW thread, thread.item \in Items, NEW next, next.item = Nil,
         HeldInv(l, thread, Items)
  PROVE  LET m == Held(l, thread, Items)
         IN  /\ m[thread.item] > 0
             /\ Held(l, next, Items) = [m EXCEPT ![thread.item] = @ - 1]
             /\ HeldInv(l, next, Items)
<1> DEFINE m == Held(l, thread, Items)
           n == Held(l, next, Items)
           item == thread.item
<1>1. /\ m \in [Items -> Nat] /\ n \in [Items -> Nat]
      /\ \A x \in Items : m[x] = Count(l, x) + InHand(thread, x)
      /\ \A x \in Items : n[x] = Count(l, x) + InHand(next, x)
  BY HeldFacts
<1> HIDE DEF m, n
<1>a. m[item] = n[item] + 1 /\ \A x \in Items \ {item} : n[x] = m[x]
  BY <1>1, CountIsNat DEF InHand
<1>2. m[item] > 0 /\ n = [m EXCEPT ![item] = @ - 1]
  <2>1. ASSUME NEW x \in Items
        PROVE  /\ m[x] = IF x = item THEN n[x] + 1 ELSE n[x]
               /\ n[x] \in Nat
    BY <1>1, <1>a
  <2>2. ASSUME NEW x \in Items
        PROVE  n[x] = IF x = item THEN m[x] - 1 ELSE m[x]
    BY <2>1, <1>1
  <2>3. m[item] > 0
    BY <2>1
  <2> QED
    BY <1>1, <2>2, <2>3
<1>3. IsFiniteSet(Allocator!PendingItems(m)) /\ Allocator!Pending(m) = Total(l, thread)
  BY DEF HeldInv, m
<1>4. IsFiniteSet(Allocator!PendingItems(n)) /\ Allocator!Pending(n) = Total(l, thread) - 1
  <2> HIDE DEF item
  <2>1. item \in Items
    BY DEF item
  <2> QED
    BY <1>1, <1>3, <1>a, <2>1, OneLess
<1>5. Total(l, next) = Total(l, thread) - 1
  BY DEF Total, RequestLists
<1> QED
  BY <1>2, <1>4, <1>5 DEF HeldInv, m, n

\* A list that is not full has room for what its thread has in hand besides.
LEMMA RoomFacts ==
  ASSUME NEW Items, NEW l \in RequestLists(Items), ~IsFull(l), NEW thread,
         HeldInv(l, thread, Items)
  PROVE  Allocator!MayInsert(Held(l, thread, Items))
<1>1. l.itemsCount \in 0 .. MaxRequests
  BY DEF RequestLists
<1> QED
  BY <1>1, PoolAssumption DEF IsFull, HeldInv, Total, Allocator!MayInsert

-----------------------------------------------------------------------------
(* Each step is a step of the abstract allocator, or none.                 *)

Status == [b \in Blocks |-> IF ~Listed(b) THEN "absent"
                            ELSE IF isUsed[b] THEN "used" ELSE "free"]
Asked == Held(allocationRequests, allocator, Types)
Queued == Held(freeRequests, freer, Blocks)

AllocatorMoves == Allocator!AllocNext \/ UNCHANGED <<Status, Asked, Queued>>

LEMMA StatusFacts ==
  /\ Status \in [Blocks -> {"absent", "used", "free"}]
  /\ \A b \in Blocks : /\ Status[b] = "absent" <=> ~Listed(b)
                       /\ Status[b] = "used" <=> Listed(b) /\ isUsed[b]
                       /\ Status[b] = "free" <=> Listed(b) /\ ~isUsed[b]
BY DEF Status

\* The steps of the abstract allocator, in the pool's terms.
LEMMA Takes ==
  ASSUME NEW b \in Blocks, Status[b] = "free", Status' = [Status EXCEPT ![b] = "used"],
         UNCHANGED <<Asked, Queued>>
  PROVE  AllocatorMoves
BY DEF Status, Asked, Queued, Held, AllocatorMoves, Allocator!AllocNext, Allocator!Take,
       Allocator!Blocks, Blocks

LEMMA Asks ==
  ASSUME NEW type \in Types, Allocator!MayInsert(Asked),
         Asked' = [Asked EXCEPT ![type] = @ + 1], UNCHANGED <<Status, Queued>>
  PROVE  AllocatorMoves
BY DEF Status, Asked, Queued, Held, AllocatorMoves, Allocator!AllocNext, Allocator!Ask,
       Allocator!Types, Types

LEMMA Grows ==
  ASSUME NEW type \in Types, Asked[type] > 0, Asked' = [Asked EXCEPT ![type] = @ - 1],
         \/ \E b \in BlocksOf(type) : /\ Status[b] = "absent"
                                      /\ Status' = [Status EXCEPT ![b] = "free"]
         \/ UNCHANGED Status,
         UNCHANGED Queued
  PROVE  AllocatorMoves
BY DEF Status, Asked, Queued, Held, AllocatorMoves, Allocator!AllocNext, Allocator!Grow,
       Allocator!Types, Types, Allocator!BlocksOf, BlocksOf

LEMMA Releases ==
  ASSUME NEW b \in Blocks, Allocator!MayInsert(Queued),
         Queued' = [Queued EXCEPT ![b] = @ + 1], UNCHANGED <<Status, Asked>>
  PROVE  AllocatorMoves
BY DEF Status, Asked, Queued, Held, AllocatorMoves, Allocator!AllocNext, Allocator!Release,
       Allocator!Blocks, Blocks

LEMMA Reclaims ==
  ASSUME NEW b \in Blocks, Queued[b] > 0, Queued' = [Queued EXCEPT ![b] = @ - 1],
         Status' = [Status EXCEPT ![b] = "free"], UNCHANGED Asked
  PROVE  AllocatorMoves
BY DEF Status, Asked, Queued, Held, AllocatorMoves, Allocator!AllocNext, Allocator!Reclaim,
       Allocator!Blocks, Blocks

LEMMA Destroys ==
  ASSUME \A b \in Blocks : Queued[b] = 0, Status' = [b \in Blocks |-> "absent"],
         UNCHANGED <<Asked, Queued>>
  PROVE  AllocatorMoves
BY DEF Status, Asked, Queued, Held, AllocatorMoves, Allocator!AllocNext, Allocator!Destroy,
       Allocator!Blocks, Blocks

LEMMA SameStatus ==
  ASSUME UNCHANGED <<list, isUsed>>
  PROVE  UNCHANGED Status
BY DEF Status, Listed

LEMMA SameAsked ==
  ASSUME PendingInv, UNCHANGED allocationRequests, allocator'.item = allocator.item
  PROVE  UNCHANGED Asked /\ HeldInv(allocationRequests, allocator, Types)'
BY DEF PendingInv, HeldInv, Asked, Held, InHand, Total

LEMMA SameQueued ==
  ASSUME PendingInv, UNCHANGED freeRequests, freer'.item = freer.item
  PROVE  UNCHANGED Queued /\ HeldInv(freeRequests, freer, Blocks)'
BY DEF PendingInv, HeldInv, Queued, Held, InHand, Total

Implemented == AllocatorMoves /\ PendingInv'

\* The lists, the requests and what the threads have in hand.
Mapped == <<list, isUsed, allocationRequests, freeRequests, allocator.item, freer.item>>

LEMMA NothingMapped ==
  ASSUME PendingInv, UNCHANGED Mapped
  PROVE  Implemented
<1>1. UNCHANGED <<list, isUsed>> /\ UNCHANGED allocationRequests /\ UNCHANGED freeRequests
      /\ allocator'.item = allocator.item /\ freer'.item = freer.item
  BY DEF Mapped
<1>2. UNCHANGED Status /\ UNCHANGED Asked /\ UNCHANGED Queued /\ PendingInv'
  BY <1>1, SameStatus, SameAsked, SameQueued DEF PendingInv
<1> QED
  BY <1>2 DEF Implemented, AllocatorMoves

\* A free block is taken.
LEMMA FindImplemented ==
  ASSUME Inv, PendingInv, NEW c, NEW type \in Types, FindFreeSlot(c, type),
         UNCHANGED <<allocationRequests, freeRequests, allocator, freer>>
  PROVE  Implemented
<1>1. PICK b : /\ b \in ToSet(list[type]) /\ ~isUsed[b]
               /\ isUsed' = [isUsed EXCEPT ![b] = TRUE]
               /\ UNCHANGED list
  BY DEF FindFreeSlot, ToSet
<1>2. b \in Blocks /\ TypeOf(b) = type
  BY <1>1, PoolAssumption DEF Inv, ListInv, Types, BlocksOf, Blocks, TypeOf
<1>3. Listed(b)
  BY <1>1, <1>2 DEF Listed
<1>4. \A d \in Blocks : /\ Listed(d)' <=> Listed(d)
                        /\ isUsed'[d] <=> isUsed[d] \/ d = b
  BY <1>1, <1>2 DEF Inv, PoolTypeOK, Listed
<1>5. Status[b] = "free" /\ Status' = [Status EXCEPT ![b] = "used"]
  <2>1. Status[b] = "free"
    BY <1>1, <1>2, <1>3, StatusFacts
  <2>2. \A d \in Blocks : Status'[d] = IF d = b THEN "used" ELSE Status[d]
    BY <1>2, <1>3, <1>4 DEF Status
  <2>3. Status' = [d \in Blocks |-> Status'[d]]
    BY DEF Status
  <2> QED
    BY <2>1, <2>2, <2>3, StatusFacts
<1>6. UNCHANGED Asked /\ UNCHANGED Queued /\ PendingInv'
  BY SameAsked, SameQueued DEF PendingInv
<1>7. AllocatorMoves
  BY <1>2, <1>5, <1>6, Takes
<1> QED
  BY <1>6, <1>7 DEF Implemented

LEMMA CallerImplemented ==
  ASSUME Inv, PendingInv, NEW c \in Clients, ClientStart(c) \/ ClientStep(c)
  PROVE  Implemented
<1>1. ASSUME NEW type \in Types, Allocate(c, type)
      PROVE  Implemented
  <2>1. UNCHANGED <<allocationRequests, freeRequests, allocator, freer>>
    BY <1>1 DEF Allocate
  <2>2. CASE FindFreeSlot(c, type)
    BY <2>1, <2>2, FindImplemented
  <2>3. CASE UNCHANGED listVars
    BY <2>1, <2>3, NothingMapped DEF Mapped, listVars
  <2> QED
    BY <1>1, <2>2, <2>3 DEF Allocate
<1>2. ASSUME NEW b \in held[c], Free(c, b)
      PROVE  Implemented
  BY <1>2, NothingMapped DEF Free, Mapped, listVars
<1>3. CASE InsertAllocation(c)
  <2> DEFINE l == allocationRequests
  <2>1. /\ client[c].type \in Types /\ Nil \notin Types
        /\ l \in RequestLists(Types) /\ Counted(l)
    BY <1>3, NilIsNoItem DEF InsertAllocation, Inv, CallInv, PoolTypeOK, CountInv
  <2>2. UNCHANGED <<list, isUsed>> /\ UNCHANGED freeRequests /\ UNCHANGED allocator
        /\ UNCHANGED freer
    BY <1>3 DEF InsertAllocation, listVars
  <2>3. CASE ~IsFull(l) /\ l' = Insert(l, client[c].type)
    <3>1. PICK type \in Types : type = client[c].type
      BY <2>1
    <3>2. HeldInv(l, allocator, Types)
      BY DEF PendingInv
    <3>3. /\ Held(Insert(l, type), allocator, Types) =
               [Held(l, allocator, Types) EXCEPT ![type] = @ + 1]
          /\ HeldInv(Insert(l, type), allocator, Types)
      BY <2>1, <2>3, <3>2, InsertHeld
    <3>4. Allocator!MayInsert(Held(l, allocator, Types))
      BY <2>1, <2>3, <3>2, RoomFacts
    <3>5. Asked' = [Asked EXCEPT ![type] = @ + 1] /\ HeldInv(l, allocator, Types)'
      BY <2>2, <2>3, <3>1, <3>3 DEF Asked
    <3>6. UNCHANGED Status /\ UNCHANGED Queued /\ PendingInv'
      BY <2>2, <3>5, SameStatus, SameQueued DEF PendingInv
    <3>7. AllocatorMoves
      BY <3>4, <3>5, <3>6, Asks DEF Asked
    <3> QED
      BY <3>6, <3>7 DEF Implemented
  <2>4. CASE UNCHANGED l
    BY <2>2, <2>4, NothingMapped DEF Mapped
  <2> QED
    BY <1>3, <2>3, <2>4 DEF InsertAllocation
<1>4. CASE Poll(c)
  <2>1. UNCHANGED <<allocationRequests, freeRequests, allocator, freer>>
        /\ client[c].type \in Types
    BY <1>4 DEF Poll, Inv, CallInv
  <2>2. CASE FindFreeSlot(c, client[c].type)
    BY <2>1, <2>2, FindImplemented
  <2>3. CASE UNCHANGED listVars
    BY <2>1, <2>3, NothingMapped DEF Mapped, listVars
  <2> QED
    BY <1>4, <2>2, <2>3 DEF Poll
<1>5. CASE InsertFree(c)
  <2> DEFINE l == freeRequests
  <2>1. /\ client[c].block \in Blocks /\ Nil \notin Blocks
        /\ l \in RequestLists(Blocks) /\ Counted(l)
    BY <1>5, NilIsNoItem DEF InsertFree, Inv, CallInv, PoolTypeOK, CountInv, Calls
  <2>2. UNCHANGED <<list, isUsed>> /\ UNCHANGED allocationRequests /\ UNCHANGED allocator
        /\ UNCHANGED freer
    BY <1>5 DEF InsertFree, listVars
  <2>3. CASE ~IsFull(l) /\ l' = Insert(l, client[c].block)
    <3>1. PICK b \in Blocks : b = client[c].block
      BY <2>1
    <3>2. HeldInv(l, freer, Blocks)
      BY DEF PendingInv
    <3>3. /\ Held(Insert(l, b), freer, Blocks) =
               [Held(l, freer, Blocks) EXCEPT ![b] = @ + 1]
          /\ HeldInv(Insert(l, b), freer, Blocks)
      BY <2>1, <2>3, <3>2, InsertHeld
    <3>4. Allocator!MayInsert(Held(l, freer, Blocks))
      BY <2>1, <2>3, <3>2, RoomFacts
    <3>5. Queued' = [Queued EXCEPT ![b] = @ + 1] /\ HeldInv(l, freer, Blocks)'
      BY <2>2, <2>3, <3>1, <3>3 DEF Queued
    <3>6. UNCHANGED Status /\ UNCHANGED Asked /\ PendingInv'
      BY <2>2, <3>5, SameStatus, SameAsked DEF PendingInv
    <3>7. AllocatorMoves
      BY <3>4, <3>5, <3>6, Releases DEF Queued
    <3> QED
      BY <3>6, <3>7 DEF Implemented
  <2>4. CASE UNCHANGED l
    BY <2>2, <2>4, NothingMapped DEF Mapped
  <2> QED
    BY <1>5, <2>3, <2>4 DEF InsertFree
<1> QED
  BY <1>1, <1>2, <1>3, <1>4, <1>5 DEF ClientStart, ClientStep

LEMMA AllocatorImplemented ==
  ASSUME Inv, PendingInv, AllocatorStep
  PROVE  Implemented
<1> DEFINE l == allocationRequests
<1>1. /\ Nil \notin Types /\ l \in RequestLists(Types) /\ Counted(l)
      /\ allocator \in Threads /\ HeldInv(l, allocator, Types)
      /\ allocator.item \in Types \cup {Nil}
      /\ allocator.pc = "work" <=> allocator.item # Nil
  BY NilIsNoItem DEF Inv, PoolTypeOK, CountInv, PendingInv, ThreadInv
<1>2. CASE AllocatorCheck \/ AllocatorUpdate
  <2>1. allocator'.item = allocator.item
    BY <1>1, <1>2 DEF AllocatorCheck, AllocatorUpdate, Threads
  <2> QED
    BY <1>2, <2>1, NothingMapped DEF AllocatorCheck, AllocatorUpdate, Mapped, listVars
<1>3. CASE AllocatorPop
  <2> DEFINE popped == Pop(l, "split")
  <2>1. /\ l.itemsCount > 0 /\ allocator.item = Nil /\ l' = popped.list
        /\ allocator'.item = popped.item
        /\ UNCHANGED <<list, isUsed>> /\ UNCHANGED freeRequests /\ UNCHANGED freer
    BY <1>1, <1>3 DEF AllocatorPop, listVars, Inv, ThreadInv, Threads
  <2>2. PICK next : next = allocator'
    OBVIOUS
  <2>3. /\ Held(popped.list, next, Types) = Held(l, allocator, Types)
        /\ HeldInv(popped.list, next, Types)
    <3>1. next.item = Pop(l, "split").item
      BY <2>1, <2>2
    <3> QED
      BY <1>1, <2>1, <3>1, PopHeld
  <2> HIDE DEF popped
  <2>4. UNCHANGED Asked /\ HeldInv(l, allocator, Types)'
    BY <2>1, <2>2, <2>3 DEF Asked
  <2>5. UNCHANGED Status /\ UNCHANGED Queued /\ PendingInv'
    BY <2>1, <2>4, SameStatus, SameQueued DEF PendingInv
  <2> QED
    BY <2>4, <2>5 DEF Implemented, AllocatorMoves
<1>4. CASE AllocatorWork
  <2> DEFINE type == allocator.item
  <2>1. /\ type \in Types /\ allocator'.item = Nil /\ AllocateInternal(type)
        /\ UNCHANGED l /\ UNCHANGED freeRequests /\ UNCHANGED freer
    BY <1>1, <1>4 DEF AllocatorWork, Threads
  <2>2. /\ Asked[type] > 0 /\ Asked' = [Asked EXCEPT ![type] = @ - 1]
        /\ HeldInv(l, allocator, Types)'
    <3>1. PICK next : next = allocator'
      OBVIOUS
    <3>2. /\ Held(l, allocator, Types)[type] > 0
          /\ Held(l, next, Types) = [Held(l, allocator, Types) EXCEPT ![type] = @ - 1]
          /\ HeldInv(l, next, Types)
      BY <1>1, <2>1, <3>1, ServedHeld
    <3> QED
      BY <2>1, <3>1, <3>2 DEF Asked
  <2>3. UNCHANGED Queued /\ PendingInv'
    BY <2>1, <2>2, SameQueued DEF PendingInv
  <2>4. \/ \E b \in BlocksOf(type) : /\ Status[b] = "absent"
                                     /\ Status' = [Status EXCEPT ![b] = "free"]
        \/ UNCHANGED Status
    <3>1. CASE UNCHANGED listVars
      BY <3>1, SameStatus DEF listVars
    <3>2. CASE ~UNCHANGED listVars
      <4>1. PICK b \in BlocksOf(type) \ ToSet(list[type]) :
              /\ list' = [list EXCEPT ![type] = Append(@, b)]
              /\ isUsed' = [isUsed EXCEPT ![b] = FALSE]
        BY <2>1, <3>2 DEF AllocateInternal
      <4>2. b \in Blocks /\ TypeOf(b) = type
        BY <2>1, PoolAssumption DEF Blocks, Types, BlocksOf, TypeOf
      <4>3. ~Listed(b)
        BY <4>1, <4>2 DEF Listed
      <4>4. list[type] \in Seq(Blocks)
        BY <2>1 DEF Inv, PoolTypeOK
      <4>5. ToSet(Append(list[type], b)) = ToSet(list[type]) \cup {b}
        <5> HIDE DEF type
        <5> QED
          BY <4>2, <4>4, AppendFacts
      <4>6. \A t \in Types : ToSet(list'[t]) = IF t = type THEN ToSet(list[t]) \cup {b}
                                               ELSE ToSet(list[t])
        BY <2>1, <4>1, <4>5 DEF Inv, PoolTypeOK
      <4>7. \A d \in Blocks : /\ Listed(d)' <=> Listed(d) \/ d = b
                              /\ d # b => isUsed'[d] = isUsed[d]
        BY <4>1, <4>2, <4>6 DEF Listed, TypeOf, Types, Inv, PoolTypeOK
      <4>8. ~isUsed'[b]
        BY <4>1, <4>2 DEF Inv, PoolTypeOK
      <4>9. \A d \in Blocks : Status'[d] = IF d = b THEN "free" ELSE Status[d]
        BY <4>2, <4>7, <4>8 DEF Status
      <4>10. Status' = [d \in Blocks |-> Status'[d]]
        BY DEF Status
      <4>11. Status' = [Status EXCEPT ![b] = "free"]
        BY <4>9, <4>10, StatusFacts
      <4>12. Status[b] = "absent"
        BY <4>2, <4>3, StatusFacts
      <4> QED
        BY <4>1, <4>11, <4>12
    <3> QED
      BY <3>1, <3>2
  <2>5. AllocatorMoves
    <3> HIDE DEF type
    <3>1. type \in Types
      BY <2>1
    <3> QED
      BY <2>2, <2>3, <2>4, <3>1, Grows
  <2> QED
    BY <2>3, <2>5 DEF Implemented
<1> QED
  BY <1>2, <1>3, <1>4 DEF AllocatorStep

LEMMA FreerImplemented ==
  ASSUME Inv, PendingInv, FreerStep
  PROVE  Implemented
<1> DEFINE l == freeRequests
<1>1. /\ Nil \notin Blocks /\ l \in RequestLists(Blocks) /\ Counted(l)
      /\ freer \in Threads /\ HeldInv(l, freer, Blocks)
      /\ freer.item \in Blocks \cup {Nil}
      /\ freer.item # Nil => freer.pc = "work"
  BY NilIsNoItem DEF Inv, PoolTypeOK, CountInv, PendingInv, ThreadInv
<1>2. CASE FreerCheck \/ FreerUpdate
  <2>1. freer'.item = freer.item
    BY <1>1, <1>2 DEF FreerCheck, FreerUpdate, Threads
  <2> QED
    BY <1>2, <2>1, NothingMapped DEF FreerCheck, FreerUpdate, Mapped, listVars
<1>3. CASE FreerPop
  <2> DEFINE popped == Pop(l, Nil)
  <2>1. /\ l.itemsCount > 0 /\ freer.item = Nil /\ l' = popped.list
        /\ freer'.item = popped.item
        /\ UNCHANGED <<list, isUsed>> /\ UNCHANGED allocationRequests /\ UNCHANGED allocator
    BY <1>1, <1>3 DEF FreerPop, listVars, Inv, ThreadInv, Threads
  <2>2. PICK next : next = freer'
    OBVIOUS
  <2>3. /\ Held(popped.list, next, Blocks) = Held(l, freer, Blocks)
        /\ HeldInv(popped.list, next, Blocks)
    <3>1. next.item = Pop(l, Nil).item
      BY <2>1, <2>2
    <3> QED
      BY <1>1, <2>1, <3>1, PopHeld
  <2> HIDE DEF popped
  <2>4. UNCHANGED Queued /\ HeldInv(l, freer, Blocks)'
    BY <2>1, <2>2, <2>3 DEF Queued
  <2>5. UNCHANGED Status /\ UNCHANGED Asked /\ PendingInv'
    BY <2>1, <2>4, SameStatus, SameAsked DEF PendingInv
  <2> QED
    BY <2>4, <2>5 DEF Implemented, AllocatorMoves
<1>4. CASE FreerWork
  <2> DEFINE b == freer.item
  <2>1. /\ freer'.item = Nil /\ UNCHANGED l /\ UNCHANGED allocationRequests
        /\ UNCHANGED allocator
    BY <1>1, <1>4 DEF FreerWork, Threads
  <2>2. CASE b = Nil
    BY <1>4, <2>1, <2>2, NothingMapped DEF FreerWork, Mapped, listVars
  <2>3. CASE b # Nil
    <3>1. b \in Blocks /\ FreeInternal(b)
      BY <1>1, <1>4, <2>3 DEF FreerWork
    <3>2. Listed(b)
      <4>1. main # "gone"
        BY <1>4 DEF FreerWork, Inv, StopInv
      <4> QED
        BY <3>1, <4>1 DEF Inv, UsedInv, Owned
    <3>3. isUsed' = [isUsed EXCEPT ![b] = FALSE] /\ UNCHANGED list
      BY <3>1, <3>2 DEF FreeInternal
    <3>4. /\ Queued[b] > 0 /\ Queued' = [Queued EXCEPT ![b] = @ - 1]
          /\ HeldInv(l, freer, Blocks)'
      <4>1. PICK next : next = freer'
        OBVIOUS
      <4>2. /\ Held(l, freer, Blocks)[b] > 0
            /\ Held(l, next, Blocks) = [Held(l, freer, Blocks) EXCEPT ![b] = @ - 1]
            /\ HeldInv(l, next, Blocks)
        BY <1>1, <2>1, <3>1, <4>1, ServedHeld
      <4> QED
        BY <2>1, <4>1, <4>2 DEF Queued
    <3>5. Status' = [Status EXCEPT ![b] = "free"]
      <4> HIDE DEF b
      <4>1. \A d \in Blocks : /\ Listed(d)' <=> Listed(d)
                              /\ isUsed'[d] <=> isUsed[d] /\ d # b
        BY <3>1, <3>3 DEF Listed, Inv, PoolTypeOK
      <4>2. \A d \in Blocks : Status'[d] = IF d = b THEN "free" ELSE Status[d]
        BY <3>2, <4>1 DEF Status
      <4>3. Status' = [d \in Blocks |-> Status'[d]]
        BY DEF Status
      <4> QED
        BY <4>2, <4>3, StatusFacts
    <3>6. UNCHANGED Asked /\ PendingInv'
      BY <2>1, <3>4, SameAsked DEF PendingInv
    <3>7. AllocatorMoves
      <4> HIDE DEF b
      <4>1. b \in Blocks
        BY <3>1
      <4> QED
        BY <3>4, <3>5, <3>6, <4>1, Reclaims
    <3> QED
      BY <3>6, <3>7 DEF Implemented
  <2> QED
    BY <2>2, <2>3
<1> QED
  BY <1>2, <1>3, <1>4 DEF FreerStep

LEMMA DriverImplemented ==
  ASSUME Inv, PendingInv, Load \/ Unload \/ Stop
  PROVE  Implemented
<1>1. CASE Load
  <2>1. /\ main = "filled" => allocator.item = Nil
        /\ main = "running" => freer.item = Nil
    BY DEF Inv, ThreadInv, StopInv
  <2>2. allocator'.item = allocator.item /\ freer'.item = freer.item
    BY <1>1, <2>1 DEF Load, CreateAllocator, SetRunning, CreateFreer, NewThread
  <2> QED
    BY <1>1, <2>2, NothingMapped DEF Load, CreateAllocator, SetRunning, CreateFreer, Mapped,
       listVars
<1>2. CASE Unload \/ StopThreads \/ JoinAllocator \/ JoinFreer
  BY <1>2, NothingMapped DEF Unload, StopThreads, JoinAllocator, JoinFreer, Mapped, listVars
<1>3. CASE FreeAllocations
  <2>1. /\ list' = [type \in Types |-> <<>>] /\ main = "release"
        /\ UNCHANGED allocationRequests /\ UNCHANGED freeRequests
        /\ UNCHANGED allocator /\ UNCHANGED freer
    BY <1>3 DEF FreeAllocations
  <2>2. Status' = [b \in Blocks |-> "absent"]
    <3>1. \A b \in Blocks : ~Listed(b)'
      BY <2>1 DEF Listed, TypeOf, Types, ToSet
    <3> QED
      BY <3>1 DEF Status
  <2>3. UNCHANGED Asked /\ UNCHANGED Queued /\ PendingInv'
    BY <2>1, SameAsked, SameQueued DEF PendingInv
  <2>4. \A b \in Blocks : Queued[b] = 0
    <3>1. freeRequests.itemsCount = 0 /\ freer.item = Nil
      BY <2>1 DEF Inv, StopInv, ThreadInv
    <3>2. UsedSlots(freeRequests) \in SUBSET Slots
      BY DEF UsedSlots, Slots
    <3>3. UsedSlots(freeRequests) = {}
      BY <3>1, <3>2, SlotsFinite, FS_EmptySet DEF Inv, CountInv, Counted
    <3>4. \A b \in Blocks : {i \in 1 .. MaxRequests : freeRequests.slots[i] = b} = {}
      BY <3>3, NilIsNoItem DEF UsedSlots
    <3>5. \A b \in Blocks : Count(freeRequests, b) = 0
      BY <3>4, FS_EmptySet DEF Count
    <3> QED
      BY <3>1, <3>5, HeldFacts, NilIsNoItem DEF Queued, InHand
  <2>5. AllocatorMoves
    BY <2>2, <2>3, <2>4, Destroys
  <2> QED
    BY <2>3, <2>5 DEF Implemented
<1> QED
  BY <1>1, <1>2, <1>3 DEF Stop

LEMMA StepImplemented == Inv /\ PendingInv /\ [Next]_vars => Implemented
<1> SUFFICES ASSUME Inv, PendingInv, [Next]_vars
             PROVE  Implemented
  OBVIOUS
<1>1. CASE UNCHANGED vars
  BY <1>1, NothingMapped DEF vars, Mapped, listVars
<1> QED
  BY <1>1, CallerImplemented, AllocatorImplemented, FreerImplemented, DriverImplemented
  DEF Next

LEMMA InitImplemented == Init => PendingInv /\ Allocator!AllocInit
<1> SUFFICES ASSUME Init
             PROVE  PendingInv /\ Allocator!AllocInit
  OBVIOUS
<1>1. /\ allocationRequests = EmptyList /\ freeRequests = EmptyList
      /\ allocator.item = Nil /\ freer.item = Nil
      /\ isUsed = [b \in Blocks |-> FALSE]
  BY DEF Init, NewThread
<1>2. ASSUME NEW x, x # Nil
      PROVE  Count(EmptyList, x) = 0
  <2>1. {i \in 1 .. MaxRequests : EmptyList.slots[i] = x} = {}
    BY <1>2 DEF EmptyList
  <2> QED
    BY <2>1, FS_EmptySet DEF Count
<1>3. /\ Asked = [t \in Types |-> 0] /\ Queued = [b \in Blocks |-> 0]
  BY <1>1, <1>2, NilIsNoItem DEF Asked, Queued, Held, InHand
<1>4. ASSUME NEW Items
      PROVE  /\ IsFiniteSet(Allocator!PendingItems([x \in Items |-> 0]))
             /\ Allocator!Pending([x \in Items |-> 0]) = 0
  <2>1. Allocator!PendingItems([x \in Items |-> 0]) = {}
    BY PendingMember
  <2> QED
    BY <2>1, FS_EmptySet, PendingFacts
<1>5. PendingInv
  <2>1. Total(allocationRequests, allocator) = 0 /\ Total(freeRequests, freer) = 0
    BY <1>1 DEF Total, EmptyList
  <2> QED
    BY <1>3, <1>4, <2>1 DEF PendingInv, HeldInv, Asked, Queued
<1>6. Status = [b \in Blocks |-> IF b \in InitialBlocks THEN "free" ELSE "absent"]
  <2>1. ASSUME NEW b \in Blocks
        PROVE  Listed(b) <=> b \in InitialBlocks
    <3> DEFINE S == InitialBlocks \cap BlocksOf(TypeOf(b))
    <3>1. IsFiniteSet(S) /\ list[TypeOf(b)] = SetToSeq(S)
      BY PoolAssumption, FS_Subset DEF Init, TypeOf, Types
    <3>2. ToSet(SetToSeq(S)) = S
      BY <3>1, ListedOnce
    <3>3. b \in BlocksOf(TypeOf(b))
      BY DEF Blocks, BlocksOf, TypeOf
    <3> QED
      BY <3>1, <3>2, <3>3 DEF Listed
  <2> QED
    BY <1>1, <2>1 DEF Status
<1>7. Allocator!AllocInit
  BY <1>3, <1>6 DEF Allocator!AllocInit, Status, Asked, Queued, Held, Allocator!Blocks, Blocks,
     Allocator!Types, Types
<1> QED
  BY <1>5, <1>7

\* The pool implements the abstract allocator that the EPT code is modelled upon: each
\* of its steps takes, asks, grows, releases, reclaims or destroys as that one does, or
\* does nothing the EPT code can see (the whole of PoolManager.cpp).
THEOREM PoolImplementsAllocator == Spec => ImplementsAllocator
<1>1. Implemented => PendingInv' /\ [Allocator!AllocNext]_(Allocator!allocVars)
  BY DEF Implemented, AllocatorMoves, Allocator!allocVars, Status, Asked, Queued, Held
<1> QED
  BY Invariant, InitImplemented, StepImplemented, <1>1, PTL
  DEF Spec, ImplementsAllocator, Allocator!AllocSpec
=============================================================================
