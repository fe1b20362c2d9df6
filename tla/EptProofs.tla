------------------------------ MODULE EptProofs ------------------------------
(***************************************************************************)
(* Proofs that the EPT hooks keep their invariants, for any number of      *)
(* processors, pages, blocks and addresses.                                *)
(***************************************************************************)
EXTENDS Ept, TLAPS

\* A processor in root mode has no instruction in flight and no step pending; a
\* step pending covers an instruction of the kernel image.
RootQuiet ==
    \A c \in Cpus :
        /\ ~InGuest(c) => ~trap[c] /\ insn[c] = Nil
        /\ trap[c] /\ insn[c] # Nil => insn[c].kernel

\* While a page is being hooked its address is mapped and has no record yet.
OpInv ==
    \A c \in Cpus :
        op[c].pc \in {"buffer", "split", "record"} =>
            /\ op[c].va \in Vas
            /\ PhysOf[op[c].va] # Nil
            /\ \A h \in Listed(c) : rec[h].va # op[c].va
            /\ op[c].pc = "split" => op[c].buf # Nil
            /\ op[c].pc = "record" =>
                 /\ PhysOf[op[c].va][1] \notin HighRegions
                 /\ pml2[c][PhysOf[op[c].va][1]] # Nil

\* A listed record names the page of its address, which has a table.
RecordInv ==
    \A c \in Cpus : \A h \in Listed(c) :
        /\ rec[h].page = PhysOf[rec[h].va]
        /\ rec[h].page[1] \notin HighRegions

\* A record that waits to be freed is used until then, and waits once.
HookQueueInv ==
    \A h \in HookBlocks : queued[h] > 0 => queued[h] = 1 /\ status[h] = "used"

HookInv ==
    /\ RootQuiet
    /\ NoDanglingStep
    /\ OpInv
    /\ RecordInv
    /\ LiveRecords
    /\ HookQueueInv

-----------------------------------------------------------------------------
(* Lists.                                                                  *)

\* A record put at the head of a list.
LEMMA ConsList ==
    ASSUME NEW S, NEW s \in Seq(S), NEW e \in S
    PROVE  /\ Cons(e, s) \in Seq(S)
           /\ Len(Cons(e, s)) = Len(s) + 1
           /\ Cons(e, s)[1] = e
           /\ \A i \in 1 .. Len(s) : Cons(e, s)[i + 1] = s[i]
           /\ ToSet(Cons(e, s)) = {e} \cup ToSet(s)
<1>1. /\ Cons(e, s) \in Seq(S)
      /\ Len(Cons(e, s)) = Len(s) + 1
      /\ Cons(e, s)[1] = e
      /\ \A i \in 1 .. Len(s) : Cons(e, s)[i + 1] = s[i]
  BY DEF Cons
<1>2. ToSet(Cons(e, s)) = {e} \cup ToSet(s)
  <2>1. DOMAIN Cons(e, s) = 1 .. (Len(s) + 1) /\ DOMAIN s = 1 .. Len(s) /\ Len(s) \in Nat
    BY <1>1
  <2>2. ASSUME NEW x \in ToSet(Cons(e, s)) PROVE x \in {e} \cup ToSet(s)
    <3>1. PICK i \in 1 .. (Len(s) + 1) : x = Cons(e, s)[i]
      BY <2>1, <2>2 DEF ToSet
    <3>2. CASE i = 1
      BY <3>1, <3>2, <1>1
    <3>3. CASE i # 1
      <4>1. i - 1 \in 1 .. Len(s) /\ (i - 1) + 1 = i
        BY <3>1, <3>3, <2>1
      <4>2. x = s[i - 1]
        BY <4>1, <3>1, <1>1
      <4> QED BY <4>1, <4>2, <2>1 DEF ToSet
    <3> QED BY <3>2, <3>3
  <2>3. ASSUME NEW x \in {e} \cup ToSet(s) PROVE x \in ToSet(Cons(e, s))
    <3>1. CASE x = e
      <4>1. 1 \in DOMAIN Cons(e, s)
        BY <2>1
      <4> QED BY <4>1, <3>1, <1>1 DEF ToSet
    <3>2. CASE x \in ToSet(s)
      <4>1. PICK i \in 1 .. Len(s) : x = s[i]
        BY <3>2, <2>1 DEF ToSet
      <4>2. i + 1 \in DOMAIN Cons(e, s) /\ Cons(e, s)[i + 1] = x
        BY <4>1, <2>1, <1>1
      <4> QED BY <4>2 DEF ToSet
    <3> QED BY <2>3, <3>1, <3>2
  <2> QED BY <2>2, <2>3
<1> QED BY <1>1, <1>2

\* A list without its element i, when no element occurs twice.
LEMMA RemoveFromList ==
    ASSUME NEW S, NEW s \in Seq(S), NEW i \in 1 .. Len(s)
    PROVE  /\ RemoveAt(s, i) \in Seq(S)
           /\ Len(RemoveAt(s, i)) = Len(s) - 1
           /\ \A j \in 1 .. (Len(s) - 1) :
                RemoveAt(s, i)[j] = IF j < i THEN s[j] ELSE s[j + 1]
<1>1. Len(s) \in Nat /\ i \in Nat /\ i >= 1 /\ i <= Len(s)
  OBVIOUS
<1>2. /\ SubSeq(s, 1, i - 1) \in Seq(S)
      /\ Len(SubSeq(s, 1, i - 1)) = i - 1
      /\ \A j \in 1 .. (i - 1) : SubSeq(s, 1, i - 1)[j] = s[j]
  BY <1>1
<1>3. /\ SubSeq(s, i + 1, Len(s)) \in Seq(S)
      /\ Len(SubSeq(s, i + 1, Len(s))) = Len(s) - i
      /\ \A j \in 1 .. (Len(s) - i) : SubSeq(s, i + 1, Len(s))[j] = s[i + j]
  BY <1>1
<1>4. ASSUME NEW u \in Seq(S), NEW v \in Seq(S)
      PROVE  /\ u \o v \in Seq(S)
             /\ Len(u \o v) = Len(u) + Len(v)
             /\ \A j \in 1 .. (Len(u) + Len(v)) :
                  (u \o v)[j] = IF j <= Len(u) THEN u[j] ELSE v[j - Len(u)]
  OBVIOUS
<1> DEFINE u == SubSeq(s, 1, i - 1)
           v == SubSeq(s, i + 1, Len(s))
<1>5. /\ u \o v \in Seq(S)
      /\ Len(u \o v) = Len(s) - 1
      /\ \A j \in 1 .. (Len(s) - 1) :
           (u \o v)[j] = IF j <= i - 1 THEN u[j] ELSE v[j - (i - 1)]
  <2> HIDE DEF u, v
  <2>1. u \in Seq(S) /\ v \in Seq(S) /\ Len(u) = i - 1 /\ Len(v) = Len(s) - i
    BY <1>2, <1>3 DEF u, v
  <2>2. /\ u \o v \in Seq(S)
        /\ Len(u \o v) = Len(u) + Len(v)
        /\ \A j \in 1 .. (Len(u) + Len(v)) :
             (u \o v)[j] = IF j <= Len(u) THEN u[j] ELSE v[j - Len(u)]
    BY <2>1, <1>4, Zenon
  <2>3. Len(u) + Len(v) = Len(s) - 1
    BY <2>1, <1>1
  <2> QED BY <2>1, <2>2, <2>3, Zenon
<1>6. ASSUME NEW j \in 1 .. (Len(s) - 1)
      PROVE  (u \o v)[j] = IF j < i THEN s[j] ELSE s[j + 1]
  <2> HIDE DEF u, v
  <2>0. (u \o v)[j] = IF j <= i - 1 THEN u[j] ELSE v[j - (i - 1)]
    BY <1>5, Zenon
  <2>1. CASE j < i
    <3>1. j \in 1 .. (i - 1) /\ j <= i - 1
      BY <2>1, <1>1
    <3> QED BY <3>1, <2>0, <2>1, <1>2, Zenon DEF u
  <2>2. CASE ~(j < i)
    <3>1. j - (i - 1) \in 1 .. (Len(s) - i) /\ i + (j - (i - 1)) = j + 1 /\ ~(j <= i - 1)
      BY <2>2, <1>1
    <3>2. v[j - (i - 1)] = s[i + (j - (i - 1))]
      BY <3>1, <1>3, Zenon DEF v
    <3> QED BY <3>1, <3>2, <2>2, <2>0, Zenon
  <2> QED BY <2>1, <2>2
<1> QED BY <1>5, <1>6 DEF RemoveAt

\* A block that leaves a list without repetitions is no longer in it.
LEMMA RemovedElement ==
    ASSUME NEW S, NEW s \in Seq(S), NEW i \in 1 .. Len(s),
           \A j, k \in 1 .. Len(s) : s[j] = s[k] => j = k
    PROVE  /\ ToSet(RemoveAt(s, i)) = ToSet(s) \ {s[i]}
           /\ \A j, k \in 1 .. (Len(s) - 1) :
                RemoveAt(s, i)[j] = RemoveAt(s, i)[k] => j = k
<1> DEFINE t == RemoveAt(s, i)
<1>1. /\ DOMAIN t = 1 .. (Len(s) - 1) /\ DOMAIN s = 1 .. Len(s) /\ Len(s) \in Nat
      /\ \A j \in 1 .. (Len(s) - 1) : t[j] = IF j < i THEN s[j] ELSE s[j + 1]
  BY RemoveFromList
<1> HIDE DEF t
<1>2. \A j, k \in 1 .. (Len(s) - 1) : t[j] = t[k] => j = k
  <2> SUFFICES ASSUME NEW j \in 1 .. (Len(s) - 1), NEW k \in 1 .. (Len(s) - 1),
                      t[j] = t[k]
               PROVE  j = k
    OBVIOUS
  <2>1. j \in 1 .. Len(s) /\ j + 1 \in 1 .. Len(s) /\ k \in 1 .. Len(s) /\ k + 1 \in 1 .. Len(s)
    BY <1>1
  <2> QED BY <1>1, <2>1
<1>3. ASSUME NEW x \in ToSet(t) PROVE x \in ToSet(s) \ {s[i]}
  <2>1. PICK j \in 1 .. (Len(s) - 1) : x = t[j]
    BY <1>1, <1>3 DEF ToSet
  <2>2. \E k \in 1 .. Len(s) : k # i /\ x = s[k]
    <3>1. CASE j < i
      BY <3>1, <2>1, <1>1
    <3>2. CASE ~(j < i)
      <4>1. j + 1 \in 1 .. Len(s) /\ j + 1 # i /\ x = s[j + 1]
        BY <3>2, <2>1, <1>1
      <4> QED BY <4>1
    <3> QED BY <3>1, <3>2
  <2> QED BY <2>2, <1>1 DEF ToSet
<1>4. ASSUME NEW x \in ToSet(s) \ {s[i]} PROVE x \in ToSet(t)
  <2>1. PICK k \in 1 .. Len(s) : x = s[k] /\ k # i
    BY <1>1, <1>4 DEF ToSet
  <2>2. CASE k < i
    <3>1. k \in 1 .. (Len(s) - 1) /\ t[k] = x
      BY <2>1, <2>2, <1>1
    <3> QED BY <3>1, <1>1 DEF ToSet
  <2>3. CASE ~(k < i)
    <3>1. k - 1 \in 1 .. (Len(s) - 1) /\ ~(k - 1 < i) /\ (k - 1) + 1 = k
      BY <2>1, <2>3, <1>1
    <3>2. t[k - 1] = x
      BY <3>1, <2>1, <1>1
    <3> QED BY <3>1, <3>2, <1>1 DEF ToSet
  <2> QED BY <2>2, <2>3
<1> QED BY <1>2, <1>3, <1>4 DEF t

-----------------------------------------------------------------------------
(* Types.                                                                  *)

\* The types of the pool's state, operation by operation: a block is handed out,
LEMMA TakeType == ASSUME AllocTypeOK, NEW b \in Blocks, Take(b) PROVE AllocTypeOK'
  BY DEF AllocTypeOK, Take

\* an allocation is asked for,
LEMMA AskType == ASSUME AllocTypeOK, NEW t \in Types, Ask(t) PROVE AllocTypeOK'
  BY DEF AllocTypeOK, Ask

\* a block is returned,
LEMMA ReleaseType == ASSUME AllocTypeOK, NEW b, Release(b) PROVE AllocTypeOK'
  BY DEF AllocTypeOK, Release, allocVars

\* a request is served,
LEMMA GrowType == ASSUME AllocTypeOK, NEW t \in Types, Grow(t) PROVE AllocTypeOK'
  BY DEF AllocTypeOK, Grow, BlocksOf, Blocks, Types

\* and a queued block becomes free.
LEMMA ReclaimType == ASSUME AllocTypeOK, NEW b \in Blocks, Reclaim(b) PROVE AllocTypeOK'
  BY DEF AllocTypeOK, Reclaim

\* The write of one entry keeps tables and caches well formed.
LEMMA SetEntryType ==
    ASSUME TypeOK, NEW c \in Cpus, NEW h \in HookBlocks, rec[h] # Nil,
           NEW perms \in SUBSET Kinds, SetPML1AndInvalidateTLB(c, h, perms)
    PROVE  /\ pml1' \in [SplitBlocks -> [Offsets -> SUBSET Kinds]]
           /\ tlb' \in [Cpus -> SUBSET (Pages \X Kinds)]
  BY DEF TypeOK, SetPML1AndInvalidateTLB, Records, Pages

\* A vmcall that starts is a well-formed one.
LEMMA CallType ==
    /\ IdleOp \in Ops
    /\ \A pc \in OpStates, va \in Vas, perms \in SUBSET Kinds, ok \in BOOLEAN :
         [IdleOp EXCEPT !.pc = pc, !.va = va, !.perms = perms, !.ok = ok] \in Ops
  BY DEF IdleOp, Ops, OpStates, Searches

\* The steps of a vmcall change its progress within its type.
LEMMA OpType ==
    ASSUME NEW o \in Ops
    PROVE  /\ \A s \in Searches : [o EXCEPT !.search = s] \in Ops
           /\ [o EXCEPT !.pc = "record"] \in Ops
           /\ \A b \in SplitBlocks :
                [o EXCEPT !.pc = "split", !.buf = b, !.search = "first"] \in Ops
  BY DEF Ops, OpStates, Searches

\* A vmcall that ends is a well-formed one.
LEMMA DoneType ==
    ASSUME op \in [Cpus -> Ops], NEW c \in Cpus, NEW ok \in BOOLEAN, Done(c, ok)
    PROVE  op' \in [Cpus -> Ops]
  BY DEF Done, Ops, OpStates

\* The initial state has the shape TypeOK gives it.
LEMMA InitType == Init => TypeOK
<1> SUFFICES ASSUME Init PROVE TypeOK
  OBVIOUS
<1>1. AllocTypeOK
  BY DEF Init, AllocInit, AllocTypeOK
<1>2. op \in [Cpus -> Ops]
  BY CallType DEF Init
<1>3. hooked \in [Cpus -> Seq(HookBlocks)]
  BY DEF Init
<1>4. pml1 \in [SplitBlocks -> [Offsets -> SUBSET Kinds]]
  BY DEF Init
<1> QED BY <1>1, <1>2, <1>3, <1>4 DEF Init, TypeOK

\* The list element that a vmcall or an exit works on is a filled record.
LEMMA ListedRecord ==
    ASSUME TypeOK, LiveRecords, NEW c \in Cpus, NEW i \in 1 .. Len(hooked[c])
    PROVE  /\ hooked[c][i] \in HookBlocks
           /\ hooked[c][i] \in Listed(c)
           /\ rec[hooked[c][i]] \in Records
  BY DEF TypeOK, LiveRecords, Listed, ToSet

\* Removing a hook keeps the shape of the state.
LEMMA RemoveHookType ==
    ASSUME TypeOK, LiveRecords, NEW c \in Cpus, NEW i \in 1 .. Len(hooked[c]),
           RemoveHook(c, i)
    PROVE  /\ AllocTypeOK'
           /\ pml1' \in [SplitBlocks -> [Offsets -> SUBSET Kinds]]
           /\ tlb' \in [Cpus -> SUBSET (Pages \X Kinds)]
           /\ hooked' \in [Cpus -> Seq(HookBlocks)]
           /\ lost' \subseteq HookBlocks
<1>1. /\ hooked[c] \in Seq(HookBlocks)
      /\ hooked[c][i] \in HookBlocks
      /\ rec[hooked[c][i]] \in Records
  BY ListedRecord DEF TypeOK
<1>2. rec[hooked[c][i]] # Nil /\ rec[hooked[c][i]].original \in SUBSET Kinds
  BY <1>1, EptAssumption DEF Records
<1>3. AllocTypeOK'
  BY ReleaseType DEF RemoveHook, TypeOK
<1>4. RemoveAt(hooked[c], i) \in Seq(HookBlocks)
  BY <1>1, RemoveFromList
<1>5. hooked' \in [Cpus -> Seq(HookBlocks)]
  BY <1>4 DEF RemoveHook, TypeOK
<1> QED BY <1>1, <1>2, <1>3, <1>5, SetEntryType DEF RemoveHook, TypeOK

\* The block that a vmcall filled the record with, the shape of the record.
LEMMA InstallRecord ==
    ASSUME TypeOK, OpInv, NEW c \in Cpus, op[c].pc = "record"
    PROVE  LET page == PhysOf[op[c].va]
               table == pml2[c][page[1]]
           IN  /\ op[c].va \in Vas
               /\ page \in Pages
               /\ page = <<page[1], page[2]>>
               /\ page[1] \in Regions \ HighRegions
               /\ page[2] \in Offsets
               /\ table \in SplitBlocks
               /\ ChangedEntry(op[c].perms) \in SUBSET Kinds
               /\ [va |-> op[c].va, page |-> page, table |-> table,
                   original |-> pml1[table][page[2]],
                   changed |-> ChangedEntry(op[c].perms)] \in Records
<1> USE EptAssumption
<1>1. op[c].va \in Vas /\ PhysOf[op[c].va] # Nil
  BY DEF OpInv
<1>2. PhysOf[op[c].va] \in Pages
  BY <1>1
<1>3. /\ PhysOf[op[c].va] = <<PhysOf[op[c].va][1], PhysOf[op[c].va][2]>>
      /\ PhysOf[op[c].va][1] \in Regions
      /\ PhysOf[op[c].va][2] \in Offsets
  BY <1>2 DEF Pages
<1>4. /\ PhysOf[op[c].va][1] \notin HighRegions
      /\ pml2[c][PhysOf[op[c].va][1]] # Nil
  BY DEF OpInv
<1>5. pml2[c][PhysOf[op[c].va][1]] \in SplitBlocks
  BY <1>3, <1>4 DEF TypeOK
<1>6. ChangedEntry(op[c].perms) \in SUBSET Kinds
  BY DEF ChangedEntry
<1>7. pml1[pml2[c][PhysOf[op[c].va][1]]][PhysOf[op[c].va][2]] \in SUBSET Kinds
  BY <1>3, <1>5 DEF TypeOK
<1> QED BY <1>1, <1>2, <1>3, <1>4, <1>5, <1>6, <1>7 DEF Records

\* Every step keeps the shape of the state, given what the lists and the vmcalls
\* in progress promise.
LEMMA TypeStep == TypeOK /\ HookInv /\ [Next]_vars => TypeOK'
<1> USE EptAssumption, BlockAssumption
<1> SUFFICES ASSUME TypeOK, HookInv, [Next]_vars PROVE TypeOK'
  OBVIOUS
<1>0. LiveRecords /\ OpInv /\ NoDanglingStep
  BY DEF HookInv
<1> USE DEF TypeOK, poolVars, tableVars, hookVars, guestVars, ghosts
<1>1. ASSUME NEW c \in Cpus, GuestStep(c) PROVE TypeOK'
  <2>1. CASE GuestFetch(c)
    BY <2>1 DEF GuestFetch, AllocTypeOK
  <2>2. CASE TlbFill(c)
    BY <2>2 DEF TlbFill, AllocTypeOK, Translate, Pages
  <2>3. CASE Retire(c)
    BY <2>3 DEF Retire, AllocTypeOK
  <2>4. CASE EmulateInstruction(c)
    BY <2>4 DEF EmulateInstruction, AllocTypeOK
  <2>5. CASE Interrupt(c)
    BY <2>5 DEF Interrupt, AllocTypeOK
  <2> QED BY <1>1, <2>1, <2>2, <2>3, <2>4, <2>5 DEF GuestStep
<1>2. ASSUME NEW c \in Cpus, ExitStep(c) PROVE TypeOK'
  <2>1. CASE AllowAccess(c)
    BY <2>1, SetEntryType DEF AllowAccess, Violation, IsFirstIn, HooksOn, AllocTypeOK, Records
  <2>2. CASE BlockAccess(c)
    BY <2>2 DEF BlockAccess, AllocTypeOK
  <2>3. CASE HandleMonitorTrapFlag(c)
    <3>1. CASE stepping[c] = Nil
      BY <2>3, <3>1 DEF HandleMonitorTrapFlag, AllocTypeOK
    <3>2. CASE stepping[c] # Nil
      <4>1. stepping[c] \in HookBlocks /\ rec[stepping[c]] # Nil
        BY <1>0, <3>2 DEF NoDanglingStep
      <4>2. rec[stepping[c]].changed \in SUBSET Kinds
        BY <4>1 DEF Records
      <4> QED BY <2>3, <3>2, <4>1, <4>2, SetEntryType DEF HandleMonitorTrapFlag, AllocTypeOK
    <3> QED BY <3>1, <3>2
  <2> QED BY <1>2, <2>1, <2>2, <2>3 DEF ExitStep
<1>3. ASSUME NEW c \in Cpus, VmcallStart(c) PROVE TypeOK'
  <2>1. ASSUME NEW va \in Vas, NEW perms \in Permissions, HookStart(c, va, perms)
        PROVE  TypeOK'
    <3>1. op' \in [Cpus -> Ops]
      BY <2>1, CallType DEF HookStart, OpStates
    <3> QED BY <2>1, <3>1 DEF HookStart, AllocTypeOK
  <2>2. ASSUME NEW va \in Vas, PageUnhook(c, va) PROVE TypeOK'
    <3>1. op' \in [Cpus -> Ops]
      <4>1. [IdleOp EXCEPT !.pc = "done", !.va = va, !.ok = IsHookExists(c, va)] \in Ops
        BY DEF IdleOp, Ops, OpStates, Searches, IsHookExists
      <4> QED BY <2>2, <4>1 DEF PageUnhook
    <3>2. CASE \E i \in 1 .. Len(hooked[c]) :
                 IsFirstIn(hooked[c], i, HooksOf(va)) /\ RemoveHook(c, i)
      BY <1>0, <2>2, <3>1, <3>2, RemoveHookType DEF PageUnhook
    <3>3. CASE UNCHANGED <<poolVars, pml1, tlb, hooked, lost>>
      BY <2>2, <3>1, <3>3 DEF PageUnhook, AllocTypeOK
    <3> QED BY <2>2, <3>2, <3>3 DEF PageUnhook
  <2>3. CASE UnhookAllStart(c)
    BY <2>3 DEF UnhookAllStart, IdleOp, Ops, OpStates, Searches, AllocTypeOK
  <2> QED BY <1>3, <2>1, <2>2, <2>3 DEF VmcallStart
<1>4. ASSUME NEW c \in Cpus, VmcallStep(c) PROVE TypeOK'
  <2> op[c] \in Ops
    OBVIOUS
  <2>0. CASE SearchFails(c)
    BY <2>0, OpType DEF SearchFails, Searches, AllocTypeOK
  <2>1. CASE AskForBlock(c)
    <3>1. AllocTypeOK'
      BY <2>1, AskType DEF AskForBlock, Wanted, Types
    <3>2. op' \in [Cpus -> Ops]
      <4>1. PICK x \in {"asked", "late"} : op' = [op EXCEPT ![c] = [@ EXCEPT !.search = x]]
        BY <2>1 DEF AskForBlock
      <4>2. x \in Searches
        BY DEF Searches
      <4> QED BY <4>1, <4>2, OpType
    <3> QED BY <2>1, <3>1, <3>2 DEF AskForBlock
  <2>2. CASE AllocateBuffer(c)
    <3>1. AllocTypeOK'
      BY <2>2, TakeType DEF AllocateBuffer, Blocks
    <3>2. op' \in [Cpus -> Ops]
      <4>1. PICK b \in SplitBlocks :
              op' = [op EXCEPT ![c] = [@ EXCEPT !.pc = "split", !.buf = b, !.search = "first"]]
        BY <2>2 DEF AllocateBuffer
      <4> QED BY <4>1, OpType
    <3> QED BY <2>2, <3>1, <3>2 DEF AllocateBuffer
  <2>3. CASE BufferDenied(c)
    BY <2>3, DoneType DEF BufferDenied, AllocTypeOK
  <2>4. CASE SplitLargePage(c)
    <3>1. op[c].buf \in SplitBlocks
      <4>1. op[c].buf # Nil
        BY <1>0, <2>4 DEF SplitLargePage, OpInv
      <4> QED BY <4>1 DEF Ops
    <3>2. CASE Release(op[c].buf) /\ Done(c, FALSE) /\ UNCHANGED <<pml1, pml2>>
      BY <2>4, <3>2, DoneType, ReleaseType DEF SplitLargePage
    <3>3. CASE /\ Release(op[c].buf)
               /\ op' = [op EXCEPT ![c] = [@ EXCEPT !.pc = "record"]]
               /\ UNCHANGED <<pml1, pml2>>
      BY <2>4, <3>3, OpType, ReleaseType DEF SplitLargePage
    <3>4. CASE /\ pml1' = [pml1 EXCEPT ![op[c].buf] = [o \in Offsets |-> Kinds]]
               /\ pml2' = [pml2 EXCEPT ![c][PhysOf[op[c].va][1]] = op[c].buf]
               /\ op' = [op EXCEPT ![c] = [@ EXCEPT !.pc = "record"]]
               /\ UNCHANGED poolVars
      <4>1. pml1' \in [SplitBlocks -> [Offsets -> SUBSET Kinds]]
        BY <3>4
      <4>2. pml2' \in [Cpus -> [Regions -> SplitBlocks \cup {Nil}]]
        BY <3>1, <3>4
      <4>3. op' \in [Cpus -> Ops]
        BY <3>4, OpType
      <4> QED BY <2>4, <3>4, <4>1, <4>2, <4>3 DEF SplitLargePage, AllocTypeOK
    <3> QED BY <2>4, <3>2, <3>3, <3>4 DEF SplitLargePage
  <2>5. CASE InstallHook(c)
    <3> DEFINE page == PhysOf[op[c].va]
               table == pml2[c][page[1]]
               changed == ChangedEntry(op[c].perms)
               new == [va |-> op[c].va, page |-> page, table |-> table,
                       original |-> pml1[table][page[2]], changed |-> changed]
    <3>0. /\ table \in SplitBlocks /\ page[2] \in Offsets
          /\ changed \in SUBSET Kinds /\ new \in Records
      BY <1>0, <2>5, InstallRecord DEF InstallHook
    <3> PICK h \in HookBlocks :
             /\ Take(h)
             /\ rec' = [rec EXCEPT ![h] = new]
             /\ hooked' = [hooked EXCEPT ![c] = Cons(h, @)]
             /\ pml1' = [pml1 EXCEPT ![table][page[2]] = changed]
      BY <2>5 DEF InstallHook
    <3> HIDE DEF page, table, changed, new
    <3>1. AllocTypeOK' /\ op' \in [Cpus -> Ops]
      BY <2>5, TakeType, DoneType DEF InstallHook, Blocks
    <3>2. rec' \in [HookBlocks -> Records \cup {Nil}]
      BY <3>0
    <3>3. pml1' \in [SplitBlocks -> [Offsets -> SUBSET Kinds]]
      BY <3>0
    <3>4. hooked' \in [Cpus -> Seq(HookBlocks)]
      BY ConsList
    <3> QED BY <2>5, <3>1, <3>2, <3>3, <3>4 DEF InstallHook
  <2>6. CASE RecordDenied(c)
    BY <2>6, DoneType, ReleaseType DEF RecordDenied
  <2>7. CASE UnhookAllPages(c)
    <3>1. CASE hooked[c] # <<>> /\ RemoveHook(c, 1) /\ UNCHANGED op
      <4>1. 1 \in 1 .. Len(hooked[c])
        BY <3>1
      <4> QED BY <1>0, <2>7, <3>1, <4>1, RemoveHookType DEF UnhookAllPages
    <3>2. CASE Done(c, TRUE) /\ UNCHANGED <<poolVars, pml1, tlb, hooked, lost>>
      BY <2>7, <3>2, DoneType DEF UnhookAllPages, AllocTypeOK
    <3> QED BY <2>7, <3>1, <3>2 DEF UnhookAllPages
  <2>8. CASE VmcallReturn(c)
    BY <2>8, CallType DEF VmcallReturn, AllocTypeOK
  <2> QED BY <1>4, <2>0, <2>1, <2>2, <2>3, <2>4, <2>5, <2>6, <2>7, <2>8 DEF VmcallStep
<1>5. ASSUME PoolStep PROVE TypeOK'
  <2>1. ASSUME NEW t \in Types, GrowPool(t) PROVE TypeOK'
    BY <2>1, GrowType DEF GrowPool
  <2>2. ASSUME NEW b \in Blocks, ReclaimBlock(b) PROVE TypeOK'
    BY <2>2, ReclaimType DEF ReclaimBlock
  <2> QED BY <1>5, <2>1, <2>2 DEF PoolStep
<1>6. CASE UNCHANGED vars
  BY <1>6 DEF vars, AllocTypeOK
<1> QED BY <1>1, <1>2, <1>3, <1>4, <1>5, <1>6 DEF Next

-----------------------------------------------------------------------------
(* Lists, records and vmcalls.                                             *)

\* The pool may do anything with blocks that are not listed, and regions may get
\* tables: the listed records are as they were.
LEMMA ListFrame ==
    ASSUME TypeOK, LiveRecords, RecordInv, UNCHANGED <<hooked, rec>>,
           \A h \in HookBlocks : status[h] = "used" /\ queued[h] = 0 =>
               status'[h] = "used" /\ queued'[h] = 0,
           \A c \in Cpus, r \in Regions : pml2[c][r] # Nil => pml2'[c][r] = pml2[c][r]
    PROVE  LiveRecords' /\ RecordInv'
<1> USE EptAssumption
<1>1. RecordInv'
  BY DEF RecordInv, Listed
<1>2. LiveRecords'
  <2> SUFFICES ASSUME NEW c \in Cpus, NEW i \in DOMAIN hooked[c]
               PROVE  LET h == hooked[c][i]
                      IN  /\ status'[h] = "used" /\ queued'[h] = 0 /\ rec[h] # Nil
                          /\ rec[h].table = pml2'[c][rec[h].page[1]]
                          /\ \A d \in Cpus : \A j \in DOMAIN hooked[d] :
                               hooked[d][j] = h => d = c /\ j = i
                          /\ \A j \in DOMAIN hooked[c] :
                               rec[hooked[c][j]].va = rec[h].va => j = i
    BY DEF LiveRecords
  <2>1. hooked[c][i] \in HookBlocks /\ rec[hooked[c][i]] \in Records
    <3>1. i \in 1 .. Len(hooked[c])
      BY DEF TypeOK
    <3> QED BY <3>1, ListedRecord
  <2>2. rec[hooked[c][i]].table = pml2'[c][rec[hooked[c][i]].page[1]]
    <3>1. rec[hooked[c][i]].table = pml2[c][rec[hooked[c][i]].page[1]]
      BY DEF LiveRecords
    <3>2. rec[hooked[c][i]].table # Nil /\ rec[hooked[c][i]].page[1] \in Regions
      BY <2>1 DEF Records, Pages
    <3> QED BY <3>1, <3>2
  <2> QED BY <2>1, <2>2 DEF LiveRecords
<1> QED BY <1>1, <1>2

\* A record leaves a list: the others stay as they were.
LEMMA ListRemove ==
    ASSUME TypeOK, LiveRecords, RecordInv, UNCHANGED <<rec, pml2>>,
           NEW c \in Cpus, NEW i \in 1 .. Len(hooked[c]), RemoveHook(c, i)
    PROVE  /\ LiveRecords' /\ RecordInv'
           /\ Listed(c)' = Listed(c) \ {hooked[c][i]}
           /\ \A d \in Cpus \ {c} : Listed(d)' = Listed(d)
<1> DEFINE h == hooked[c][i]
           new == RemoveAt(hooked[c], i)
<1>1. /\ hooked[c] \in Seq(HookBlocks)
      /\ \A j, k \in 1 .. Len(hooked[c]) : hooked[c][j] = hooked[c][k] => j = k
  BY DEF TypeOK, LiveRecords
<1>2. /\ new \in Seq(HookBlocks)
      /\ Len(new) = Len(hooked[c]) - 1
      /\ \A j \in 1 .. (Len(hooked[c]) - 1) :
           new[j] = IF j < i THEN hooked[c][j] ELSE hooked[c][j + 1]
      /\ ToSet(new) = ToSet(hooked[c]) \ {h}
  <2>1. ToSet(new) = ToSet(hooked[c]) \ {h}
    BY <1>1, RemovedElement
  <2> QED BY <1>1, <2>1, RemoveFromList
<1>3. /\ hooked' = [hooked EXCEPT ![c] = new]
      /\ \A x \in Blocks \ {h} : status'[x] = status[x] /\ queued'[x] = queued[x]
  BY DEF RemoveHook, Release, TypeOK, AllocTypeOK, allocVars
<1> HIDE DEF new, h
<1>4. /\ Listed(c)' = Listed(c) \ {h}
      /\ \A d \in Cpus \ {c} : Listed(d)' = Listed(d)
  BY <1>2, <1>3 DEF Listed, TypeOK
<1>5. RecordInv'
  BY <1>4 DEF RecordInv
<1>6. ASSUME NEW d \in Cpus, NEW j \in DOMAIN hooked'[d]
      PROVE  \E k \in DOMAIN hooked[d] :
               /\ hooked'[d][j] = hooked[d][k]
               /\ (d = c => k # i /\ k = IF j < i THEN j ELSE j + 1)
               /\ (d # c => k = j)
  <2>1. CASE d = c
    <3>1. hooked'[d] = new /\ j \in 1 .. (Len(hooked[c]) - 1)
      BY <1>1, <1>2, <1>3, <1>6, <2>1 DEF TypeOK
    <3>2. (IF j < i THEN j ELSE j + 1) \in DOMAIN hooked[d]
      BY <1>1, <2>1, <3>1
    <3> QED BY <1>2, <2>1, <3>1, <3>2
  <2>2. CASE d # c
    BY <1>3, <1>6, <2>2 DEF TypeOK
  <2> QED BY <2>1, <2>2
<1>7. LiveRecords'
  <2> SUFFICES ASSUME NEW d \in Cpus, NEW j \in DOMAIN hooked'[d]
               PROVE  LET g == hooked'[d][j]
                      IN  /\ status'[g] = "used" /\ queued'[g] = 0 /\ rec[g] # Nil
                          /\ rec[g].table = pml2[d][rec[g].page[1]]
                          /\ \A e \in Cpus : \A k \in DOMAIN hooked'[e] :
                               hooked'[e][k] = g => e = d /\ k = j
                          /\ \A k \in DOMAIN hooked'[d] :
                               rec[hooked'[d][k]].va = rec[g].va => k = j
    BY DEF LiveRecords
  <2>1. PICK k \in DOMAIN hooked[d] :
               /\ hooked'[d][j] = hooked[d][k]
               /\ (d = c => k # i /\ k = IF j < i THEN j ELSE j + 1)
               /\ (d # c => k = j)
    BY <1>6
  <2>2. hooked[d][k] \in HookBlocks /\ hooked[d][k] # h
    BY <2>1 DEF LiveRecords, TypeOK, h
  <2>3. /\ status'[hooked[d][k]] = "used" /\ queued'[hooked[d][k]] = 0
        /\ rec[hooked[d][k]] # Nil
        /\ rec[hooked[d][k]].table = pml2[d][rec[hooked[d][k]].page[1]]
    BY <1>3, <2>2 DEF LiveRecords, Blocks
  <2>4. ASSUME NEW e \in Cpus, NEW l \in DOMAIN hooked'[e], hooked'[e][l] = hooked'[d][j]
        PROVE  e = d /\ l = j
    <3>1. PICK m \in DOMAIN hooked[e] :
                 /\ hooked'[e][l] = hooked[e][m]
                 /\ (e = c => m # i /\ m = IF l < i THEN l ELSE l + 1)
                 /\ (e # c => m = l)
      BY <1>6
    <3>2. e = d /\ m = k
      <4>1. hooked[e][m] = hooked[d][k]
        BY <2>1, <2>4, <3>1
      <4> QED BY <4>1 DEF LiveRecords
    <3>3. l \in Nat /\ j \in Nat /\ i \in Nat
      <4>1. hooked'[e] \in Seq(HookBlocks) /\ hooked'[d] \in Seq(HookBlocks)
        BY <1>2, <1>3 DEF TypeOK
      <4> QED BY <4>1
    <3> QED BY <2>1, <3>1, <3>2, <3>3
  <2>5. ASSUME NEW l \in DOMAIN hooked'[d], rec[hooked'[d][l]].va = rec[hooked'[d][j]].va
        PROVE  l = j
    <3>1. PICK m \in DOMAIN hooked[d] : hooked'[d][l] = hooked[d][m]
      BY <1>6
    <3>2. m = k
      BY <2>1, <2>5, <3>1 DEF LiveRecords
    <3> QED BY <2>1, <2>4, <3>1, <3>2
  <2> QED BY <2>1, <2>3, <2>4, <2>5
<1> QED BY <1>4, <1>5, <1>7 DEF h

\* A record is filled and put at the head of the list.
LEMMA ListInsert ==
    ASSUME TypeOK, HookInv, NEW c \in Cpus, InstallHook(c)
    PROVE  /\ LiveRecords' /\ RecordInv'
           /\ Listed(c) \subseteq Listed(c)'
           /\ \A d \in Cpus \ {c} : Listed(d)' = Listed(d)
           /\ \A d \in Cpus : \A h \in Listed(d) : rec'[h] = rec[h]
<1> USE EptAssumption
<1> DEFINE page == PhysOf[op[c].va]
           table == pml2[c][page[1]]
           new == [va |-> op[c].va, page |-> page, table |-> table,
                   original |-> pml1[table][page[2]],
                   changed |-> ChangedEntry(op[c].perms)]
<1>0. LiveRecords /\ RecordInv /\ OpInv /\ HookQueueInv
  BY DEF HookInv
<1>1. /\ new \in Records /\ page[1] \notin HighRegions /\ op[c].va \in Vas
      /\ \A h \in Listed(c) : rec[h].va # op[c].va
      /\ new.va = op[c].va /\ new.page = page /\ new.table = table
  BY <1>0, InstallRecord DEF InstallHook, OpInv
<1>2. PICK h \in HookBlocks :
         /\ Take(h)
         /\ rec' = [rec EXCEPT ![h] = new]
         /\ hooked' = [hooked EXCEPT ![c] = Cons(h, @)]
  BY DEF InstallHook
<1> HIDE DEF new
<1>3. /\ \A d \in Cpus : \A k \in DOMAIN hooked[d] :
           hooked[d][k] \in HookBlocks /\ hooked[d][k] \in Listed(d) /\ hooked[d][k] # h
      /\ \A d \in Cpus : \A g \in Listed(d) : g \in HookBlocks /\ g # h
  BY <1>0, <1>2 DEF LiveRecords, Listed, ToSet, Take, TypeOK
<1>4. /\ hooked'[c] \in Seq(HookBlocks)
      /\ Len(hooked'[c]) = Len(hooked[c]) + 1
      /\ hooked'[c][1] = h
      /\ \A k \in 1 .. Len(hooked[c]) : hooked'[c][k + 1] = hooked[c][k]
      /\ Listed(c)' = {h} \cup Listed(c)
      /\ \A d \in Cpus \ {c} : hooked'[d] = hooked[d] /\ Listed(d)' = Listed(d)
  <2>1. hooked[c] \in Seq(HookBlocks) /\ hooked'[c] = Cons(h, hooked[c])
    BY <1>2 DEF TypeOK
  <2>2. /\ hooked'[c] \in Seq(HookBlocks)
        /\ Len(hooked'[c]) = Len(hooked[c]) + 1
        /\ hooked'[c][1] = h
        /\ \A k \in 1 .. Len(hooked[c]) : hooked'[c][k + 1] = hooked[c][k]
        /\ ToSet(hooked'[c]) = {h} \cup ToSet(hooked[c])
    <3>1. /\ Cons(h, hooked[c]) \in Seq(HookBlocks)
          /\ Len(Cons(h, hooked[c])) = Len(hooked[c]) + 1
          /\ Cons(h, hooked[c])[1] = h
          /\ \A k \in 1 .. Len(hooked[c]) : Cons(h, hooked[c])[k + 1] = hooked[c][k]
          /\ ToSet(Cons(h, hooked[c])) = {h} \cup ToSet(hooked[c])
      BY <1>2, <2>1, ConsList
    <3> QED BY <2>1, <3>1, Zenon
  <2>3. \A d \in Cpus \ {c} : hooked'[d] = hooked[d]
    BY <1>2 DEF TypeOK
  <2> QED BY <2>2, <2>3 DEF Listed
<1>5. /\ rec'[h] = new
      /\ \A g \in HookBlocks \ {h} : rec'[g] = rec[g]
      /\ \A g \in Blocks \ {h} : status'[g] = status[g]
      /\ status[h] = "free" /\ status'[h] = "used" /\ queued' = queued /\ pml2' = pml2
  <2>1. status \in [Blocks -> {"absent", "free", "used"}] /\ h \in Blocks
    BY DEF TypeOK, AllocTypeOK, Blocks
  <2>2. pml2' = pml2
    BY DEF InstallHook
  <2>3. rec'[h] = new /\ \A g \in HookBlocks \ {h} : rec'[g] = rec[g]
    BY <1>2 DEF TypeOK
  <2> QED BY <1>2, <2>1, <2>2, <2>3 DEF Take
<1>6. queued[h] = 0
  <2>1. queued[h] \in Nat /\ status[h] # "used"
    BY <1>5 DEF TypeOK, AllocTypeOK, Blocks
  <2> QED BY <1>0, <2>1 DEF HookQueueInv
<1>7. RecordInv'
  BY <1>0, <1>1, <1>3, <1>4, <1>5 DEF RecordInv
<1>8. ASSUME NEW d \in Cpus, NEW j \in DOMAIN hooked'[d]
      PROVE  \/ d = c /\ j = 1 /\ hooked'[d][j] = h
             \/ \E k \in DOMAIN hooked[d] :
                  /\ hooked'[d][j] = hooked[d][k]
                  /\ IF d = c THEN j = k + 1 ELSE j = k
  <2>1. CASE d = c
    <3>1. j \in 1 .. (Len(hooked[c]) + 1) /\ Len(hooked[c]) \in Nat
      BY <1>4, <1>8, <2>1 DEF TypeOK
    <3>2. CASE j = 1
      BY <1>4, <2>1, <3>2
    <3>3. CASE j # 1
      <4>1. j - 1 \in DOMAIN hooked[c] /\ j - 1 \in 1 .. Len(hooked[c]) /\ (j - 1) + 1 = j
        BY <3>1, <3>3 DEF TypeOK
      <4> QED BY <1>4, <2>1, <4>1
    <3> QED BY <3>2, <3>3
  <2>2. CASE d # c
    BY <1>4, <1>8, <2>2
  <2> QED BY <2>1, <2>2
<1>9. LiveRecords'
  <2> SUFFICES ASSUME NEW d \in Cpus, NEW j \in DOMAIN hooked'[d]
               PROVE  LET g == hooked'[d][j]
                      IN  /\ status'[g] = "used" /\ queued'[g] = 0 /\ rec'[g] # Nil
                          /\ rec'[g].table = pml2'[d][rec'[g].page[1]]
                          /\ \A e \in Cpus : \A k \in DOMAIN hooked'[e] :
                               hooked'[e][k] = g => e = d /\ k = j
                          /\ \A k \in DOMAIN hooked'[d] :
                               rec'[hooked'[d][k]].va = rec'[g].va => k = j
    BY DEF LiveRecords
  <2>1. CASE d = c /\ j = 1 /\ hooked'[d][j] = h
    <3>1. /\ status'[h] = "used" /\ queued'[h] = 0 /\ rec'[h] # Nil
          /\ rec'[h].table = pml2'[d][rec'[h].page[1]]
      BY <1>1, <1>5, <1>6, <2>1
    <3>2. ASSUME NEW e \in Cpus, NEW k \in DOMAIN hooked'[e],
                 hooked'[e][k] = h \/ (e = c /\ rec'[hooked'[e][k]].va = rec'[h].va)
          PROVE  e = d /\ k = j
      <4>1. CASE e = c /\ k = 1
        BY <2>1, <4>1
      <4>2. CASE \E m \in DOMAIN hooked[e] : hooked'[e][k] = hooked[e][m]
        BY <1>1, <1>3, <1>5, <3>2, <4>2
      <4> QED BY <1>8, <4>1, <4>2
    <3> QED BY <2>1, <3>1, <3>2
  <2>2. ASSUME NEW k \in DOMAIN hooked[d], hooked'[d][j] = hooked[d][k],
               IF d = c THEN j = k + 1 ELSE j = k
        PROVE  LET g == hooked'[d][j]
               IN  /\ status'[g] = "used" /\ queued'[g] = 0 /\ rec'[g] # Nil
                   /\ rec'[g].table = pml2'[d][rec'[g].page[1]]
                   /\ \A e \in Cpus : \A l \in DOMAIN hooked'[e] :
                        hooked'[e][l] = g => e = d /\ l = j
                   /\ \A l \in DOMAIN hooked'[d] :
                        rec'[hooked'[d][l]].va = rec'[g].va => l = j
    <3>1. /\ hooked[d][k] \in HookBlocks /\ hooked[d][k] \in Listed(d)
          /\ hooked[d][k] # h /\ rec'[hooked[d][k]] = rec[hooked[d][k]]
          /\ status'[hooked[d][k]] = status[hooked[d][k]]
      BY <1>3, <1>5 DEF Blocks
    <3>2. /\ status[hooked[d][k]] = "used" /\ queued[hooked[d][k]] = 0
          /\ rec[hooked[d][k]] # Nil
          /\ rec[hooked[d][k]].table = pml2[d][rec[hooked[d][k]].page[1]]
      BY <1>0 DEF LiveRecords
    <3>3. ASSUME NEW e \in Cpus, NEW l \in DOMAIN hooked'[e], hooked'[e][l] = hooked[d][k]
          PROVE  e = d /\ l = j
      <4>1. PICK m \in DOMAIN hooked[e] :
                   hooked'[e][l] = hooked[e][m] /\ IF e = c THEN l = m + 1 ELSE l = m
        BY <1>8, <3>1, <3>3
      <4>2. e = d /\ m = k
        <5>1. hooked[e][m] = hooked[d][k]
          BY <3>3, <4>1
        <5> QED BY <1>0, <5>1 DEF LiveRecords
      <4> QED BY <2>2, <4>1, <4>2
    <3>4. ASSUME NEW l \in DOMAIN hooked'[d], rec'[hooked'[d][l]].va = rec[hooked[d][k]].va
          PROVE  l = j
      <4>1. CASE d = c /\ hooked'[d][l] = h
        BY <1>1, <1>5, <3>1, <3>4, <4>1
      <4>2. CASE \E m \in DOMAIN hooked[d] : hooked'[d][l] = hooked[d][m]
        <5>1. PICK m \in DOMAIN hooked[d] : hooked'[d][l] = hooked[d][m]
          BY <4>2
        <5>2. rec'[hooked[d][m]] = rec[hooked[d][m]]
          BY <1>3, <1>5
        <5>3. m = k
          BY <1>0, <3>4, <5>1, <5>2 DEF LiveRecords
        <5> QED BY <3>3, <5>1, <5>3
      <4> QED BY <1>8, <4>1, <4>2
    <3> QED BY <1>5, <2>2, <3>1, <3>2, <3>3, <3>4
  <2> QED BY <1>8, <2>1, <2>2
<1> QED BY <1>3, <1>4, <1>5, <1>7, <1>9

\* Nothing but the guest's state and the entries changes.
LEMMA GuestFrame ==
    ASSUME HookInv, UNCHANGED <<poolVars, pml2, hookVars, op>>
    PROVE  LiveRecords' /\ RecordInv' /\ OpInv' /\ HookQueueInv'
  BY DEF HookInv, LiveRecords, RecordInv, OpInv, HookQueueInv, Listed, poolVars, hookVars

\* Nothing but vmcalls in progress and blocks that are not listed changes.
LEMMA VmcallFrame ==
    ASSUME TypeOK, HookInv, UNCHANGED <<hooked, rec, guestVars>>,
           NEW c \in Cpus, \A d \in Cpus \ {c} : op'[d] = op[d],
           ~trap[c] /\ insn[c] = Nil,
           \A h \in HookBlocks : status[h] = "used" /\ queued[h] = 0 =>
               status'[h] = "used" /\ queued'[h] = 0,
           \A d \in Cpus, r \in Regions : pml2[d][r] # Nil => pml2'[d][r] = pml2[d][r],
           op'[c].pc \in {"buffer", "split", "record"} =>
               /\ op'[c].va \in Vas
               /\ PhysOf[op'[c].va] # Nil
               /\ \A h \in Listed(c) : rec[h].va # op'[c].va
               /\ op'[c].pc = "split" => op'[c].buf # Nil
               /\ op'[c].pc = "record" =>
                    /\ PhysOf[op'[c].va][1] \notin HighRegions
                    /\ pml2'[c][PhysOf[op'[c].va][1]] # Nil
    PROVE  RootQuiet' /\ NoDanglingStep' /\ OpInv' /\ LiveRecords' /\ RecordInv'
<1> USE EptAssumption
<1>1. LiveRecords' /\ RecordInv'
  BY ListFrame DEF HookInv
<1>2. RootQuiet'
  BY DEF HookInv, RootQuiet, InGuest, guestVars
<1>3. NoDanglingStep'
  BY DEF HookInv, NoDanglingStep, Listed, guestVars
<1>4. OpInv'
  <2> SUFFICES ASSUME NEW d \in Cpus, op'[d].pc \in {"buffer", "split", "record"}
               PROVE  /\ op'[d].va \in Vas
                      /\ PhysOf[op'[d].va] # Nil
                      /\ \A h \in Listed(d) : rec[h].va # op'[d].va
                      /\ op'[d].pc = "split" => op'[d].buf # Nil
                      /\ op'[d].pc = "record" =>
                           /\ PhysOf[op'[d].va][1] \notin HighRegions
                           /\ pml2'[d][PhysOf[op'[d].va][1]] # Nil
    BY DEF OpInv, Listed
  <2>1. CASE d = c
    BY <2>1
  <2>2. CASE d # c
    <3>1. op'[d] = op[d]
      BY <2>2
    <3>2. OpInv
      BY DEF HookInv
    <3>3. PhysOf[op[d].va] \in Pages => PhysOf[op[d].va][1] \in Regions
      BY DEF Pages
    <3> QED BY <3>1, <3>2, <3>3 DEF OpInv
  <2> QED BY <2>1, <2>2
<1> QED BY <1>1, <1>2, <1>3, <1>4

\* The guest's own steps leave the hooks as they are.
LEMMA GuestKeepsHooks ==
    ASSUME TypeOK, HookInv, NEW c \in Cpus, GuestStep(c)
    PROVE  HookInv'
<1> USE EptAssumption DEF poolVars, tableVars, hookVars, guestVars, ghosts
<1>1. LiveRecords' /\ RecordInv' /\ OpInv' /\ HookQueueInv'
  BY GuestFrame DEF GuestStep, GuestFetch, TlbFill, Retire, EmulateInstruction, Interrupt
<1>2. NoDanglingStep'
  BY DEF HookInv, NoDanglingStep, Listed, GuestStep, GuestFetch, TlbFill, Retire,
         EmulateInstruction, Interrupt
<1>3. RootQuiet'
  BY DEF TypeOK, HookInv, RootQuiet, InGuest, AtBoundary, CanRetire, GuestStep,
         GuestFetch, TlbFill, Retire, EmulateInstruction, Interrupt
<1> QED BY <1>1, <1>2, <1>3 DEF HookInv

\* Opening and closing a page keeps the pointer to the record to close right.
LEMMA ExitKeepsHooks ==
    ASSUME TypeOK, HookInv, NEW c \in Cpus, ExitStep(c)
    PROVE  HookInv'
<1> USE EptAssumption DEF poolVars, tableVars, hookVars, guestVars, ghosts
<1>0. RootQuiet /\ NoDanglingStep /\ LiveRecords
  BY DEF HookInv
<1>1. LiveRecords' /\ RecordInv' /\ OpInv' /\ HookQueueInv'
  BY GuestFrame DEF ExitStep, AllowAccess, BlockAccess, HandleMonitorTrapFlag
<1>2. CASE AllowAccess(c)
  <2>1. PICK i \in 1 .. Len(hooked[c]) :
               /\ stepping' = [stepping EXCEPT ![c] = hooked[c][i]]
               /\ insn[c] # Nil /\ insn[c].kernel /\ InGuest(c)
    BY <1>2 DEF AllowAccess, Violation, IsAccessFromKernelImage
  <2>2. /\ hooked[c][i] \in HookBlocks /\ hooked[c][i] \in Listed(c)
        /\ rec[hooked[c][i]] # Nil /\ hooked[c][i] # Nil
    BY <1>0, <2>1, ListedRecord
  <2>3. NoDanglingStep'
    BY <1>0, <1>2, <2>1, <2>2 DEF AllowAccess, NoDanglingStep, Listed, TypeOK
  <2>4. RootQuiet'
    BY <1>0, <1>2, <2>1 DEF AllowAccess, RootQuiet, InGuest, TypeOK
  <2> QED BY <1>1, <2>3, <2>4 DEF HookInv
<1>3. CASE BlockAccess(c)
  <2>1. NoDanglingStep'
    BY <1>0, <1>3 DEF BlockAccess, NoDanglingStep, Listed
  <2>2. RootQuiet'
    BY <1>0, <1>3 DEF BlockAccess, RootQuiet, InGuest, TypeOK
  <2> QED BY <1>1, <2>1, <2>2 DEF HookInv
<1>4. CASE HandleMonitorTrapFlag(c)
  <2>1. NoDanglingStep'
    BY <1>0, <1>4 DEF HandleMonitorTrapFlag, NoDanglingStep, Listed, TypeOK
  <2>2. RootQuiet'
    BY <1>0, <1>4 DEF HandleMonitorTrapFlag, RootQuiet, InGuest, TypeOK
  <2> QED BY <1>1, <2>1, <2>2 DEF HookInv
<1> QED BY <1>2, <1>3, <1>4 DEF ExitStep

\* What a release does: at most one more entry in the queue, nothing else.
LEMMA ReleaseEffect ==
    ASSUME AllocTypeOK, NEW b, Release(b)
    PROVE  /\ status' = status
           /\ \A x \in Blocks \ {b} : queued'[x] = queued[x]
           /\ b \in Blocks => queued'[b] \in {queued[b], queued[b] + 1}
  BY DEF AllocTypeOK, Release, allocVars

\* A hook is removed at a boundary, where no single step can point to it.
LEMMA RemoveKeepsHooks ==
    ASSUME TypeOK, HookInv, NEW c \in Cpus, NEW i \in 1 .. Len(hooked[c]), RemoveHook(c, i),
           UNCHANGED <<rec, pml2, guestVars>>, ~trap[c] /\ insn[c] = Nil,
           \A d \in Cpus \ {c} : op'[d] = op[d],
           op'[c].pc \notin {"buffer", "split", "record"}
    PROVE  HookInv'
<1> USE EptAssumption
<1> DEFINE h == hooked[c][i]
<1>0. RootQuiet /\ NoDanglingStep /\ OpInv /\ RecordInv /\ LiveRecords /\ HookQueueInv
  BY DEF HookInv
<1>1. /\ LiveRecords' /\ RecordInv'
      /\ Listed(c)' = Listed(c) \ {h}
      /\ \A d \in Cpus \ {c} : Listed(d)' = Listed(d)
  BY <1>0, ListRemove
<1>2. h \in HookBlocks /\ queued[h] = 0 /\ status[h] = "used"
  <2>1. i \in DOMAIN hooked[c]
    BY DEF TypeOK
  <2> QED BY <1>0, <2>1, ListedRecord DEF LiveRecords
<1> HIDE DEF h
<1>3. HookQueueInv'
  <2>1. /\ status' = status
        /\ \A x \in Blocks \ {h} : queued'[x] = queued[x]
        /\ queued'[h] \in {0, 1}
    BY <1>2, ReleaseEffect DEF RemoveHook, TypeOK, Blocks, h
  <2> QED BY <1>0, <1>2, <2>1 DEF HookQueueInv, Blocks
<1>4. RootQuiet'
  BY <1>0 DEF RootQuiet, InGuest, guestVars
<1>5. NoDanglingStep'
  <2>1. \A d \in Cpus : stepping[d] # Nil => d # c
    BY <1>0 DEF NoDanglingStep
  <2> QED BY <1>0, <1>1, <2>1 DEF NoDanglingStep, guestVars
<1>6. OpInv'
  BY <1>0, <1>1 DEF OpInv
<1> QED BY <1>1, <1>3, <1>4, <1>5, <1>6 DEF HookInv

\* A vmcall starts at a boundary and finds or removes the record of its address.
LEMMA VmcallStartKeepsHooks ==
    ASSUME TypeOK, HookInv, NEW c \in Cpus, VmcallStart(c)
    PROVE  HookInv'
<1> USE EptAssumption DEF poolVars, tableVars, hookVars, ghosts
<1>1. ASSUME NEW va \in Vas, NEW perms \in Permissions, HookStart(c, va, perms)
      PROVE  HookInv'
  <2>1. /\ ~trap[c] /\ insn[c] = Nil
        /\ UNCHANGED <<status, requests, queued, pml2, hooked, rec, guestVars>>
        /\ \A d \in Cpus \ {c} : op'[d] = op[d]
    BY <1>1 DEF HookStart, AtBoundary, TypeOK
  <2>2. op'[c].pc \in {"buffer", "split", "record"} =>
          /\ op'[c].pc = "buffer" /\ op'[c].va = va
          /\ PhysOf[va] # Nil /\ ~IsHookExists(c, va)
    BY <1>1 DEF HookStart, TypeOK, IdleOp
  <2>3. ~IsHookExists(c, va) => \A h \in Listed(c) : rec[h].va # va
    BY DEF IsHookExists, HooksOf, HookInv, LiveRecords, Listed, ToSet, TypeOK
  <2>4. HookQueueInv'
    BY <2>1 DEF HookInv, HookQueueInv
  <2> QED BY <2>1, <2>2, <2>3, <2>4, VmcallFrame DEF HookInv
<1>2. ASSUME NEW va \in Vas, PageUnhook(c, va) PROVE HookInv'
  <2>1. /\ ~trap[c] /\ insn[c] = Nil
        /\ UNCHANGED <<pml2, rec, guestVars>>
        /\ \A d \in Cpus \ {c} : op'[d] = op[d]
        /\ op'[c].pc = "done"
    BY <1>2 DEF PageUnhook, AtBoundary, TypeOK, IdleOp
  <2>2. CASE \E i \in 1 .. Len(hooked[c]) : RemoveHook(c, i)
    BY <2>1, <2>2, RemoveKeepsHooks
  <2>3. CASE UNCHANGED <<poolVars, pml1, tlb, hooked, lost>>
    <3>1. HookQueueInv'
      BY <2>3 DEF HookInv, HookQueueInv
    <3> QED BY <2>1, <2>3, <3>1, VmcallFrame DEF HookInv
  <2> QED BY <1>2, <2>2, <2>3 DEF PageUnhook
<1>3. CASE UnhookAllStart(c)
  <2>1. /\ ~trap[c] /\ insn[c] = Nil
        /\ UNCHANGED <<status, requests, queued, pml2, hooked, rec, guestVars>>
        /\ \A d \in Cpus \ {c} : op'[d] = op[d]
        /\ op'[c].pc = "unhookall"
    BY <1>3 DEF UnhookAllStart, AtBoundary, TypeOK, IdleOp
  <2>2. HookQueueInv'
    BY <2>1 DEF HookInv, HookQueueInv
  <2> QED BY <2>1, <2>2, VmcallFrame DEF HookInv
<1> QED BY <1>1, <1>2, <1>3 DEF VmcallStart

\* The later steps of a vmcall: only the installation touches a list.
LEMMA VmcallStepKeepsHooks ==
    ASSUME TypeOK, HookInv, NEW c \in Cpus, VmcallStep(c)
    PROVE  HookInv'
<1> USE EptAssumption, BlockAssumption DEF poolVars, tableVars, hookVars, ghosts
<1>0. /\ RootQuiet /\ NoDanglingStep /\ OpInv /\ RecordInv /\ LiveRecords /\ HookQueueInv
      /\ AllocTypeOK /\ op[c] \in Ops
  BY DEF HookInv, TypeOK
<1>1. op[c].pc # "idle" => ~trap[c] /\ insn[c] = Nil
  BY <1>0 DEF RootQuiet, InGuest
<1>2. CASE SearchFails(c) \/ AskForBlock(c)
  <2>1. /\ op[c].pc \in {"buffer", "record"}
        /\ UNCHANGED <<status, queued, pml2, hooked, rec, guestVars>>
        /\ \A d \in Cpus \ {c} : op'[d] = op[d]
        /\ op'[c].pc = op[c].pc /\ op'[c].va = op[c].va /\ op'[c].buf = op[c].buf
    <3>1. CASE SearchFails(c)
      BY <1>0, <3>1 DEF SearchFails, TypeOK, Ops
    <3>2. CASE AskForBlock(c)
      <4>1. PICK x \in {"asked", "late"} : op' = [op EXCEPT ![c] = [@ EXCEPT !.search = x]]
        BY <3>2 DEF AskForBlock
      <4> QED BY <1>0, <3>2, <4>1 DEF AskForBlock, Ask, TypeOK, Ops
    <3> QED BY <1>2, <3>1, <3>2
  <2>2. HookQueueInv'
    BY <1>0, <2>1 DEF HookQueueInv
  <2>3. op'[c].pc \in {"buffer", "split", "record"} =>
          /\ op'[c].va \in Vas
          /\ PhysOf[op'[c].va] # Nil
          /\ \A h \in Listed(c) : rec[h].va # op'[c].va
          /\ op'[c].pc = "split" => op'[c].buf # Nil
          /\ op'[c].pc = "record" =>
               /\ PhysOf[op'[c].va][1] \notin HighRegions
               /\ pml2'[c][PhysOf[op'[c].va][1]] # Nil
    BY <1>0, <2>1 DEF OpInv
  <2> QED BY <1>1, <2>1, <2>2, <2>3, VmcallFrame DEF HookInv
<1>3. CASE AllocateBuffer(c)
  <2>1. PICK b \in SplitBlocks :
           /\ Take(b)
           /\ op' = [op EXCEPT ![c] = [@ EXCEPT !.pc = "split", !.buf = b, !.search = "first"]]
    BY <1>3 DEF AllocateBuffer
  <2>2. /\ op[c].pc = "buffer"
        /\ UNCHANGED <<queued, pml2, hooked, rec, guestVars>>
        /\ \A h \in HookBlocks : status'[h] = status[h]
    BY <1>0, <1>3, <2>1 DEF AllocateBuffer, Take, AllocTypeOK, Blocks
  <2>3. /\ \A d \in Cpus \ {c} : op'[d] = op[d]
        /\ op'[c].pc = "split" /\ op'[c].va = op[c].va /\ op'[c].buf # Nil
    BY <1>0, <2>1 DEF TypeOK, Ops
  <2>4. HookQueueInv'
    BY <1>0, <2>2 DEF HookQueueInv
  <2>5. op[c].va \in Vas /\ PhysOf[op[c].va] # Nil /\ \A h \in Listed(c) : rec[h].va # op[c].va
    BY <1>0, <2>2 DEF OpInv
  <2> QED BY <1>1, <2>2, <2>3, <2>4, <2>5, VmcallFrame DEF HookInv
<1>4. CASE BufferDenied(c)
  <2>1. /\ op[c].pc = "buffer" /\ op'[c].pc = "done"
        /\ UNCHANGED <<status, queued, pml2, hooked, rec, guestVars>>
        /\ \A d \in Cpus \ {c} : op'[d] = op[d]
    BY <1>0, <1>4 DEF BufferDenied, Done, TypeOK, Ops
  <2>2. HookQueueInv'
    BY <1>0, <2>1 DEF HookQueueInv
  <2> QED BY <1>1, <2>1, <2>2, VmcallFrame DEF HookInv
<1>5. CASE SplitLargePage(c)
  <2> DEFINE region == PhysOf[op[c].va][1]
  <2>1. /\ op[c].pc = "split" /\ op[c].buf # Nil /\ op[c].va \in Vas
        /\ PhysOf[op[c].va] # Nil
        /\ \A h \in Listed(c) : rec[h].va # op[c].va
        /\ UNCHANGED <<hooked, rec, guestVars>>
    BY <1>0, <1>5 DEF SplitLargePage, OpInv
  <2>2. op[c].buf \in SplitBlocks /\ op[c].buf \notin HookBlocks /\ region \in Regions
    BY <1>0, <2>1 DEF Ops, Pages
  <2>3. status' = status /\ \A h \in HookBlocks : queued'[h] = queued[h]
    <3>1. CASE Release(op[c].buf)
      BY <1>0, <2>2, <3>1, ReleaseEffect DEF Blocks
    <3>2. CASE UNCHANGED poolVars
      BY <3>2
    <3> QED BY <1>5, <3>1, <3>2 DEF SplitLargePage
  <2>4. HookQueueInv'
    BY <1>0, <2>3 DEF HookQueueInv
  <2>5. CASE Done(c, FALSE) /\ UNCHANGED <<pml1, pml2>>
    <3>1. op'[c].pc = "done" /\ \A d \in Cpus \ {c} : op'[d] = op[d]
      BY <1>0, <2>5 DEF Done, TypeOK, Ops
    <3> QED BY <1>1, <2>1, <2>3, <2>4, <2>5, <3>1, VmcallFrame DEF HookInv
  <2>6. CASE /\ region \notin HighRegions
             /\ op' = [op EXCEPT ![c] = [@ EXCEPT !.pc = "record"]]
             /\ \/ pml2[c][region] # Nil /\ UNCHANGED pml2
                \/ pml2[c][region] = Nil /\ pml2' = [pml2 EXCEPT ![c][region] = op[c].buf]
    <3>1. /\ op'[c].pc = "record" /\ op'[c].va = op[c].va
          /\ \A d \in Cpus \ {c} : op'[d] = op[d]
      BY <1>0, <2>6 DEF TypeOK, Ops
    <3>2. /\ pml2'[c][region] # Nil
          /\ \A d \in Cpus, r \in Regions : pml2[d][r] # Nil => pml2'[d][r] = pml2[d][r]
      <4> HIDE DEF region
      <4>1. CASE pml2[c][region] # Nil /\ UNCHANGED pml2
        BY <4>1
      <4>2. CASE pml2[c][region] = Nil /\ pml2' = [pml2 EXCEPT ![c][region] = op[c].buf]
        <5>1. /\ \A d \in Cpus \ {c} : pml2'[d] = pml2[d]
              /\ \A r \in Regions \ {region} : pml2'[c][r] = pml2[c][r]
              /\ pml2'[c][region] = op[c].buf
          BY <2>2, <4>2 DEF TypeOK
        <5> QED BY <2>1, <4>2, <5>1
      <4> QED BY <2>6, <4>1, <4>2
    <3>3. /\ op'[c].va \in Vas
          /\ PhysOf[op'[c].va] # Nil
          /\ \A h \in Listed(c) : rec[h].va # op'[c].va
          /\ PhysOf[op'[c].va][1] \notin HighRegions
          /\ pml2'[c][PhysOf[op'[c].va][1]] # Nil
      BY <2>1, <2>6, <3>1, <3>2
    <3> QED BY <1>1, <2>1, <2>3, <2>4, <3>1, <3>2, <3>3, VmcallFrame DEF HookInv
  <2> QED BY <1>5, <2>5, <2>6 DEF SplitLargePage, IsLargePage
<1>6. CASE InstallHook(c)
  <2>1. /\ LiveRecords' /\ RecordInv'
        /\ Listed(c) \subseteq Listed(c)'
        /\ \A d \in Cpus \ {c} : Listed(d)' = Listed(d)
        /\ \A d \in Cpus : \A h \in Listed(d) : rec'[h] = rec[h]
    BY <1>6, ListInsert
  <2>2. /\ op[c].pc = "record" /\ op'[c].pc = "done"
        /\ UNCHANGED <<queued, pml2, guestVars>>
        /\ \A d \in Cpus \ {c} : op'[d] = op[d]
    BY <1>0, <1>6 DEF InstallHook, Take, Done, TypeOK, Ops
  <2>3. HookQueueInv'
    <3>1. PICK h \in HookBlocks : Take(h)
      BY <1>6 DEF InstallHook
    <3>2. \A g \in HookBlocks : status[g] = "used" => status'[g] = "used"
      BY <1>0, <3>1 DEF Take, AllocTypeOK, Blocks
    <3> QED BY <1>0, <2>2, <3>2 DEF HookQueueInv
  <2>4. RootQuiet'
    BY <1>0, <1>1, <2>2 DEF RootQuiet, InGuest, guestVars
  <2>5. NoDanglingStep'
    <3>1. \A d \in Cpus : Listed(d) \subseteq Listed(d)'
      BY <2>1
    <3> QED BY <1>0, <2>1, <2>2, <3>1 DEF NoDanglingStep, guestVars
  <2>6. OpInv'
    BY <1>0, <2>1, <2>2 DEF OpInv
  <2> QED BY <2>1, <2>3, <2>4, <2>5, <2>6 DEF HookInv
<1>7. CASE RecordDenied(c)
  <2>1. /\ op[c].pc = "record" /\ op'[c].pc = "done"
        /\ UNCHANGED <<pml2, hooked, rec, guestVars>>
        /\ \A d \in Cpus \ {c} : op'[d] = op[d]
        /\ op[c].buf \notin HookBlocks
    BY <1>0, <1>7 DEF RecordDenied, Done, TypeOK, Ops
  <2>2. status' = status /\ \A h \in HookBlocks : queued'[h] = queued[h]
    BY <1>0, <1>7, <2>1, ReleaseEffect DEF RecordDenied, Blocks
  <2>3. HookQueueInv'
    BY <1>0, <2>2 DEF HookQueueInv
  <2> QED BY <1>1, <2>1, <2>2, <2>3, VmcallFrame DEF HookInv
<1>8. CASE UnhookAllPages(c)
  <2>1. /\ op[c].pc = "unhookall"
        /\ UNCHANGED <<pml2, rec, guestVars>>
    BY <1>8 DEF UnhookAllPages
  <2>2. CASE hooked[c] # <<>> /\ RemoveHook(c, 1) /\ UNCHANGED op
    <3>1. 1 \in 1 .. Len(hooked[c])
      BY <2>2 DEF TypeOK
    <3> QED BY <1>1, <2>1, <2>2, <3>1, RemoveKeepsHooks
  <2>3. CASE Done(c, TRUE) /\ UNCHANGED <<poolVars, pml1, tlb, hooked, lost>>
    <3>1. /\ \A d \in Cpus \ {c} : op'[d] = op[d]
          /\ op'[c].pc = "done"
      BY <1>0, <2>3 DEF Done, TypeOK, Ops
    <3>2. HookQueueInv'
      BY <1>0, <2>3 DEF HookQueueInv
    <3> QED BY <1>1, <2>1, <2>3, <3>1, <3>2, VmcallFrame DEF HookInv
  <2> QED BY <1>8, <2>2, <2>3 DEF UnhookAllPages
<1>9. CASE VmcallReturn(c)
  <2>1. /\ op[c].pc = "done" /\ op'[c].pc = "idle"
        /\ UNCHANGED <<status, queued, pml2, hooked, rec, guestVars>>
        /\ \A d \in Cpus \ {c} : op'[d] = op[d]
    BY <1>9 DEF VmcallReturn, IdleOp, TypeOK
  <2>2. HookQueueInv'
    BY <1>0, <2>1 DEF HookQueueInv
  <2> QED BY <1>1, <2>1, <2>2, VmcallFrame DEF HookInv
<1> QED BY <1>2, <1>3, <1>4, <1>5, <1>6, <1>7, <1>8, <1>9 DEF VmcallStep

\* The pool's threads never wipe a listed record: it is not queued.
LEMMA PoolKeepsHooks ==
    ASSUME TypeOK, HookInv, PoolStep
    PROVE  HookInv'
<1> USE EptAssumption, BlockAssumption DEF poolVars, tableVars, hookVars, guestVars, ghosts
<1>0. /\ RootQuiet /\ NoDanglingStep /\ OpInv /\ RecordInv /\ LiveRecords /\ HookQueueInv
      /\ AllocTypeOK
  BY DEF HookInv, TypeOK
<1>1. ASSUME NEW t \in Types, GrowPool(t) PROVE HookInv'
  <2>1. /\ \A b \in Blocks : status[b] = "used" => status'[b] = "used"
        /\ UNCHANGED <<queued, pml2, hooked, rec, stepping, trap, insn, op>>
    BY <1>0, <1>1 DEF GrowPool, Grow, AllocTypeOK, BlocksOf, Blocks
  <2>2. LiveRecords' /\ RecordInv'
    BY <1>0, <2>1, ListFrame DEF Blocks
  <2>3. RootQuiet' /\ NoDanglingStep' /\ OpInv'
    BY <1>0, <2>1 DEF RootQuiet, InGuest, NoDanglingStep, OpInv, Listed
  <2>4. HookQueueInv'
    BY <1>0, <2>1 DEF HookQueueInv, Blocks
  <2> QED BY <2>2, <2>3, <2>4 DEF HookInv
<1>2. ASSUME NEW b \in Blocks, ReclaimBlock(b) PROVE HookInv'
  <2>1. /\ queued[b] > 0
        /\ queued' = [queued EXCEPT ![b] = @ - 1]
        /\ status' = [status EXCEPT ![b] = "free"]
        /\ rec' = [h \in HookBlocks |-> IF h = b THEN Nil ELSE rec[h]]
        /\ UNCHANGED <<pml2, hooked, stepping, trap, insn, op>>
    BY <1>2 DEF ReclaimBlock, Reclaim
  <2>2. \A c \in Cpus : \A i \in DOMAIN hooked[c] :
           hooked[c][i] \in HookBlocks /\ hooked[c][i] # b
    BY <1>0, <2>1 DEF LiveRecords, TypeOK
  <2>3. /\ \A c \in Cpus : \A h \in Listed(c) : h \in HookBlocks /\ rec'[h] = rec[h]
        /\ \A c \in Cpus : \A i \in DOMAIN hooked[c] :
             /\ rec'[hooked[c][i]] = rec[hooked[c][i]]
             /\ status'[hooked[c][i]] = status[hooked[c][i]]
             /\ queued'[hooked[c][i]] = queued[hooked[c][i]]
    BY <1>0, <2>1, <2>2 DEF Listed, ToSet, AllocTypeOK, Blocks
  <2>4. RecordInv' /\ OpInv'
    BY <1>0, <2>1, <2>3 DEF RecordInv, OpInv, Listed
  <2>5. LiveRecords'
    <3> SUFFICES ASSUME NEW c \in Cpus, NEW i \in DOMAIN hooked[c]
                 PROVE  LET h == hooked[c][i]
                        IN  /\ status'[h] = "used" /\ queued'[h] = 0 /\ rec'[h] # Nil
                            /\ rec'[h].table = pml2[c][rec'[h].page[1]]
                            /\ \A d \in Cpus : \A j \in DOMAIN hooked[d] :
                                 hooked[d][j] = h => d = c /\ j = i
                            /\ \A j \in DOMAIN hooked[c] :
                                 rec'[hooked[c][j]].va = rec'[h].va => j = i
      BY <2>1 DEF LiveRecords
    <3> QED BY <1>0, <2>3 DEF LiveRecords
  <2>6. RootQuiet'
    BY <1>0, <2>1 DEF RootQuiet, InGuest
  <2>7. NoDanglingStep'
    BY <1>0, <2>1, <2>3 DEF NoDanglingStep, Listed
  <2>8. HookQueueInv'
    BY <1>0, <2>1 DEF HookQueueInv, AllocTypeOK, Blocks
  <2> QED BY <2>4, <2>5, <2>6, <2>7, <2>8 DEF HookInv
<1> QED BY <1>1, <1>2 DEF PoolStep

\* No hooks at the start.
LEMMA InitHooks == Init => HookInv
<1> USE EptAssumption
<1> SUFFICES ASSUME Init PROVE HookInv
  OBVIOUS
<1>1. \A c \in Cpus : Listed(c) = {} /\ DOMAIN hooked[c] = {}
  BY DEF Init, Listed, ToSet
<1>2. \A c \in Cpus : op[c].pc = "idle" /\ ~trap[c] /\ stepping[c] = Nil
  BY DEF Init, IdleOp
<1> QED BY <1>1, <1>2 DEF Init, AllocInit, HookInv, RootQuiet, InGuest, NoDanglingStep,
                          OpInv, RecordInv, LiveRecords, HookQueueInv, Blocks

\* The hook invariant is inductive, given the types.
LEMMA HookStep == TypeOK /\ HookInv /\ [Next]_vars => HookInv'
<1> SUFFICES ASSUME TypeOK, HookInv, [Next]_vars PROVE HookInv'
  OBVIOUS
<1>1. CASE UNCHANGED vars
  BY <1>1 DEF HookInv, RootQuiet, InGuest, NoDanglingStep, OpInv, RecordInv, LiveRecords,
              HookQueueInv, Listed, vars, poolVars, tableVars, hookVars, guestVars
<1> QED BY <1>1, GuestKeepsHooks, ExitKeepsHooks, VmcallStartKeepsHooks,
           VmcallStepKeepsHooks, PoolKeepsHooks DEF Next

\* Every state has the right shape, and lists, records and vmcalls in progress
\* agree with each other.
THEOREM TypeCorrect == Spec => []TypeOK
<1>1. Init => TypeOK /\ HookInv
  BY InitType, InitHooks
<1>2. TypeOK /\ HookInv /\ [Next]_vars => (TypeOK /\ HookInv)'
  BY TypeStep, HookStep
<1> QED BY <1>1, <1>2, PTL DEF Spec

\* Types and hook invariant together, in every reachable state.
LEMMA HooksCorrect == Spec => [](TypeOK /\ HookInv)
<1>1. Init => TypeOK /\ HookInv
  BY InitType, InitHooks
<1>2. TypeOK /\ HookInv /\ [Next]_vars => (TypeOK /\ HookInv)'
  BY TypeStep, HookStep
<1> QED BY <1>1, <1>2, PTL DEF Spec

\* A pending single step always has a live record to close, whatever the guests,
\* the vmcalls on other processors and the free thread do in between.
THEOREM StepNeverDangles == Spec => []NoDanglingStep
<1>1. TypeOK /\ HookInv => NoDanglingStep
  BY DEF HookInv
<1> QED BY <1>1, HooksCorrect, PTL

\* Listed records are owned by one place of one list and never wiped there.
THEOREM RecordsStayLive == Spec => []LiveRecords
<1>1. TypeOK /\ HookInv => LiveRecords
  BY DEF HookInv
<1> QED BY <1>1, HooksCorrect, PTL
=============================================================================
