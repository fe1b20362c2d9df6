--------------------------- MODULE EptTableProofs ---------------------------
(***************************************************************************)
(* Proofs that the tables the hardware walks are the pool's to give, that  *)
(* their entries say what the records say, and that no TLB gives more, for *)
(* any number of processors, pages, blocks and addresses.  The exceptions  *)
(* are those of the properties: a record that could not be allocated, and  *)
(* two addresses of one page.                                              *)
(***************************************************************************)
EXTENDS EptProofs

\* A buffer about to become a table is held by one vmcall and by no region.
BufferInv ==
    ~denied =>
        \A c \in Cpus : op[c].pc = "split" =>
            /\ status[op[c].buf] = "used"
            /\ queued[op[c].buf] = 0
            /\ \A d \in Cpus, r \in Regions : pml2[d][r] # op[c].buf
            /\ \A d \in Cpus : op[d].pc = "split" /\ op[d].buf = op[c].buf => d = c

\* A table that waits to be freed is used until then, and waits once.
SplitQueueInv ==
    ~denied => \A b \in SplitBlocks :
        queued[b] > 0 => queued[b] = 1 /\ status[b] = "used"

TableInv == LiveTables /\ BufferInv /\ SplitQueueInv

\* Under the exceptions: a page of a listed record has the rights the record asks
\* for, or all of them, which are also those it had before; any other page that
\* is mapped has all of them.
EntryInv ==
    ~denied /\ NoAlias =>
        \A c \in Cpus :
            /\ \A h \in Listed(c) :
                 /\ rec[h].original = Kinds
                 /\ Translate(c, rec[h].page) \in {rec[h].changed, Kinds}
            /\ \A p \in Pages :
                 \/ p[1] \in HighRegions
                 \/ Translate(c, p) = Kinds
                 \/ \E h \in Listed(c) : rec[h].page = p

\* The page of a record is closed, or open for the single step, or forgotten.
ClosedInv ==
    ~denied /\ NoAlias =>
        \A c \in Cpus : \A h \in Listed(c) :
            Translate(c, rec[h].page) = rec[h].changed \/ h = stepping[c] \/ h \in lost

AccessInv == TlbCoherent /\ EntryInv /\ ClosedInv

\* What a step does to the rights the tables give: nothing at all, or it sets
\* those of page p of processor c.
KeepsRights == \A d \in Cpus, q \in Pages : Translate(d, q)' = Translate(d, q)

SetsRights(c, p, perms) ==
    \A d \in Cpus, q \in Pages :
        Translate(d, q)' = IF d = c /\ q = p THEN perms ELSE Translate(d, q)

-----------------------------------------------------------------------------
(* Tables.                                                                 *)

\* The buffer of a vmcall about to split a page is a block.
LEMMA BufferIsBlock ==
    ASSUME TypeOK, HookInv, NEW c \in Cpus, op[c].pc = "split"
    PROVE  op[c].buf \in SplitBlocks
<1>1. op[c] \in Ops /\ op[c].buf # Nil
  BY DEF TypeOK, HookInv, OpInv
<1> QED BY <1>1 DEF Ops

\* No region gets or loses a table, no used block is freed and no vmcall gets a
\* buffer: the tables are as they were.
LEMMA TableFrame ==
    ASSUME TypeOK, HookInv, TableInv, UNCHANGED <<pml2, denied>>,
           \A b \in SplitBlocks : /\ queued'[b] = queued[b]
                                  /\ status[b] = "used" => status'[b] = "used",
           \A d \in Cpus : op'[d].pc = "split" => op'[d] = op[d]
    PROVE  TableInv'
<1> USE EptAssumption
<1>1. CASE denied
  BY <1>1 DEF TableInv, LiveTables, BufferInv, SplitQueueInv
<1>2. CASE ~denied
  <2>1. LiveTables'
    <3>1. \A d \in Cpus, r \in Regions : pml2[d][r] # Nil => pml2[d][r] \in SplitBlocks
      BY DEF TypeOK
    <3> QED BY <1>2, <3>1 DEF TableInv, LiveTables
  <2>2. BufferInv'
    <3>1. \A d \in Cpus : op[d].pc = "split" => op[d].buf \in SplitBlocks
      BY BufferIsBlock
    <3> QED BY <1>2, <3>1 DEF TableInv, BufferInv
  <2>3. SplitQueueInv'
    BY <1>2 DEF TableInv, SplitQueueInv
  <2> QED BY <2>1, <2>2, <2>3 DEF TableInv
<1> QED BY <1>1, <1>2

\* The guest and the exits use the tables there are.
LEMMA GuestKeepsTables ==
    ASSUME TypeOK, HookInv, TableInv, NEW c \in Cpus, GuestStep(c) \/ ExitStep(c)
    PROVE  TableInv'
<1>1. UNCHANGED <<status, queued, pml2, op, denied>>
  BY DEF GuestStep, GuestFetch, TlbFill, Retire, EmulateInstruction, Interrupt,
         ExitStep, AllowAccess, BlockAccess, HandleMonitorTrapFlag,
         poolVars, tableVars, ghosts
<1> QED BY <1>1, TableFrame

\* The removal of a hook queues its record and no table.
LEMMA RemoveHookBlocks ==
    ASSUME TypeOK, LiveRecords, NEW c \in Cpus, NEW i \in 1 .. Len(hooked[c]), RemoveHook(c, i)
    PROVE  status' = status /\ \A b \in SplitBlocks : queued'[b] = queued[b]
<1>1. hooked[c][i] \in HookBlocks
  BY ListedRecord
<1>2. \A b \in SplitBlocks : b \in Blocks /\ b # hooked[c][i]
  BY <1>1, BlockAssumption DEF Blocks
<1> QED BY <1>2, ReleaseEffect DEF RemoveHook, TypeOK

\* No vmcall starts with a buffer.
LEMMA VmcallStartKeepsTables ==
    ASSUME TypeOK, HookInv, TableInv, NEW c \in Cpus, VmcallStart(c)
    PROVE  TableInv'
<1> USE DEF poolVars, tableVars, ghosts
<1>0. LiveRecords
  BY DEF HookInv
<1>1. UNCHANGED <<pml2, denied>>
  BY DEF VmcallStart, HookStart, PageUnhook, UnhookAllStart
<1>2. \A d \in Cpus : op'[d].pc = "split" => op'[d] = op[d]
  <2>0. op \in [Cpus -> Ops]
    BY DEF TypeOK
  <2>1. ASSUME NEW va \in Vas, NEW perms \in Permissions, HookStart(c, va, perms)
        PROVE  op'[c].pc # "split" /\ \A d \in Cpus \ {c} : op'[d] = op[d]
    BY <2>0, <2>1 DEF HookStart, IdleOp
  <2>2. ASSUME NEW va \in Vas, PageUnhook(c, va)
        PROVE  op'[c].pc # "split" /\ \A d \in Cpus \ {c} : op'[d] = op[d]
    BY <2>0, <2>2 DEF PageUnhook, IdleOp
  <2>3. CASE UnhookAllStart(c)
    BY <2>0, <2>3 DEF UnhookAllStart, IdleOp
  <2> QED BY <2>1, <2>2, <2>3 DEF VmcallStart
<1>3. status' = status /\ \A b \in SplitBlocks : queued'[b] = queued[b]
  <2>1. ASSUME NEW va \in Vas, PageUnhook(c, va)
        PROVE  status' = status /\ \A b \in SplitBlocks : queued'[b] = queued[b]
    BY <1>0, <2>1, RemoveHookBlocks DEF PageUnhook
  <2>2. ASSUME NEW va \in Vas, NEW perms \in Permissions, HookStart(c, va, perms)
        PROVE  status' = status /\ queued' = queued
    BY <2>2 DEF HookStart
  <2>3. CASE UnhookAllStart(c)
    BY <2>3 DEF UnhookAllStart
  <2> QED BY <2>1, <2>2, <2>3 DEF VmcallStart
<1> QED BY <1>1, <1>2, <1>3, TableFrame

\* A table is made of a buffer that nobody else has, and a buffer that goes back
\* to the pool is in no region.
LEMMA VmcallStepKeepsTables ==
    ASSUME TypeOK, HookInv, TableInv, NEW c \in Cpus, VmcallStep(c)
    PROVE  TableInv'
<1> USE EptAssumption DEF poolVars, tableVars, ghosts
<1>0. /\ LiveRecords /\ op \in [Cpus -> Ops] /\ AllocTypeOK
      /\ pml2 \in [Cpus -> [Regions -> SplitBlocks \cup {Nil}]]
  BY DEF TypeOK, HookInv
<1>1. CASE SearchFails(c) \/ AskForBlock(c)
  <2>1. /\ op[c].pc # "split"
        /\ \E x \in {"none", "asked", "late"} : op' = [op EXCEPT ![c] = [@ EXCEPT !.search = x]]
        /\ UNCHANGED <<status, queued, pml2, denied>>
    BY <1>1 DEF SearchFails, AskForBlock, Ask
  <2>2. op'[c].pc = op[c].pc /\ \A d \in Cpus \ {c} : op'[d] = op[d]
    BY <1>0, <2>1 DEF Ops
  <2> QED BY <2>1, <2>2, TableFrame
<1>2. CASE AllocateBuffer(c)
  <2>1. PICK b \in SplitBlocks :
           /\ Take(b)
           /\ op' = [op EXCEPT ![c] = [@ EXCEPT !.pc = "split", !.buf = b, !.search = "first"]]
    BY <1>2 DEF AllocateBuffer
  <2>2. UNCHANGED <<queued, pml2, denied>>
    BY <1>2, <2>1 DEF AllocateBuffer, Take
  <2>3. CASE denied
    BY <2>2, <2>3 DEF TableInv, LiveTables, BufferInv, SplitQueueInv
  <2>4. CASE ~denied
    <3>1. /\ status[b] = "free" /\ status'[b] = "used"
          /\ \A x \in SplitBlocks \ {b} : status'[x] = status[x]
      BY <1>0, <2>1 DEF Take, AllocTypeOK, Blocks
    <3>2. queued[b] = 0
      BY <1>0, <2>4, <3>1 DEF AllocTypeOK, Blocks, TableInv, SplitQueueInv
    <3>3. \A d \in Cpus, r \in Regions : pml2[d][r] # b
      BY <2>4, <3>1 DEF TableInv, LiveTables
    <3>4. \A d \in Cpus : op[d].pc = "split" => op[d].buf \in SplitBlocks /\ op[d].buf # b
      BY <2>4, <3>1, BufferIsBlock DEF TableInv, BufferInv
    <3>5. /\ op'[c].pc = "split" /\ op'[c].buf = b
          /\ \A d \in Cpus \ {c} : op'[d] = op[d]
      BY <1>0, <2>1 DEF Ops
    <3>6. LiveTables'
      <4>1. \A d \in Cpus, r \in Regions : pml2[d][r] # Nil =>
               status'[pml2[d][r]] = status[pml2[d][r]]
        BY <1>0, <3>1, <3>3
      <4> QED BY <2>2, <2>4, <4>1 DEF TableInv, LiveTables
    <3>7. BufferInv'
      <4>1. \A d \in Cpus : op[d].pc = "split" => status'[op[d].buf] = status[op[d].buf]
        BY <3>1, <3>4
      <4>2. \A d \in Cpus : op[d].pc = "split" =>
               /\ status[op[d].buf] = "used" /\ queued[op[d].buf] = 0
               /\ \A e \in Cpus, r \in Regions : pml2[e][r] # op[d].buf
               /\ \A e \in Cpus : op[e].pc = "split" /\ op[e].buf = op[d].buf => e = d
        BY <2>4 DEF TableInv, BufferInv
      <4> QED BY <2>2, <3>1, <3>2, <3>3, <3>4, <3>5, <4>1, <4>2 DEF BufferInv
    <3>8. SplitQueueInv'
      BY <2>2, <2>4, <3>1, <3>2 DEF TableInv, SplitQueueInv
    <3> QED BY <3>6, <3>7, <3>8 DEF TableInv
  <2> QED BY <2>3, <2>4
<1>3. CASE BufferDenied(c) \/ VmcallReturn(c)
  <2>1. UNCHANGED <<status, queued, pml2, denied>>
    BY <1>3 DEF BufferDenied, VmcallReturn
  <2>2. Done(c, FALSE) \/ op' = [op EXCEPT ![c] = IdleOp]
    BY <1>3 DEF BufferDenied, VmcallReturn
  <2>3. op'[c].pc # "split" /\ \A d \in Cpus \ {c} : op'[d] = op[d]
    <3>1. CASE Done(c, FALSE)
      BY <1>0, <3>1 DEF Done, Ops
    <3>2. CASE op' = [op EXCEPT ![c] = IdleOp]
      BY <1>0, <3>2 DEF IdleOp
    <3> QED BY <2>2, <3>1, <3>2
  <2> QED BY <2>1, <2>3, TableFrame
<1>4. CASE SplitLargePage(c)
  <2> DEFINE buf == op[c].buf
             region == PhysOf[op[c].va][1]
  <2>1. buf \in SplitBlocks /\ op[c].pc = "split" /\ region \in Regions /\ UNCHANGED denied
    <3>1. op[c].pc = "split" /\ op[c].va \in Vas /\ PhysOf[op[c].va] # Nil
      BY <1>4 DEF SplitLargePage, HookInv, OpInv
    <3>2. PhysOf[op[c].va] \in Pages
      BY <3>1
    <3> QED BY <1>4, <3>1, <3>2, BufferIsBlock DEF Pages, SplitLargePage
  <2>2. op'[c].pc # "split" /\ \A d \in Cpus \ {c} : op'[d] = op[d]
    BY <1>0, <1>4 DEF SplitLargePage, Done, Ops
  <2>3. CASE denied
    BY <2>1, <2>3 DEF TableInv, LiveTables, BufferInv, SplitQueueInv
  <2>4. CASE ~denied
    <3> HIDE DEF buf, region
    <3>1. /\ status[buf] = "used" /\ queued[buf] = 0
          /\ \A d \in Cpus, r \in Regions : pml2[d][r] # buf
          /\ \A d \in Cpus \ {c} : op[d].pc = "split" => op[d].buf # buf
      BY <2>1, <2>4 DEF TableInv, BufferInv, buf
    <3>2. \A d \in Cpus : op[d].pc = "split" => op[d].buf \in SplitBlocks
      BY BufferIsBlock
    <3>3. CASE Release(buf) /\ UNCHANGED pml2
      <4>1. /\ status' = status
            /\ \A x \in SplitBlocks \ {buf} : queued'[x] = queued[x]
            /\ queued'[buf] \in {0, 1}
        BY <1>0, <2>1, <3>1, <3>3, ReleaseEffect DEF Blocks
      <4>2. LiveTables'
        <5>1. \A d \in Cpus, r \in Regions : pml2[d][r] # Nil =>
                 queued'[pml2[d][r]] = queued[pml2[d][r]]
          BY <1>0, <3>1, <4>1
        <5> QED BY <2>1, <2>4, <3>3, <4>1, <5>1 DEF TableInv, LiveTables
      <4>3. BufferInv'
        <5>1. \A d \in Cpus : op'[d].pc = "split" =>
                 /\ op'[d] = op[d]
                 /\ queued'[op[d].buf] = queued[op[d].buf]
          BY <2>2, <3>1, <3>2, <4>1
        <5> QED BY <2>1, <2>4, <3>3, <4>1, <5>1 DEF TableInv, BufferInv
      <4>4. SplitQueueInv'
        BY <2>1, <2>4, <3>1, <4>1 DEF TableInv, SplitQueueInv
      <4> QED BY <4>2, <4>3, <4>4 DEF TableInv
    <3>4. CASE UNCHANGED poolVars /\ pml2' = [pml2 EXCEPT ![c][region] = buf]
      <4>1. /\ pml2'[c][region] = buf
            /\ \A d \in Cpus, r \in Regions : d # c \/ r # region => pml2'[d][r] = pml2[d][r]
        BY <1>0, <2>1, <3>4
      <4>2. LiveTables'
        <5> SUFFICES ASSUME NEW d \in Cpus, NEW r \in Regions, pml2'[d][r] # Nil
                     PROVE  /\ status[pml2'[d][r]] = "used"
                            /\ queued[pml2'[d][r]] = 0
                            /\ \A e \in Cpus, q \in Regions :
                                 pml2'[e][q] = pml2'[d][r] => e = d /\ q = r
          BY <3>4 DEF LiveTables
        <5>1. CASE d = c /\ r = region
          BY <3>1, <4>1, <5>1
        <5>2. CASE ~(d = c /\ r = region)
          BY <2>4, <3>1, <4>1, <5>2 DEF TableInv, LiveTables
        <5> QED BY <5>1, <5>2
      <4>3. BufferInv'
        <5> SUFFICES ASSUME NEW d \in Cpus, op'[d].pc = "split"
                     PROVE  /\ status[op'[d].buf] = "used"
                            /\ queued[op'[d].buf] = 0
                            /\ \A e \in Cpus, r \in Regions : pml2'[e][r] # op'[d].buf
                            /\ \A e \in Cpus :
                                 op'[e].pc = "split" /\ op'[e].buf = op'[d].buf => e = d
          BY <3>4 DEF BufferInv
        <5>1. op'[d] = op[d] /\ d # c /\ op[d].buf # buf
          BY <2>2, <3>1
        <5>2. /\ status[op[d].buf] = "used"
              /\ queued[op[d].buf] = 0
              /\ \A e \in Cpus, r \in Regions : pml2[e][r] # op[d].buf
              /\ \A e \in Cpus : op[e].pc = "split" /\ op[e].buf = op[d].buf => e = d
          BY <2>4, <5>1 DEF TableInv, BufferInv
        <5> QED BY <2>2, <4>1, <5>1, <5>2
      <4>4. SplitQueueInv'
        BY <2>1, <3>4 DEF TableInv, SplitQueueInv
      <4> QED BY <4>2, <4>3, <4>4 DEF TableInv
    <3> QED BY <1>4, <3>3, <3>4 DEF SplitLargePage, buf, region
  <2> QED BY <2>3, <2>4
<1>5. CASE InstallHook(c)
  <2>1. PICK h \in HookBlocks : Take(h)
    BY <1>5 DEF InstallHook
  <2>2. queued' = queued /\ \A b \in SplitBlocks : status'[b] = status[b]
    BY <1>0, <2>1, BlockAssumption DEF Take, AllocTypeOK, Blocks
  <2>3. Done(c, TRUE) /\ UNCHANGED <<pml2, denied>>
    BY <1>5 DEF InstallHook
  <2>4. op'[c].pc # "split" /\ \A d \in Cpus \ {c} : op'[d] = op[d]
    BY <1>0, <2>3 DEF Done, Ops
  <2> QED BY <2>2, <2>3, <2>4, TableFrame
<1>6. CASE RecordDenied(c)
  BY <1>6 DEF RecordDenied, TableInv, LiveTables, BufferInv, SplitQueueInv
<1>7. CASE UnhookAllPages(c)
  <2>1. /\ op[c].pc = "unhookall" /\ UNCHANGED <<pml2, denied>>
        /\ \A d \in Cpus : op'[d].pc = "split" => op'[d] = op[d]
    BY <1>0, <1>7 DEF UnhookAllPages, Done, Ops
  <2>2. status' = status /\ \A b \in SplitBlocks : queued'[b] = queued[b]
    <3>1. CASE hooked[c] # <<>> /\ RemoveHook(c, 1)
      <4>1. 1 \in 1 .. Len(hooked[c])
        BY <3>1 DEF TypeOK
      <4> QED BY <1>0, <3>1, <4>1, RemoveHookBlocks
    <3>2. CASE UNCHANGED poolVars
      BY <3>2
    <3> QED BY <1>7, <3>1, <3>2 DEF UnhookAllPages
  <2> QED BY <2>1, <2>2, TableFrame
<1> QED BY <1>1, <1>2, <1>3, <1>4, <1>5, <1>6, <1>7 DEF VmcallStep

\* The pool frees no table and gives no block that is used.
LEMMA PoolKeepsTables ==
    ASSUME TypeOK, HookInv, TableInv, PoolStep
    PROVE  TableInv'
<1> USE EptAssumption DEF poolVars, tableVars, hookVars, guestVars, ghosts
<1>0. AllocTypeOK /\ pml2 \in [Cpus -> [Regions -> SplitBlocks \cup {Nil}]]
  BY DEF TypeOK
<1>1. ASSUME NEW t \in Types, GrowPool(t) PROVE TableInv'
  <2>1. /\ \A b \in Blocks : status[b] = "used" => status'[b] = "used"
        /\ UNCHANGED <<queued, pml2, op, denied>>
    BY <1>0, <1>1 DEF GrowPool, Grow, AllocTypeOK, BlocksOf, Blocks
  <2> QED BY <2>1, TableFrame DEF Blocks
<1>2. ASSUME NEW b \in Blocks, ReclaimBlock(b) PROVE TableInv'
  <2>1. /\ queued[b] > 0
        /\ queued' = [queued EXCEPT ![b] = @ - 1]
        /\ status' = [status EXCEPT ![b] = "free"]
        /\ UNCHANGED <<pml2, op, denied>>
    BY <1>2 DEF ReclaimBlock, Reclaim
  <2>2. /\ \A x \in Blocks \ {b} : queued'[x] = queued[x] /\ status'[x] = status[x]
        /\ queued'[b] = queued[b] - 1 /\ queued[b] \in Nat
    BY <1>0, <2>1 DEF AllocTypeOK
  <2>3. CASE denied
    BY <2>1, <2>3 DEF TableInv, LiveTables, BufferInv, SplitQueueInv
  <2>4. CASE ~denied
    <3>1. \A d \in Cpus, r \in Regions : pml2[d][r] # Nil =>
             pml2[d][r] \in Blocks /\ pml2[d][r] # b
      BY <1>0, <2>1, <2>4 DEF TableInv, LiveTables, Blocks
    <3>2. \A d \in Cpus : op[d].pc = "split" => op[d].buf \in Blocks /\ op[d].buf # b
      <4>1. \A d \in Cpus : op[d].pc = "split" => op[d].buf \in SplitBlocks
        BY BufferIsBlock
      <4> QED BY <2>1, <2>4, <4>1 DEF TableInv, BufferInv, Blocks
    <3>3. LiveTables'
      BY <2>1, <2>2, <2>4, <3>1 DEF TableInv, LiveTables
    <3>4. BufferInv'
      BY <2>1, <2>2, <2>4, <3>2 DEF TableInv, BufferInv
    <3>5. SplitQueueInv'
      BY <2>1, <2>2, <2>4 DEF TableInv, SplitQueueInv, Blocks
    <3> QED BY <3>3, <3>4, <3>5 DEF TableInv
  <2> QED BY <2>3, <2>4
<1> QED BY <1>1, <1>2 DEF PoolStep

\* The table invariant is inductive, given types and hook invariant.
LEMMA TableStep == TypeOK /\ HookInv /\ TableInv /\ [Next]_vars => TableInv'
<1> SUFFICES ASSUME TypeOK, HookInv, TableInv, [Next]_vars PROVE TableInv'
  OBVIOUS
<1>1. CASE UNCHANGED vars
  <2>1. UNCHANGED <<status, queued, pml2, op, denied>>
    BY <1>1 DEF vars, poolVars, tableVars, ghosts
  <2> QED BY <2>1, TableFrame
<1> QED BY <1>1, GuestKeepsTables, VmcallStartKeepsTables, VmcallStepKeepsTables,
           PoolKeepsTables DEF Next

\* No tables at the start.
LEMMA InitTables == Init => TableInv
<1> SUFFICES ASSUME Init PROVE TableInv
  OBVIOUS
<1>1. /\ \A c \in Cpus : op[c].pc = "idle" /\ \A r \in Regions : pml2[c][r] = Nil
      /\ \A b \in SplitBlocks : queued[b] = 0
  BY DEF Init, AllocInit, IdleOp, Blocks
<1> QED BY <1>1 DEF TableInv, LiveTables, BufferInv, SplitQueueInv

-----------------------------------------------------------------------------
(* Entries.                                                                *)

\* A listed record names an entry of the table of its page.
LEMMA ListedEntry ==
    ASSUME TypeOK, HookInv, NEW c \in Cpus, NEW h \in Listed(c)
    PROVE  /\ h \in HookBlocks /\ rec[h] # Nil /\ rec[h] \in Records
           /\ rec[h].page \in Pages
           /\ rec[h].page[1] \in Regions \ HighRegions
           /\ rec[h].page[2] \in Offsets
           /\ rec[h].page = <<rec[h].page[1], rec[h].page[2]>>
           /\ rec[h].original \in SUBSET Kinds /\ rec[h].changed \in SUBSET Kinds
           /\ pml2[c][rec[h].page[1]] = rec[h].table
           /\ rec[h].table \in SplitBlocks /\ rec[h].table # Nil
           /\ EntryOf(h) = Translate(c, rec[h].page)
<1> USE EptAssumption
<1>1. PICK i \in 1 .. Len(hooked[c]) : h = hooked[c][i]
  <2>1. hooked[c] \in Seq(HookBlocks)
    BY DEF TypeOK
  <2>2. DOMAIN hooked[c] = 1 .. Len(hooked[c])
    BY <2>1
  <2> QED BY <2>2 DEF Listed, ToSet
<1>2. h \in HookBlocks /\ rec[h] \in Records /\ rec[h] # Nil
  BY <1>1, ListedRecord DEF HookInv
<1>3. /\ rec[h].page \in Pages /\ rec[h].table \in SplitBlocks
      /\ rec[h].original \in SUBSET Kinds /\ rec[h].changed \in SUBSET Kinds
  BY <1>2 DEF Records
<1>4. /\ rec[h].page[1] \in Regions /\ rec[h].page[2] \in Offsets
      /\ rec[h].page = <<rec[h].page[1], rec[h].page[2]>>
  BY <1>3 DEF Pages
<1>5. rec[h].page[1] \notin HighRegions
  BY DEF HookInv, RecordInv
<1>6. rec[h].table = pml2[c][rec[h].page[1]]
  <2>1. i \in DOMAIN hooked[c]
    BY DEF TypeOK
  <2> QED BY <1>1, <2>1 DEF HookInv, LiveRecords
<1>7. rec[h].table # Nil
  BY <1>3
<1> QED BY <1>2, <1>3, <1>4, <1>5, <1>6, <1>7 DEF EntryOf, Translate

\* No record is in two lists.
LEMMA OneList ==
    ASSUME TypeOK, HookInv, NEW c \in Cpus, NEW d \in Cpus,
           NEW h \in Listed(c), h \in Listed(d)
    PROVE  c = d
<1>1. PICK i \in DOMAIN hooked[c] : h = hooked[c][i]
  BY DEF Listed, ToSet
<1>2. PICK j \in DOMAIN hooked[d] : h = hooked[d][j]
  BY DEF Listed, ToSet
<1>3. \A e \in Cpus : \A k \in DOMAIN hooked[e] : hooked[e][k] = h => e = c
  BY <1>1 DEF HookInv, LiveRecords
<1> QED BY <1>2, <1>3

\* Without aliases a page has one record on a processor.
LEMMA OneRecord ==
    ASSUME TypeOK, HookInv, NoAlias, NEW c \in Cpus,
           NEW g \in Listed(c), NEW h \in Listed(c), rec[g].page = rec[h].page
    PROVE  g = h
<1>1. PICK i \in DOMAIN hooked[c] : g = hooked[c][i]
  BY DEF Listed, ToSet
<1>2. PICK j \in DOMAIN hooked[c] : h = hooked[c][j]
  BY DEF Listed, ToSet
<1>3. /\ rec[g] \in Records /\ rec[h] \in Records
      /\ rec[g].page \in Pages
  BY ListedEntry
<1>4. PhysOf[rec[g].va] = PhysOf[rec[h].va] /\ PhysOf[rec[g].va] # Nil
  BY <1>3, EptAssumption DEF HookInv, RecordInv
<1>5. rec[g].va = rec[h].va
  BY <1>3, <1>4 DEF NoAlias, Records
<1>6. i = j
  BY <1>1, <1>2, <1>5 DEF HookInv, LiveRecords
<1> QED BY <1>1, <1>2, <1>6

\* A write to an entry of the table of a region changes the rights of one page of
\* one processor: no other region has that table.
LEMMA EntryWrite ==
    ASSUME TypeOK, LiveTables, ~denied, UNCHANGED pml2,
           NEW c \in Cpus, NEW p \in Pages, NEW perms,
           p[1] \notin HighRegions, pml2[c][p[1]] # Nil,
           pml1' = [pml1 EXCEPT ![pml2[c][p[1]]][p[2]] = perms]
    PROVE  SetsRights(c, p, perms)
<1> USE EptAssumption
<1>1. p[1] \in Regions /\ p[2] \in Offsets /\ p = <<p[1], p[2]>>
  BY DEF Pages
<1> SUFFICES ASSUME NEW d \in Cpus, NEW q \in Pages
             PROVE  Translate(d, q)' = IF d = c /\ q = p THEN perms ELSE Translate(d, q)
  BY DEF SetsRights
<1>2. q[1] \in Regions /\ q[2] \in Offsets /\ q = <<q[1], q[2]>>
  BY DEF Pages
<1>3. CASE q[1] \in HighRegions \/ pml2[d][q[1]] = Nil
  BY <1>3 DEF Translate
<1>4. CASE q[1] \notin HighRegions /\ pml2[d][q[1]] # Nil
  <2>1. pml2[c][p[1]] \in SplitBlocks /\ pml2[d][q[1]] \in SplitBlocks
    BY <1>1, <1>2, <1>4 DEF TypeOK
  <2>2. pml2[d][q[1]] = pml2[c][p[1]] => d = c /\ q[1] = p[1]
    BY <1>1, <1>2, <1>4 DEF LiveTables
  <2>3. pml1'[pml2[d][q[1]]][q[2]] =
          IF pml2[d][q[1]] = pml2[c][p[1]] /\ q[2] = p[2] THEN perms
          ELSE pml1[pml2[d][q[1]]][q[2]]
    BY <1>1, <1>2, <2>1 DEF TypeOK
  <2>4. pml2[d][q[1]] = pml2[c][p[1]] /\ q[2] = p[2] <=> d = c /\ q = p
    BY <1>1, <1>2, <2>2
  <2>5. Translate(d, q)' = pml1'[pml2[d][q[1]]][q[2]]
    BY <1>4 DEF Translate
  <2>6. Translate(d, q) = pml1[pml2[d][q[1]]][q[2]]
    BY <1>4 DEF Translate
  <2> QED BY <2>3, <2>4, <2>5, <2>6
<1> QED BY <1>3, <1>4

\* SetPML1AndInvalidateTLB on a listed record.
LEMMA SetEntryEffect ==
    ASSUME TypeOK, HookInv, LiveTables, ~denied, UNCHANGED pml2,
           NEW c \in Cpus, NEW h \in Listed(c), NEW perms,
           SetPML1AndInvalidateTLB(c, h, perms)
    PROVE  SetsRights(c, rec[h].page, perms)
<1>1. /\ rec[h].page \in Pages /\ rec[h].page[1] \notin HighRegions
      /\ pml2[c][rec[h].page[1]] = rec[h].table /\ rec[h].table # Nil
  BY ListedEntry
<1>2. pml1' = [pml1 EXCEPT ![pml2[c][rec[h].page[1]]][rec[h].page[2]] = perms]
  BY <1>1 DEF SetPML1AndInvalidateTLB
<1> QED BY <1>1, <1>2, EntryWrite

\* A split gives the same rights from 4KB entries as the 2MB page did.
LEMMA SplitEffect ==
    ASSUME TypeOK, HookInv, TableInv, ~denied, NEW c \in Cpus, SplitLargePage(c)
    PROVE  KeepsRights
<1> USE EptAssumption
<1> DEFINE buf == op[c].buf
           region == PhysOf[op[c].va][1]
<1>1. CASE UNCHANGED <<pml1, pml2>>
  BY <1>1 DEF KeepsRights, Translate
<1>2. CASE /\ region \notin HighRegions
           /\ pml2[c][region] = Nil
           /\ pml1' = [pml1 EXCEPT ![buf] = [o \in Offsets |-> Kinds]]
           /\ pml2' = [pml2 EXCEPT ![c][region] = buf]
  <2>1. op[c].pc = "split"
    BY DEF SplitLargePage
  <2>2. /\ buf \in SplitBlocks
        /\ \A d \in Cpus, r \in Regions : pml2[d][r] # buf
    BY <2>1, BufferIsBlock DEF TableInv, BufferInv
  <2> HIDE DEF buf, region
  <2> SUFFICES ASSUME NEW d \in Cpus, NEW q \in Pages
               PROVE  Translate(d, q)' = Translate(d, q)
    BY DEF KeepsRights
  <2>3. q[1] \in Regions /\ q[2] \in Offsets
    BY DEF Pages
  <2>4. CASE q[1] \in HighRegions
    BY <2>4 DEF Translate
  <2>5. CASE q[1] \notin HighRegions /\ d = c /\ q[1] = region
    <3>1. pml2'[d][q[1]] = buf /\ buf # Nil /\ pml1'[buf][q[2]] = Kinds
      BY <1>2, <2>2, <2>3, <2>5 DEF TypeOK
    <3> QED BY <1>2, <2>5, <3>1 DEF Translate
  <2>6. CASE q[1] \notin HighRegions /\ ~(d = c /\ q[1] = region)
    <3>1. pml2'[d][q[1]] = pml2[d][q[1]]
      BY <1>2, <2>3, <2>6 DEF TypeOK
    <3>2. pml2[d][q[1]] # Nil => pml1'[pml2[d][q[1]]] = pml1[pml2[d][q[1]]]
      BY <1>2, <2>2, <2>3 DEF TypeOK
    <3> QED BY <3>1, <3>2 DEF Translate
  <2> QED BY <2>4, <2>5, <2>6
<1> QED BY <1>1, <1>2 DEF SplitLargePage, IsLargePage

\* A block that the free thread zeroes is no table.
LEMMA ReclaimEffect ==
    ASSUME TypeOK, TableInv, ~denied, NEW b \in Blocks, ReclaimBlock(b)
    PROVE  KeepsRights
<1>1. /\ queued[b] > 0 /\ UNCHANGED pml2
      /\ pml1' = [t \in SplitBlocks |-> IF t = b THEN [o \in Offsets |-> {}] ELSE pml1[t]]
  BY DEF ReclaimBlock, Reclaim
<1>2. \A d \in Cpus, r \in Regions : pml2[d][r] # Nil =>
         pml2[d][r] # b /\ pml2[d][r] \in SplitBlocks
  BY <1>1 DEF TypeOK, TableInv, LiveTables
<1>3. \A d \in Cpus, r \in Regions : pml2[d][r] # Nil => pml1'[pml2[d][r]] = pml1[pml2[d][r]]
  BY <1>1, <1>2
<1> SUFFICES ASSUME NEW d \in Cpus, NEW q \in Pages
             PROVE  Translate(d, q)' = Translate(d, q)
  BY DEF KeepsRights
<1>4. pml2' = pml2 /\ (pml2[d][q[1]] # Nil => pml1'[pml2[d][q[1]]] = pml1[pml2[d][q[1]]])
  BY <1>1, <1>3 DEF Pages
<1> QED BY <1>4 DEF Translate

\* The entry a new record restricts was open, and the others stay as they are.
LEMMA InstallEffect ==
    ASSUME TypeOK, HookInv, TableInv, AccessInv, ~denied, NEW c \in Cpus, InstallHook(c)
    PROVE  \E h \in HookBlocks :
             /\ SetsRights(c, rec'[h].page, rec'[h].changed)
             /\ Listed(c)' = Listed(c) \cup {h}
             /\ \A d \in Cpus \ {c} : Listed(d)' = Listed(d)
             /\ \A d \in Cpus : h \notin Listed(d)
             /\ \A d \in Cpus : \A g \in Listed(d) : rec'[g] = rec[g]
             /\ rec'[h].page \in Pages
             /\ rec'[h].changed \in SUBSET Kinds
             /\ rec'[h].original = Translate(c, rec'[h].page)
             /\ NoAlias => rec'[h].original = Kinds
             /\ NoAlias => \A g \in Listed(c) : rec[g].page # rec'[h].page
<1> USE EptAssumption
<1> DEFINE page == PhysOf[op[c].va]
           table == pml2[c][page[1]]
           changed == ChangedEntry(op[c].perms)
           new == [va |-> op[c].va, page |-> page, table |-> table,
                   original |-> pml1[table][page[2]], changed |-> changed]
<1>0. LiveRecords /\ RecordInv /\ OpInv /\ op[c].pc = "record" /\ LiveTables
  BY DEF HookInv, InstallHook, TableInv
<1>1. /\ op[c].va \in Vas /\ page \in Pages
      /\ page[1] \in Regions \ HighRegions /\ page[2] \in Offsets
      /\ table \in SplitBlocks /\ table # Nil
      /\ changed \in SUBSET Kinds
      /\ \A g \in Listed(c) : rec[g].va # op[c].va
  BY <1>0, InstallRecord DEF OpInv
<1>2. /\ new.page = page /\ new.changed = changed
      /\ new.original = pml1[table][page[2]]
  OBVIOUS
<1>3. Translate(c, page) = pml1[table][page[2]]
  BY <1>1 DEF Translate
<1>4. PICK h \in HookBlocks :
         /\ Take(h)
         /\ rec' = [rec EXCEPT ![h] = new]
         /\ hooked' = [hooked EXCEPT ![c] = Cons(h, @)]
         /\ pml1' = [pml1 EXCEPT ![table][page[2]] = changed]
  BY DEF InstallHook
<1>5. SetsRights(c, page, changed)
  <2>1. UNCHANGED pml2
    BY DEF InstallHook
  <2>2. pml1' = [pml1 EXCEPT ![pml2[c][page[1]]][page[2]] = changed]
    BY <1>4
  <2> HIDE DEF page, changed
  <2> QED BY <1>0, <1>1, <2>1, <2>2, EntryWrite
<1>6. \A d \in Cpus : \A g \in Listed(d) : g # h /\ g \in HookBlocks
  <2>1. \A d \in Cpus : \A k \in DOMAIN hooked[d] : status[hooked[d][k]] = "used"
    BY <1>0 DEF LiveRecords
  <2>2. status[h] = "free"
    BY <1>4 DEF Take
  <2>3. \A d \in Cpus : \A g \in Listed(d) : g \in HookBlocks
    BY ListedEntry
  <2> QED BY <2>1, <2>2, <2>3 DEF Listed, ToSet
<1>7. rec'[h] = new /\ \A d \in Cpus : \A g \in Listed(d) : rec'[g] = rec[g]
  <2> HIDE DEF new
  <2> QED BY <1>4, <1>6 DEF TypeOK
<1>8. Listed(c)' = Listed(c) \cup {h} /\ \A d \in Cpus \ {c} : Listed(d)' = Listed(d)
  <2>1. hooked[c] \in Seq(HookBlocks)
    BY DEF TypeOK
  <2>2. ToSet(Cons(h, hooked[c])) = {h} \cup ToSet(hooked[c])
    BY <2>1, ConsList
  <2>3. hooked'[c] = Cons(h, hooked[c]) /\ \A d \in Cpus \ {c} : hooked'[d] = hooked[d]
    BY <1>4 DEF TypeOK
  <2> QED BY <2>2, <2>3 DEF Listed
<1>9. NoAlias => \A g \in Listed(c) : rec[g].page # page
  <2> SUFFICES ASSUME NoAlias, NEW g \in Listed(c), rec[g].page = page PROVE FALSE
    OBVIOUS
  <2>1. rec[g] \in Records /\ rec[g].page = PhysOf[rec[g].va] /\ page # Nil
    BY <1>0, <1>1, ListedEntry DEF RecordInv
  <2>2. rec[g].va = op[c].va
    BY <1>1, <2>1 DEF NoAlias, Records
  <2> QED BY <1>1, <2>2
<1>10. NoAlias => Translate(c, page) = Kinds
  BY <1>1, <1>9 DEF AccessInv, EntryInv
<1> HIDE DEF page, table, changed, new
<1> QED BY <1>1, <1>2, <1>3, <1>5, <1>6, <1>7, <1>8, <1>9, <1>10

-----------------------------------------------------------------------------
(* Rights.                                                                 *)

\* The exception of a record that could not be allocated is never taken back.
LEMMA DeniedStays == [Next]_vars /\ denied => denied'
  BY DEF Next, vars, ghosts, GuestStep, GuestFetch, TlbFill, Retire, EmulateInstruction,
         Interrupt, ExitStep, AllowAccess, BlockAccess, HandleMonitorTrapFlag,
         VmcallStart, HookStart, PageUnhook, UnhookAllStart, VmcallStep, SearchFails,
         AskForBlock, AllocateBuffer, BufferDenied, SplitLargePage, InstallHook,
         RecordDenied, UnhookAllPages, VmcallReturn, PoolStep, GrowPool, ReclaimBlock

\* Rights, records and the history stay as they are.
LEMMA AccessFrame ==
    ASSUME TypeOK, HookInv, AccessInv, KeepsRights, UNCHANGED <<tlb, stepping, ghosts>>,
           \A d \in Cpus : Listed(d)' = Listed(d) /\ \A h \in Listed(d) : rec'[h] = rec[h]
    PROVE  AccessInv'
<1> USE DEF ghosts
<1>1. TlbCoherent'
  <2>1. \A d \in Cpus : \A a \in tlb[d] : a[1] \in Pages
    BY DEF TypeOK
  <2> QED BY <2>1 DEF AccessInv, TlbCoherent, KeepsRights
<1>2. \A d \in Cpus : \A h \in Listed(d) :
         rec[h].page \in Pages /\ Translate(d, rec[h].page)' = Translate(d, rec[h].page)
  BY ListedEntry DEF KeepsRights
<1>3. EntryInv'
  BY <1>2 DEF AccessInv, EntryInv, KeepsRights
<1>4. ClosedInv'
  BY <1>2 DEF AccessInv, ClosedInv
<1> QED BY <1>1, <1>3, <1>4 DEF AccessInv

\* After a write and the flush that follows it no TLB has a right too many.
LEMMA FlushedTlb ==
    ASSUME TypeOK, TlbCoherent, UNCHANGED denied, NEW c \in Cpus, NEW p, NEW perms,
           SetsRights(c, p, perms), tlb' = [tlb EXCEPT ![c] = {}]
    PROVE  TlbCoherent'
<1> SUFFICES ASSUME ~denied, NEW d \in Cpus, NEW a \in tlb'[d]
             PROVE  a[2] \in Translate(d, a[1])'
  BY DEF TlbCoherent
<1>1. d # c /\ a \in tlb[d] /\ a[1] \in Pages
  BY DEF TypeOK
<1>2. a[2] \in Translate(d, a[1])
  BY <1>1 DEF TlbCoherent
<1>3. Translate(d, a[1])' = Translate(d, a[1])
  BY <1>1 DEF SetsRights
<1> QED BY <1>2, <1>3

\* A listed record is opened, closed, or leaves the list opened.
LEMMA EntriesAfterSet ==
    ASSUME TypeOK, HookInv, EntryInv, ~denied, NoAlias, UNCHANGED <<rec, denied>>,
           NEW c \in Cpus, NEW h \in Listed(c), NEW perms,
           SetsRights(c, rec[h].page, perms),
           perms \in {rec[h].original, rec[h].changed},
           \A d \in Cpus \ {c} : Listed(d)' = Listed(d),
           \/ Listed(c)' = Listed(c)
           \/ Listed(c)' = Listed(c) \ {h} /\ perms = rec[h].original
    PROVE  /\ EntryInv'
           /\ \A d \in Cpus : \A g \in Listed(d) : d # c \/ g # h =>
                Translate(d, rec[g].page)' = Translate(d, rec[g].page)
           /\ Translate(c, rec[h].page)' = perms
<1>1. \A d \in Cpus : \A g \in Listed(d) :
         /\ rec[g].page \in Pages
         /\ d # c \/ g # h => d # c \/ rec[g].page # rec[h].page
  BY ListedEntry, OneRecord
<1>2. \A d \in Cpus : \A g \in Listed(d) : d # c \/ g # h =>
         Translate(d, rec[g].page)' = Translate(d, rec[g].page)
  BY <1>1 DEF SetsRights
<1>3. Translate(c, rec[h].page)' = perms
  BY <1>1 DEF SetsRights
<1>4. rec[h].original = Kinds
  BY DEF EntryInv
<1>5. \A d \in Cpus : Listed(d)' \subseteq Listed(d)
  OBVIOUS
<1>6. ASSUME NEW d \in Cpus, NEW g \in Listed(d)'
      PROVE  rec[g].original = Kinds /\ Translate(d, rec[g].page)' \in {rec[g].changed, Kinds}
  BY <1>2, <1>3, <1>4, <1>5 DEF EntryInv
<1>7. ASSUME NEW d \in Cpus, NEW q \in Pages
      PROVE  \/ q[1] \in HighRegions
             \/ Translate(d, q)' = Kinds
             \/ \E g \in Listed(d)' : rec[g].page = q
  <2>1. CASE d = c /\ q = rec[h].page
    BY <1>3, <1>4, <2>1
  <2>2. CASE ~(d = c /\ q = rec[h].page)
    <3>1. Translate(d, q)' = Translate(d, q)
      BY <2>2 DEF SetsRights
    <3>2. ASSUME NEW g \in Listed(d), rec[g].page = q PROVE g \in Listed(d)'
      BY <2>2, <3>2
    <3> QED BY <3>1, <3>2 DEF EntryInv
  <2> QED BY <2>1, <2>2
<1>8. EntryInv'
  BY <1>6, <1>7 DEF EntryInv
<1> QED BY <1>2, <1>3, <1>8

\* The guest may cache what the tables permit; the rest it does changes nothing.
LEMMA GuestKeepsAccess ==
    ASSUME TypeOK, HookInv, TableInv, AccessInv, NEW c \in Cpus, GuestStep(c)
    PROVE  AccessInv'
<1> USE DEF poolVars, tableVars, hookVars, ghosts
<1>1. UNCHANGED <<pml2, pml1, hooked, rec, stepping, lost, denied>>
  BY DEF GuestStep, GuestFetch, TlbFill, Retire, EmulateInstruction, Interrupt, guestVars
<1>2. KeepsRights
  BY <1>1 DEF KeepsRights, Translate
<1>3. CASE UNCHANGED tlb
  BY <1>1, <1>2, <1>3, AccessFrame DEF Listed
<1>4. CASE TlbFill(c)
  <2>1. EntryInv' /\ ClosedInv'
    BY <1>1 DEF AccessInv, EntryInv, ClosedInv, Translate, Listed
  <2>2. TlbCoherent'
    <3> SUFFICES ASSUME ~denied, NEW d \in Cpus, NEW a \in tlb'[d]
                 PROVE  a[2] \in Translate(d, a[1])
      BY <1>1 DEF TlbCoherent, Translate
    <3>1. CASE a \in tlb[d]
      BY <3>1 DEF AccessInv, TlbCoherent
    <3>2. CASE a \notin tlb[d]
      <4>1. PICK b \in insn[c].acc :
               tlb' = [tlb EXCEPT ![c] = @ \cup ({b[1]} \X Translate(c, b[1]))]
        BY <1>4 DEF TlbFill
      <4>2. d = c /\ a \in {b[1]} \X Translate(c, b[1])
        BY <3>2, <4>1 DEF TypeOK
      <4> QED BY <4>2
    <3> QED BY <3>1, <3>2
  <2> QED BY <2>1, <2>2 DEF AccessInv
<1> QED BY <1>3, <1>4 DEF GuestStep, GuestFetch, Retire, EmulateInstruction, Interrupt

\* An exit opens the page of a record, and closes the one it opened before unless
\* the pointer to it was overwritten.
LEMMA ExitKeepsAccess ==
    ASSUME TypeOK, HookInv, TableInv, AccessInv, ~denied, NEW c \in Cpus, ExitStep(c)
    PROVE  AccessInv'
<1> USE EptAssumption DEF poolVars, tableVars, hookVars, guestVars, ghosts
<1>0. /\ LiveRecords /\ NoDanglingStep /\ LiveTables /\ TlbCoherent /\ EntryInv /\ ClosedInv
      /\ stepping \in [Cpus -> HookBlocks \cup {Nil}]
  BY DEF HookInv, TableInv, AccessInv, TypeOK
<1>1. CASE BlockAccess(c)
  <2>1. KeepsRights /\ UNCHANGED <<tlb, stepping, ghosts, hooked, rec>>
    BY <1>1 DEF BlockAccess, KeepsRights, Translate
  <2> QED BY <2>1, AccessFrame DEF Listed
<1>2. ASSUME NEW h \in Listed(c), NEW perms \in {rec[h].original, rec[h].changed},
             SetPML1AndInvalidateTLB(c, h, perms),
             UNCHANGED <<pml2, hooked, rec, denied>>,
             \A d \in Cpus \ {c} : stepping'[d] = stepping[d],
             lost \ {h} \subseteq lost',
             stepping[c] # Nil => stepping[c] \in lost' \/ stepping[c] = h,
             perms = rec[h].changed \/ stepping'[c] = h
      PROVE  AccessInv'
  <2>1. SetsRights(c, rec[h].page, perms) /\ tlb' = [tlb EXCEPT ![c] = {}]
    BY <1>0, <1>2, SetEntryEffect DEF SetPML1AndInvalidateTLB
  <2>2. TlbCoherent'
    BY <1>0, <1>2, <2>1, FlushedTlb
  <2>3. \A d \in Cpus : Listed(d)' = Listed(d)
    BY <1>2 DEF Listed
  <2>4. CASE ~NoAlias
    <3>1. EntryInv' /\ ClosedInv'
      BY <2>4 DEF EntryInv, ClosedInv, NoAlias
    <3> QED BY <2>2, <3>1 DEF AccessInv
  <2>5. CASE NoAlias
    <3>1. /\ EntryInv'
          /\ \A d \in Cpus : \A g \in Listed(d) : d # c \/ g # h =>
               Translate(d, rec[g].page)' = Translate(d, rec[g].page)
          /\ Translate(c, rec[h].page)' = perms
      BY <1>0, <1>2, <2>1, <2>3, <2>5, EntriesAfterSet
    <3>2. ClosedInv'
      <4> SUFFICES ASSUME NEW d \in Cpus, NEW g \in Listed(d)
                   PROVE  \/ Translate(d, rec[g].page)' = rec[g].changed
                          \/ g = stepping'[d] \/ g \in lost'
        BY <1>2, <2>3 DEF ClosedInv
      <4>1. CASE d = c /\ g = h
        BY <1>2, <3>1, <4>1
      <4>2. CASE d # c \/ g # h
        <5>1. g # h
          BY <4>2, OneList
        <5>2. \/ Translate(d, rec[g].page) = rec[g].changed
              \/ g = stepping[d] \/ g \in lost
          BY <1>0, <2>5 DEF ClosedInv
        <5>3. g # Nil
          BY ListedEntry
        <5> QED BY <1>2, <3>1, <4>2, <5>1, <5>2, <5>3
      <4> QED BY <4>1, <4>2
    <3> QED BY <2>2, <3>1, <3>2 DEF AccessInv
  <2> QED BY <2>4, <2>5
<1>3. CASE AllowAccess(c)
  <2>1. PICK i \in 1 .. Len(hooked[c]) :
           /\ SetPML1AndInvalidateTLB(c, hooked[c][i], rec[hooked[c][i]].original)
           /\ stepping' = [stepping EXCEPT ![c] = hooked[c][i]]
           /\ lost' = (lost \cup ({stepping[c]} \ {Nil})) \ {hooked[c][i]}
    BY <1>3 DEF AllowAccess
  <2>2. hooked[c][i] \in Listed(c)
    BY <1>0, ListedRecord
  <2>3. UNCHANGED <<pml2, hooked, rec, denied>>
    BY <1>3 DEF AllowAccess
  <2>4. /\ stepping'[c] = hooked[c][i]
        /\ \A d \in Cpus \ {c} : stepping'[d] = stepping[d]
    BY <1>0, <2>1
  <2> QED BY <1>2, <2>1, <2>2, <2>3, <2>4
<1>4. CASE HandleMonitorTrapFlag(c)
  <2>1. /\ UNCHANGED <<pml2, hooked, rec, lost, denied>>
        /\ \A d \in Cpus \ {c} : stepping'[d] = stepping[d]
        /\ stepping'[c] = Nil
    BY <1>0, <1>4 DEF HandleMonitorTrapFlag
  <2>2. CASE stepping[c] = Nil
    <3>1. UNCHANGED <<pml1, tlb>> /\ stepping' = stepping
      BY <1>0, <1>4, <2>2 DEF HandleMonitorTrapFlag
    <3>2. KeepsRights
      BY <2>1, <3>1 DEF KeepsRights, Translate
    <3> QED BY <2>1, <3>1, <3>2, AccessFrame DEF Listed
  <2>3. CASE stepping[c] # Nil
    <3>1. stepping[c] \in Listed(c)
      BY <1>0, <2>3 DEF NoDanglingStep
    <3>2. SetPML1AndInvalidateTLB(c, stepping[c], rec[stepping[c]].changed)
      BY <1>4, <2>3 DEF HandleMonitorTrapFlag
    <3> QED BY <1>2, <2>1, <3>1, <3>2
  <2> QED BY <2>2, <2>3
<1> QED BY <1>1, <1>3, <1>4 DEF ExitStep

\* A hook that is removed leaves its page as it was before, and no trace.
LEMMA RemoveKeepsAccess ==
    ASSUME TypeOK, HookInv, TableInv, AccessInv, ~denied,
           NEW c \in Cpus, NEW i \in 1 .. Len(hooked[c]), RemoveHook(c, i),
           UNCHANGED <<pml2, rec, guestVars, denied>>
    PROVE  AccessInv'
<1> DEFINE h == hooked[c][i]
<1>0. /\ LiveRecords /\ RecordInv /\ LiveTables /\ TlbCoherent /\ EntryInv /\ ClosedInv
      /\ SetPML1AndInvalidateTLB(c, h, rec[h].original)
      /\ lost' = lost \ {h} /\ stepping' = stepping
  BY DEF HookInv, TableInv, AccessInv, RemoveHook, guestVars
<1>1. /\ h \in Listed(c)
      /\ Listed(c)' = Listed(c) \ {h}
      /\ \A d \in Cpus \ {c} : Listed(d)' = Listed(d)
  BY <1>0, ListedRecord, ListRemove
<1> HIDE DEF h
<1>2. SetsRights(c, rec[h].page, rec[h].original) /\ tlb' = [tlb EXCEPT ![c] = {}]
  BY <1>0, <1>1, SetEntryEffect DEF SetPML1AndInvalidateTLB
<1>3. TlbCoherent'
  BY <1>0, <1>2, FlushedTlb
<1>4. CASE ~NoAlias
  <2>1. EntryInv' /\ ClosedInv'
    BY <1>4 DEF EntryInv, ClosedInv, NoAlias
  <2> QED BY <1>3, <2>1 DEF AccessInv
<1>5. CASE NoAlias
  <2>1. /\ EntryInv'
        /\ \A d \in Cpus : \A g \in Listed(d) : d # c \/ g # h =>
             Translate(d, rec[g].page)' = Translate(d, rec[g].page)
    BY <1>0, <1>1, <1>2, <1>5, EntriesAfterSet
  <2>2. ASSUME NEW d \in Cpus, NEW g \in Listed(d)'
        PROVE  \/ Translate(d, rec[g].page)' = rec[g].changed
               \/ g = stepping[d] \/ g \in lost'
    <3>1. g \in Listed(d) /\ g # h
      BY <1>1, <2>2, OneList
    <3> QED BY <1>0, <1>5, <2>1, <3>1 DEF ClosedInv
  <2>3. ClosedInv'
    BY <1>0, <2>2 DEF ClosedInv
  <2> QED BY <1>3, <2>1, <2>3 DEF AccessInv
<1> QED BY <1>4, <1>5

\* A vmcall that starts may remove a hook.
LEMMA VmcallStartKeepsAccess ==
    ASSUME TypeOK, HookInv, TableInv, AccessInv, ~denied, NEW c \in Cpus, VmcallStart(c)
    PROVE  AccessInv'
<1> USE DEF poolVars, tableVars, hookVars, ghosts
<1>1. CASE UNCHANGED <<pml2, pml1, tlb, hooked, rec, guestVars, lost, denied>>
  <2>1. KeepsRights
    BY <1>1 DEF KeepsRights, Translate
  <2> QED BY <1>1, <2>1, AccessFrame DEF Listed, guestVars
<1>2. CASE \E i \in 1 .. Len(hooked[c]) :
             RemoveHook(c, i) /\ UNCHANGED <<pml2, rec, guestVars, denied>>
  BY <1>2, RemoveKeepsAccess
<1>3. ASSUME NEW va \in Vas, PageUnhook(c, va) PROVE AccessInv'
  BY <1>1, <1>2, <1>3 DEF PageUnhook
<1>4. ASSUME NEW va \in Vas, NEW perms \in Permissions, HookStart(c, va, perms) PROVE AccessInv'
  BY <1>1, <1>4 DEF HookStart
<1>5. CASE UnhookAllStart(c)
  BY <1>1, <1>5 DEF UnhookAllStart
<1> QED BY <1>3, <1>4, <1>5 DEF VmcallStart

\* A new record restricts an entry that was open.
LEMMA InstallKeepsAccess ==
    ASSUME TypeOK, HookInv, TableInv, AccessInv, ~denied, NEW c \in Cpus, InstallHook(c)
    PROVE  AccessInv'
<1>0. /\ TlbCoherent /\ EntryInv /\ ClosedInv
      /\ tlb' = [tlb EXCEPT ![c] = {}]
      /\ UNCHANGED <<stepping, lost, denied>>
  BY DEF AccessInv, InstallHook, guestVars, ghosts
<1>1. PICK h \in HookBlocks :
         /\ SetsRights(c, rec'[h].page, rec'[h].changed)
         /\ Listed(c)' = Listed(c) \cup {h}
         /\ \A d \in Cpus \ {c} : Listed(d)' = Listed(d)
         /\ \A d \in Cpus : h \notin Listed(d)
         /\ \A d \in Cpus : \A g \in Listed(d) : rec'[g] = rec[g]
         /\ rec'[h].page \in Pages
         /\ NoAlias => rec'[h].original = Kinds
         /\ NoAlias => \A g \in Listed(c) : rec[g].page # rec'[h].page
  BY InstallEffect
<1>2. TlbCoherent'
  BY <1>0, <1>1, FlushedTlb
<1>3. CASE ~NoAlias
  <2>1. EntryInv' /\ ClosedInv'
    BY <1>3 DEF EntryInv, ClosedInv, NoAlias
  <2> QED BY <1>2, <2>1 DEF AccessInv
<1>4. CASE NoAlias
  <2>1. ASSUME NEW d \in Cpus, NEW g \in Listed(d)
        PROVE  rec'[g] = rec[g] /\ Translate(d, rec[g].page)' = Translate(d, rec[g].page)
    <3>1. rec'[g] = rec[g] /\ rec[g].page \in Pages
      BY <1>1, ListedEntry
    <3>2. d # c \/ rec[g].page # rec'[h].page
      BY <1>1, <1>4
    <3> QED BY <1>1, <3>1, <3>2 DEF SetsRights
  <2>2. Translate(c, rec[h].page)' = rec'[h].changed
    BY <1>1 DEF SetsRights
  <2>3. EntryInv'
    <3>1. ASSUME NEW d \in Cpus, NEW g \in Listed(d)'
          PROVE  /\ rec'[g].original = Kinds
                 /\ Translate(d, rec[g].page)' \in {rec'[g].changed, Kinds}
      <4>1. CASE d = c /\ g = h
        BY <1>1, <1>4, <2>2, <4>1
      <4>2. CASE g \in Listed(d)
        BY <1>0, <1>4, <2>1, <4>2 DEF EntryInv
      <4> QED BY <1>1, <4>1, <4>2
    <3>2. ASSUME NEW d \in Cpus, NEW q \in Pages
          PROVE  \/ q[1] \in HighRegions
                 \/ Translate(d, q)' = Kinds
                 \/ \E g \in Listed(d)' : rec'[g].page = q
      <4>1. CASE d = c /\ q = rec'[h].page
        BY <1>1, <4>1
      <4>2. CASE ~(d = c /\ q = rec'[h].page)
        <5>1. Translate(d, q)' = Translate(d, q)
          BY <1>1, <4>2 DEF SetsRights
        <5>2. \A g \in Listed(d) : g \in Listed(d)' /\ rec'[g] = rec[g]
          BY <1>1
        <5> QED BY <1>0, <1>4, <5>1, <5>2 DEF EntryInv
      <4> QED BY <4>1, <4>2
    <3> QED BY <3>1, <3>2 DEF EntryInv
  <2>4. ClosedInv'
    <3>1. ASSUME NEW d \in Cpus, NEW g \in Listed(d)'
          PROVE  \/ Translate(d, rec[g].page)' = rec'[g].changed
                 \/ g = stepping[d] \/ g \in lost
      <4>1. CASE d = c /\ g = h
        BY <2>2, <4>1
      <4>2. CASE g \in Listed(d)
        BY <1>0, <1>4, <2>1, <4>2 DEF ClosedInv
      <4> QED BY <1>1, <4>1, <4>2
    <3> QED BY <1>0, <3>1 DEF ClosedInv
  <2> QED BY <1>2, <2>3, <2>4 DEF AccessInv
<1> QED BY <1>3, <1>4

\* The steps of a vmcall.
LEMMA VmcallStepKeepsAccess ==
    ASSUME TypeOK, HookInv, TableInv, AccessInv, ~denied', ~denied,
           NEW c \in Cpus, VmcallStep(c)
    PROVE  AccessInv'
<1> USE DEF poolVars, tableVars, hookVars, ghosts
<1>1. CASE UNCHANGED <<pml2, pml1, tlb, hooked, rec, guestVars, lost, denied>>
  <2>1. KeepsRights
    BY <1>1 DEF KeepsRights, Translate
  <2> QED BY <1>1, <2>1, AccessFrame DEF Listed, guestVars
<1>2. CASE SplitLargePage(c)
  <2>1. KeepsRights
    BY <1>2, SplitEffect
  <2>2. UNCHANGED <<tlb, hooked, rec, guestVars, lost, denied>>
    BY <1>2 DEF SplitLargePage
  <2> QED BY <2>1, <2>2, AccessFrame DEF Listed, guestVars
<1>3. CASE InstallHook(c)
  BY <1>3, InstallKeepsAccess
<1>4. CASE UnhookAllPages(c)
  <2>1. CASE hooked[c] # <<>> /\ RemoveHook(c, 1)
    <3>1. 1 \in 1 .. Len(hooked[c])
      BY <2>1 DEF TypeOK
    <3>2. UNCHANGED <<pml2, rec, guestVars, denied>>
      BY <1>4 DEF UnhookAllPages
    <3> QED BY <2>1, <3>1, <3>2, RemoveKeepsAccess
  <2> QED BY <1>1, <1>4, <2>1 DEF UnhookAllPages
<1> QED BY <1>1, <1>2, <1>3, <1>4
        DEF VmcallStep, SearchFails, AskForBlock, AllocateBuffer, BufferDenied,
            RecordDenied, VmcallReturn

\* The pool's threads touch no entry of a table and no listed record.
LEMMA PoolKeepsAccess ==
    ASSUME TypeOK, HookInv, TableInv, AccessInv, ~denied, PoolStep
    PROVE  AccessInv'
<1> USE DEF tableVars, hookVars, guestVars, ghosts
<1>1. ASSUME NEW t \in Types, GrowPool(t) PROVE AccessInv'
  <2>1. KeepsRights /\ UNCHANGED <<tlb, hooked, rec, stepping, lost, denied>>
    BY <1>1 DEF GrowPool, KeepsRights, Translate
  <2> QED BY <2>1, AccessFrame DEF Listed
<1>2. ASSUME NEW b \in Blocks, ReclaimBlock(b) PROVE AccessInv'
  <2>1. KeepsRights
    BY <1>2, ReclaimEffect
  <2>2. /\ UNCHANGED <<tlb, hooked, stepping, lost, denied>>
        /\ rec' = [h \in HookBlocks |-> IF h = b THEN Nil ELSE rec[h]]
        /\ queued[b] > 0
    BY <1>2 DEF ReclaimBlock, Reclaim
  <2>3. \A d \in Cpus : \A h \in Listed(d) : h # b /\ h \in HookBlocks
    <3>1. \A d \in Cpus : \A i \in DOMAIN hooked[d] : queued[hooked[d][i]] = 0
      BY DEF HookInv, LiveRecords
    <3> QED BY <2>2, <3>1, ListedEntry DEF Listed, ToSet
  <2> QED BY <2>1, <2>2, <2>3, AccessFrame DEF Listed
<1> QED BY <1>1, <1>2 DEF PoolStep

\* The access invariant is inductive, given the others.
LEMMA AccessStep ==
    TypeOK /\ HookInv /\ TableInv /\ AccessInv /\ [Next]_vars => AccessInv'
<1> SUFFICES ASSUME TypeOK, HookInv, TableInv, AccessInv, [Next]_vars PROVE AccessInv'
  OBVIOUS
<1>1. CASE denied'
  BY <1>1 DEF AccessInv, TlbCoherent, EntryInv, ClosedInv
<1>2. CASE ~denied'
  <2>1. ~denied
    BY <1>2, DeniedStays
  <2>2. CASE UNCHANGED vars
    <3>1. KeepsRights /\ UNCHANGED <<tlb, hooked, rec, stepping, ghosts>>
      BY <2>2 DEF vars, tableVars, hookVars, guestVars, KeepsRights, Translate
    <3> QED BY <3>1, AccessFrame DEF Listed
  <2> QED BY <1>2, <2>1, <2>2, GuestKeepsAccess, ExitKeepsAccess, VmcallStartKeepsAccess,
             VmcallStepKeepsAccess, PoolKeepsAccess DEF Next
<1> QED BY <1>1, <1>2

\* Nothing is protected, cached or split at the start.
LEMMA InitAccess == Init => AccessInv
<1> SUFFICES ASSUME Init PROVE AccessInv
  OBVIOUS
<1>1. \A c \in Cpus : Listed(c) = {} /\ tlb[c] = {}
  BY DEF Init, Listed, ToSet
<1>2. \A c \in Cpus, p \in Pages : p[1] \in HighRegions \/ Translate(c, p) = Kinds
  BY DEF Init, Translate, Pages
<1> QED BY <1>1, <1>2 DEF AccessInv, TlbCoherent, EntryInv, ClosedInv

-----------------------------------------------------------------------------
(* Theorems.                                                               *)

EptInv == TypeOK /\ HookInv /\ TableInv /\ AccessInv

\* Types, lists, tables and rights together are inductive.
LEMMA EptCorrect == Spec => []EptInv
<1>1. Init => EptInv
  BY InitType, InitHooks, InitTables, InitAccess DEF EptInv
<1>2. EptInv /\ [Next]_vars => EptInv'
  BY TypeStep, HookStep, TableStep, AccessStep DEF EptInv
<1> QED BY <1>1, <1>2, PTL DEF Spec

\* A table is a block that the pool has given to one region of one processor, and
\* it stays given as long as the hardware walks it.
THEOREM TablesStayLive == Spec => []LiveTables
<1>1. EptInv => LiveTables
  BY DEF EptInv, TableInv
<1> QED BY <1>1, EptCorrect, PTL

\* Neither a table nor a record is queued to be freed twice, or when it is free.
THEOREM BlocksFreedOnce == Spec => []FreedOnce
<1>1. EptInv => FreedOnce
  BY DEF EptInv, FreedOnce, HookInv, HookQueueInv, TableInv, SplitQueueInv, Blocks
<1> QED BY <1>1, EptCorrect, PTL

\* No TLB gives a right that the tables of its processor do not give.
THEOREM TlbsAgree == Spec => []TlbCoherent
<1>1. EptInv => TlbCoherent
  BY DEF EptInv, AccessInv
<1> QED BY <1>1, EptCorrect, PTL

\* The pages of the records are closed, in the terms of the run: by entry.
LEMMA ClosedEntries ==
    ASSUME EptInv, ~denied, NoAlias, NEW c \in Cpus, NEW h \in Listed(c)
    PROVE  EntryOf(h) = rec[h].changed \/ h = stepping[c] \/ h \in lost
<1>1. EntryOf(h) = Translate(c, rec[h].page)
  BY ListedEntry DEF EptInv
<1> QED BY <1>1 DEF EptInv, AccessInv, ClosedInv

\* A listed page is restricted, except for the one instruction of the kernel image
\* it is open for, unless its closing was overwritten.
THEOREM PagesStayEnforced == Spec => []Enforced
<1>1. EptInv => Enforced
  BY ClosedEntries DEF Enforced
<1> QED BY <1>1, EptCorrect, PTL

\* Every access below 512GB that the tables refuse has a record that says so.
THEOREM ViolationsAreExpected == Spec => []NoUnexpectedViolation
<1>1. EptInv => NoUnexpectedViolation
  <2> SUFFICES ASSUME EptInv, ~denied, NoAlias, NEW c \in Cpus, insn[c] # Nil,
                      NEW a \in insn[c].acc, a[1][1] \notin HighRegions
               PROVE  Permits(c, a) \/ Listed(c) \cap HooksOn(a[1]) # {}
    BY DEF NoUnexpectedViolation
  <2>1. a \in Pages \X Kinds
    BY EptAssumption DEF EptInv, TypeOK
  <2>2. CASE Translate(c, a[1]) = Kinds
    BY <2>1, <2>2 DEF Permits
  <2>3. CASE \E h \in Listed(c) : rec[h].page = a[1]
    BY <2>3, ListedEntry DEF EptInv, HooksOn
  <2> QED BY <2>1, <2>2, <2>3 DEF EptInv, AccessInv, EntryInv
<1> QED BY <1>1, EptCorrect, PTL

\* Outside the kernel image no instruction gets what a record withholds, neither
\* from the tables nor from a TLB, whoever used the page before.
THEOREM OthersNeverPass == Spec => []OnlyKernelImagePasses
<1>1. EptInv => OnlyKernelImagePasses
  <2> SUFFICES ASSUME EptInv, ~denied, NoAlias, NEW c \in Cpus, insn[c] # Nil,
                      ~insn[c].kernel, NEW a \in insn[c].acc,
                      NEW h \in Listed(c) \cap HooksOn(a[1]), Permits(c, a)
               PROVE  a[2] \in rec[h].changed \/ h \in lost
    BY DEF OnlyKernelImagePasses
  <2>1. stepping[c] = Nil
    BY DEF EptInv, HookInv, RootQuiet, NoDanglingStep
  <2>2. rec[h].page = a[1] /\ h # Nil
    BY EptAssumption DEF HooksOn
  <2>3. a[2] \in Translate(c, a[1])
    BY DEF Permits, EptInv, AccessInv, TlbCoherent
  <2>4. Translate(c, a[1]) = rec[h].changed \/ h \in lost
    BY <2>1, <2>2 DEF EptInv, AccessInv, ClosedInv
  <2> QED BY <2>3, <2>4
<1> QED BY <1>1, EptCorrect, PTL

-----------------------------------------------------------------------------
(* Ept implements PageGuard.                                               *)

LEMMA RightsAreKinds ==
    ASSUME TypeOK, NEW c \in Cpus, NEW p \in Pages
    PROVE  Translate(c, p) \subseteq Kinds
<1>1. p[1] \in Regions /\ p[2] \in Offsets
  BY DEF Pages
<1>2. pml2[c][p[1]] # Nil => pml1[pml2[c][p[1]]][p[2]] \subseteq Kinds
  BY <1>1 DEF TypeOK
<1> QED BY <1>2 DEF Translate

\* An access gets what the tables give: no TLB adds to it.
LEMMA GrantedNow ==
    ASSUME TypeOK, TlbCoherent, ~denied, NEW c \in Cpus, NEW p \in Pages
    PROVE  Granted(c, p) = Translate(c, p)
<1>1. \A k : <<p, k>> \in tlb[c] => k \in Translate(c, p)
  BY DEF TlbCoherent
<1> QED BY <1>1, RightsAreKinds DEF Granted, Permits

\* What is asked of the page of a record, and of a page without one.
LEMMA AskedOfRecord ==
    ASSUME TypeOK, HookInv, NoAlias, NEW c \in Cpus, NEW h \in Listed(c)
    PROVE  Asked(c, rec[h].page) = rec[h].changed
<1>1. h \in HooksOn(rec[h].page) /\ rec[h].page[1] \notin HighRegions
      /\ rec[h].changed \subseteq Kinds
  BY ListedEntry DEF HooksOn
<1>2. \A g \in Listed(c) \cap HooksOn(rec[h].page) : g = h
  BY OneRecord DEF HooksOn
<1> QED BY <1>1, <1>2 DEF Asked

LEMMA AskedOfOther ==
    ASSUME NEW c \in Cpus, NEW p \in Pages, p[1] \notin HighRegions,
           \A h \in Listed(c) : rec[h].page # p
    PROVE  Asked(c, p) = Kinds
  BY DEF Asked, HooksOn

\* Lists and records that stay ask for the same.
LEMMA KeepsAsks ==
    ASSUME \A d \in Cpus : Listed(d)' = Listed(d) /\ \A h \in Listed(d) : rec'[h] = rec[h]
    PROVE  UNCHANGED Asks
<1>1. ASSUME NEW d \in Cpus, NEW p \in Pages
      PROVE  Asked(d, p)' = Asked(d, p)
  <2>1. (Listed(d) \cap HooksOn(p))' = Listed(d) \cap HooksOn(p)
    BY DEF HooksOn
  <2>2. \A h \in Listed(d) \cap HooksOn(p) : rec'[h].changed = rec[h].changed
    OBVIOUS
  <2> QED BY <2>1, <2>2 DEF Asked
<1> QED BY <1>1 DEF Asks

\* The list of processor c gets or loses the only record of page p.
LEMMA SetsAsks ==
    ASSUME NEW c \in Cpus, NEW p \in Pages, NEW kinds,
           \A d \in Cpus : \A h \in Listed(d) \cap Listed(d)' : rec'[h] = rec[h],
           \A d \in Cpus \ {c} : Listed(d)' = Listed(d),
           \A h \in Listed(c) \ Listed(c)' : rec[h].page = p,
           \A h \in Listed(c)' \ Listed(c) : rec'[h].page = p,
           Asked(c, p)' = kinds
    PROVE  Asks' = [Asks EXCEPT ![c][p] = kinds]
<1>1. ASSUME NEW d \in Cpus, NEW q \in Pages, d # c \/ q # p
      PROVE  Asked(d, q)' = Asked(d, q)
  <2>1. (Listed(d) \cap HooksOn(q))' = Listed(d) \cap HooksOn(q)
    BY <1>1 DEF HooksOn
  <2>2. \A h \in Listed(d) \cap HooksOn(q) : rec'[h].changed = rec[h].changed
    BY <2>1
  <2> QED BY <2>1, <2>2 DEF Asked
<1> QED BY <1>1 DEF Asks

\* The invariant before and after a step of the guarded system.
Guarded == EptInv /\ EptInv' /\ ~denied /\ ~denied' /\ NoAlias

LEMMA GrantedThen ==
    ASSUME Guarded, NEW c \in Cpus, NEW p \in Pages
    PROVE  /\ Granted(c, p) = Translate(c, p)
           /\ Granted(c, p)' = Translate(c, p)'
<1>1. Granted(c, p) = Translate(c, p)
  BY GrantedNow DEF Guarded, EptInv, AccessInv
<1>2. Granted(c, p)' = Translate(c, p)'
  <2>1. \A k : <<p, k>> \in tlb'[c] => k \in Translate(c, p)'
    BY DEF Guarded, EptInv, AccessInv, TlbCoherent
  <2>2. Translate(c, p)' \subseteq Kinds
    <3>1. p[1] \in Regions /\ p[2] \in Offsets
      BY DEF Pages
    <3>2. pml2'[c][p[1]] # Nil => pml1'[pml2'[c][p[1]]][p[2]] \subseteq Kinds
      BY <3>1 DEF Guarded, EptInv, TypeOK
    <3> QED BY <3>2 DEF Translate
  <2> QED BY <2>1, <2>2 DEF Granted, Permits
<1> QED BY <1>1, <1>2

LEMMA KeepsGrants ==
    ASSUME Guarded, KeepsRights
    PROVE  UNCHANGED Grants
<1>1. \A d \in Cpus, q \in Pages : Granted(d, q)' = Granted(d, q)
  BY GrantedThen DEF KeepsRights
<1> QED BY <1>1 DEF Grants

LEMMA SetsGrants ==
    ASSUME Guarded, NEW c \in Cpus, NEW p \in Pages, NEW kinds, SetsRights(c, p, kinds)
    PROVE  Grants' = [Grants EXCEPT ![c][p] = kinds]
<1>1. \A d \in Cpus, q \in Pages :
         Granted(d, q)' = IF d = c /\ q = p THEN kinds ELSE Granted(d, q)
  BY GrantedThen DEF SetsRights
<1> QED BY <1>1 DEF Grants

LEMMA KeepsWindows ==
    ASSUME EptInv, UNCHANGED stepping,
           \A d \in Cpus : \A h \in Listed(d) : rec'[h] = rec[h]
    PROVE  UNCHANGED Windows
<1>1. \A d \in Cpus : stepping[d] # Nil => stepping[d] \in Listed(d)
  BY DEF EptInv, HookInv, NoDanglingStep
<1> QED BY <1>1 DEF Windows

GuardUnchanged == UNCHANGED <<Asks, Grants, Windows, insn>>

\* Nothing that the guest can see.
LEMMA HiddenStep ==
    ASSUME Guarded, KeepsRights, UNCHANGED <<stepping, insn>>,
           \A d \in Cpus : Listed(d)' = Listed(d) /\ \A h \in Listed(d) : rec'[h] = rec[h]
    PROVE  GuardUnchanged
  BY KeepsAsks, KeepsGrants, KeepsWindows DEF Guarded, GuardUnchanged

\* A window is open exactly when a step is pending.
LEMMA WindowNow ==
    ASSUME EptInv, NEW c \in Cpus
    PROVE  /\ trap[c] <=> Windows[c] # Nil
           /\ trap[c] => /\ stepping[c] \in Listed(c)
                         /\ Windows[c] = rec[stepping[c]].page
                         /\ Windows[c] \in Pages
<1>1. /\ trap[c] <=> stepping[c] # Nil
      /\ stepping[c] # Nil => stepping[c] \in Listed(c)
  BY DEF EptInv, HookInv, NoDanglingStep
<1>2. stepping[c] # Nil => rec[stepping[c]].page \in Pages
  BY <1>1, ListedEntry DEF EptInv
<1> QED BY <1>1, <1>2, EptAssumption DEF Windows

GuardStep == \E c \in Cpus : Guard!Step(c)

\* Instructions come and go.
LEMMA GuestGuarded ==
    ASSUME Guarded, NEW c \in Cpus, GuestStep(c) \/ BlockAccess(c)
    PROVE  GuardStep \/ GuardUnchanged
<1> USE DEF tableVars, hookVars
<1>1. /\ UNCHANGED <<pml2, pml1, hooked, rec, stepping, trap>>
      /\ KeepsRights
      /\ \A d \in Cpus : Listed(d)' = Listed(d) /\ \A h \in Listed(d) : rec'[h] = rec[h]
  <2>1. UNCHANGED <<pml2, pml1, hooked, rec, stepping, trap>>
    BY DEF GuestStep, GuestFetch, TlbFill, Retire, EmulateInstruction, Interrupt,
           BlockAccess, guestVars
  <2> QED BY <2>1 DEF KeepsRights, Translate, Listed
<1>2. UNCHANGED <<Asks, Grants, Windows>>
  BY <1>1, KeepsAsks, KeepsGrants, KeepsWindows DEF Guarded
<1>3. CASE GuestFetch(c)
  <2>1. Windows[c] = Nil /\ insn[c] = Nil
    BY <1>3, WindowNow DEF GuestFetch, AtBoundary, Guarded
  <2>2. Guard!Fetch(c)
    BY <1>2, <1>3, <2>1 DEF GuestFetch, Guard!Fetch, Guard!Quiet
  <2> QED BY <2>2 DEF GuardStep, Guard!Step
<1>4. CASE TlbFill(c)
  BY <1>2, <1>4 DEF TlbFill, guestVars, GuardUnchanged
<1>5. CASE Retire(c) \/ Interrupt(c) \/ BlockAccess(c)
  <2>1. Guard!Leave(c)
    <3>1. insn[c] # Nil /\ insn' = [insn EXCEPT ![c] = Nil]
      BY <1>5 DEF Retire, CanRetire, Interrupt, BlockAccess, Violation
    <3> QED BY <1>2, <3>1 DEF Guard!Leave
  <2> QED BY <2>1 DEF GuardStep, Guard!Step
<1>6. CASE EmulateInstruction(c)
  <2>1. /\ trap[c] /\ insn[c] # Nil /\ insn[c].kernel
        /\ \A a \in insn[c].acc : Permits(c, a)
        /\ \E i \in Instructions : i.kernel /\ insn' = [insn EXCEPT ![c] = i]
    BY <1>6 DEF EmulateInstruction, CanRetire
  <2>2. Windows[c] # Nil
    BY <2>1, WindowNow DEF Guarded
  <2>3. ASSUME NEW a \in insn[c].acc
        PROVE  a[2] \in Grants[c][a[1]]
    <3>1. a \in Pages \X Kinds
      BY <2>1, EptAssumption DEF Guarded, EptInv, TypeOK
    <3>2. a[1] \in Pages /\ a[2] \in Kinds /\ a = <<a[1], a[2]>>
      BY <3>1
    <3>3. a[2] \in Granted(c, a[1])
      BY <2>1, <3>2 DEF Granted
    <3> QED BY <3>2, <3>3 DEF Grants
  <2>4. Guard!Emulate(c)
    BY <1>2, <2>1, <2>2, <2>3 DEF Guard!Emulate
  <2> QED BY <2>4 DEF GuardStep, Guard!Step
<1> QED BY <1>3, <1>4, <1>5, <1>6 DEF GuestStep

\* The page of a listed record is one that accesses reach.
LEMMA RecordIsMapped ==
    ASSUME EptInv, NEW c \in Cpus, NEW h \in Listed(c)
    PROVE  /\ rec[h].page \in {p \in Pages : p[1] \notin HighRegions}
           /\ rec[h].changed \in SUBSET Kinds
  BY ListedEntry DEF EptInv

\* A refused instruction of the image opens the page.
LEMMA AllowGuarded ==
    ASSUME Guarded, NEW c \in Cpus, AllowAccess(c)
    PROVE  GuardStep
<1>0. /\ TypeOK /\ HookInv /\ TableInv /\ AccessInv /\ LiveTables /\ EntryInv /\ LiveRecords
  BY DEF Guarded, EptInv, TableInv, AccessInv, HookInv
<1>1. PICK a \in Pages \X Kinds, i \in 1 .. Len(hooked[c]) :
         /\ Violation(c, a, i)
         /\ insn[c].kernel
         /\ SetPML1AndInvalidateTLB(c, hooked[c][i], rec[hooked[c][i]].original)
         /\ stepping' = [stepping EXCEPT ![c] = hooked[c][i]]
  BY DEF AllowAccess, IsAccessFromKernelImage
<1> DEFINE h == hooked[c][i]
           p == rec[h].page
<1>2. UNCHANGED <<pml2, hooked, rec, insn>>
  BY DEF AllowAccess, hookVars
<1>3. h \in Listed(c)
  BY <1>0, ListedRecord
<1>4. /\ insn[c] # Nil /\ a \in insn[c].acc /\ ~Permits(c, a) /\ a[1] = p
  BY <1>1 DEF Violation, IsFirstIn, HooksOn
<1>5. p \in {q \in Pages : q[1] \notin HighRegions}
  BY <1>3, RecordIsMapped DEF Guarded
<1>6. rec[h].original = Kinds
  BY <1>0, <1>3 DEF EntryInv, Guarded
<1> HIDE DEF h, p
<1>7. SetPML1AndInvalidateTLB(c, h, Kinds) /\ stepping' = [stepping EXCEPT ![c] = h]
  BY <1>1, <1>6 DEF h
<1>8. SetsRights(c, p, Kinds)
  BY <1>0, <1>2, <1>3, <1>7, SetEntryEffect DEF p, Guarded
<1>9. Grants' = [Grants EXCEPT ![c][p] = Kinds]
  BY <1>5, <1>8, SetsGrants
<1>10. UNCHANGED Asks
  BY <1>2, KeepsAsks DEF Listed
<1>11. Windows' = [Windows EXCEPT ![c] = p]
  <2>1. /\ stepping'[c] = h /\ h # Nil
        /\ \A d \in Cpus \ {c} : stepping'[d] = stepping[d]
    BY <1>0, <1>3, <1>7, ListedEntry, EptAssumption DEF TypeOK
  <2> QED BY <1>2, <2>1 DEF Windows, p
<1>12. a[2] \notin Grants[c][p]
  <2>1. a = <<p, a[2]>>
    BY <1>1, <1>4
  <2>2. a[2] \notin Granted(c, p)
    BY <1>4, <2>1 DEF Granted
  <2> QED BY <1>5, <2>2 DEF Grants
<1>13. Guard!Open(c, p)
  BY <1>1, <1>2, <1>4, <1>5, <1>9, <1>10, <1>11, <1>12 DEF Guard!Open, Guard!Grant
<1> QED BY <1>5, <1>13 DEF GuardStep, Guard!Step

\* The exit after it closes the page again.
LEMMA TrapGuarded ==
    ASSUME Guarded, NEW c \in Cpus, HandleMonitorTrapFlag(c)
    PROVE  GuardStep
<1>0. /\ TypeOK /\ HookInv /\ TableInv /\ LiveTables
  BY DEF Guarded, EptInv, TableInv
<1> DEFINE h == stepping[c]
<1>1. /\ trap[c] /\ insn[c] = Nil
      /\ UNCHANGED <<pml2, hooked, rec, insn>>
      /\ h # Nil => SetPML1AndInvalidateTLB(c, h, rec[h].changed)
      /\ stepping' = [stepping EXCEPT ![c] = Nil]
  BY DEF HandleMonitorTrapFlag, hookVars
<1>2. h \in Listed(c) /\ h # Nil /\ Windows[c] = rec[h].page /\ Windows[c] # Nil
  BY <1>1, WindowNow DEF Guarded, EptInv, HookInv, NoDanglingStep
<1> DEFINE p == rec[h].page
<1>3. p \in {q \in Pages : q[1] \notin HighRegions} /\ rec[h].changed \in SUBSET Kinds
  BY <1>2, RecordIsMapped DEF Guarded
<1>4. Asked(c, p) = rec[h].changed
  BY <1>0, <1>2, AskedOfRecord DEF Guarded
<1> HIDE DEF h, p
<1>5. SetsRights(c, p, Asked(c, p))
  BY <1>0, <1>1, <1>2, <1>4, SetEntryEffect DEF p, Guarded
<1>6. Grants' = [Grants EXCEPT ![c][p] = Asks[c][p]]
  <2>1. Asks[c][p] = Asked(c, p)
    BY <1>3 DEF Asks
  <2> QED BY <1>3, <1>5, <2>1, SetsGrants
<1>7. UNCHANGED Asks
  BY <1>1, KeepsAsks DEF Listed
<1>8. Windows' = [Windows EXCEPT ![c] = Nil]
  BY <1>0, <1>1 DEF Windows, TypeOK
<1>9. Windows[c] = p
  BY <1>2 DEF p
<1>10. Guard!Close(c)
  BY <1>1, <1>2, <1>6, <1>7, <1>8, <1>9 DEF Guard!Close, Guard!Grant
<1> QED BY <1>10 DEF GuardStep, Guard!Step

\* A new record protects its page.
LEMMA InstallGuarded ==
    ASSUME Guarded, NEW c \in Cpus, InstallHook(c)
    PROVE  GuardStep
<1>0. TypeOK /\ HookInv /\ TableInv /\ AccessInv
  BY DEF Guarded, EptInv
<1>1. PICK h \in HookBlocks :
         /\ SetsRights(c, rec'[h].page, rec'[h].changed)
         /\ Listed(c)' = Listed(c) \cup {h}
         /\ \A d \in Cpus \ {c} : Listed(d)' = Listed(d)
         /\ \A d \in Cpus : h \notin Listed(d)
         /\ \A d \in Cpus : \A g \in Listed(d) : rec'[g] = rec[g]
         /\ rec'[h].page \in Pages
         /\ rec'[h].changed \in SUBSET Kinds
         /\ \A g \in Listed(c) : rec[g].page # rec'[h].page
  BY <1>0, InstallEffect DEF Guarded
<1>a. PICK p \in Pages, kinds \in SUBSET Kinds : p = rec'[h].page /\ kinds = rec'[h].changed
  BY <1>1
<1>2. /\ p[1] \notin HighRegions
      /\ Asked(c, p)' = kinds
  <2>1. h \in Listed(c)' /\ rec'[h] # Nil /\ p[1] \notin HighRegions
    <3>1. h \in Listed(c)'
      BY <1>1
    <3>2. PICK i \in DOMAIN hooked'[c] : h = hooked'[c][i]
      BY <3>1 DEF Listed, ToSet
    <3> QED BY <1>a, <3>1, <3>2 DEF Guarded, EptInv, HookInv, LiveRecords, RecordInv
  <2>2. \A g \in Listed(c)' \cap HooksOn(p)' : g = h
    BY <1>1, <1>a DEF HooksOn
  <2>3. h \in HooksOn(p)'
    BY <1>1, <1>a, <2>1 DEF HooksOn
  <2>4. Asked(c, p)' = {k \in Kinds : k \in kinds}
    BY <1>a, <2>1, <2>2, <2>3 DEF Asked
  <2> QED BY <2>1, <2>4
<1>3. /\ insn[c] = Nil /\ ~trap[c] /\ UNCHANGED <<stepping, insn>>
  BY DEF InstallHook, guestVars, Guarded, EptInv, HookInv, RootQuiet, InGuest
<1>4. Windows[c] = Nil
  BY <1>3, WindowNow DEF Guarded
<1>5. Asks[c][p] = Kinds
  <2>1. Asked(c, p) = Kinds
    BY <1>1, <1>a, <1>2, AskedOfOther
  <2> QED BY <2>1 DEF Asks
<1>6. UNCHANGED Windows
  BY <1>1, <1>3, KeepsWindows DEF Guarded
<1>7. Asks' = [Asks EXCEPT ![c][p] = kinds]
  <2>1. /\ \A d \in Cpus : \A g \in Listed(d) \cap Listed(d)' : rec'[g] = rec[g]
        /\ \A d \in Cpus \ {c} : Listed(d)' = Listed(d)
        /\ \A g \in Listed(c) \ Listed(c)' : rec[g].page = p
        /\ \A g \in Listed(c)' \ Listed(c) : rec'[g].page = p
    BY <1>1, <1>a
  <2> QED BY <1>2, <2>1, SetsAsks
<1>8. Grants' = [Grants EXCEPT ![c][p] = kinds]
  <2>1. SetsRights(c, p, kinds)
    BY <1>1, <1>a
  <2> QED BY <2>1, SetsGrants
<1>9. p \in {q \in Pages : q[1] \notin HighRegions} /\ kinds \in SUBSET Kinds
  BY <1>2
<1>10. Guard!Protect(c, p, kinds)
  BY <1>3, <1>4, <1>5, <1>6, <1>7, <1>8
     DEF Guard!Protect, Guard!Quiet, Guard!Ask, Guard!Grant
<1> QED BY <1>9, <1>10 DEF GuardStep, Guard!Step

\* A record that leaves the list gives its page back.
LEMMA RemoveGuarded ==
    ASSUME Guarded, NEW c \in Cpus, NEW i \in 1 .. Len(hooked[c]), RemoveHook(c, i),
           insn[c] = Nil, ~trap[c], UNCHANGED <<pml2, rec, guestVars>>
    PROVE  GuardStep
<1>0. /\ TypeOK /\ HookInv /\ TableInv /\ AccessInv /\ LiveTables /\ EntryInv /\ LiveRecords
      /\ RecordInv
  BY DEF Guarded, EptInv, TableInv, AccessInv, HookInv
<1>a. PICK h : h = hooked[c][i]
  OBVIOUS
<1>b. PICK p : p = rec[h].page
  OBVIOUS
<1>1. /\ h \in Listed(c)
      /\ Listed(c)' = Listed(c) \ {h}
      /\ \A d \in Cpus \ {c} : Listed(d)' = Listed(d)
      /\ UNCHANGED <<stepping, insn>>
  <2>1. h \in Listed(c)
    BY <1>0, <1>a, ListedRecord
  <2>2. Listed(c)' = Listed(c) \ {h} /\ \A d \in Cpus \ {c} : Listed(d)' = Listed(d)
    BY <1>0, <1>a, ListRemove
  <2> QED BY <2>1, <2>2 DEF guestVars
<1>2. SetPML1AndInvalidateTLB(c, h, rec[h].original)
  BY <1>a DEF RemoveHook
<1>3. p \in {q \in Pages : q[1] \notin HighRegions}
  BY <1>1, <1>b, RecordIsMapped DEF Guarded
<1>4. rec[h].original = Kinds
  BY <1>0, <1>1 DEF EntryInv, Guarded
<1>5. SetsRights(c, p, Kinds)
  BY <1>0, <1>1, <1>2, <1>4, <1>b, SetEntryEffect DEF Guarded
<1>6. Grants' = [Grants EXCEPT ![c][p] = Kinds]
  BY <1>3, <1>5, SetsGrants
<1>7. Asked(c, p)' = Kinds
  <2>1. \A g \in Listed(c) : g # h => rec[g].page # p
    BY <1>0, <1>1, <1>b, OneRecord DEF Guarded
  <2>2. (Listed(c) \cap HooksOn(p))' = {}
    BY <1>1, <2>1 DEF HooksOn
  <2> QED BY <1>3, <2>2 DEF Asked
<1>8. Asks' = [Asks EXCEPT ![c][p] = Kinds]
  <2>1. /\ \A d \in Cpus : \A g \in Listed(d) \cap Listed(d)' : rec'[g] = rec[g]
        /\ \A g \in Listed(c) \ Listed(c)' : rec[g].page = p
        /\ \A g \in Listed(c)' \ Listed(c) : rec'[g].page = p
    BY <1>1, <1>b
  <2> QED BY <1>1, <1>3, <1>7, <2>1, SetsAsks
<1>9. UNCHANGED Windows /\ Windows[c] = Nil
  BY <1>1, KeepsWindows, WindowNow DEF Guarded
<1>10. Guard!Unprotect(c, p)
  BY <1>1, <1>6, <1>8, <1>9 DEF Guard!Unprotect, Guard!Quiet, Guard!Ask, Guard!Grant
<1> QED BY <1>3, <1>10 DEF GuardStep, Guard!Step

\* Vmcalls.
LEMMA VmcallStartGuarded ==
    ASSUME Guarded, NEW c \in Cpus, VmcallStart(c)
    PROVE  GuardStep \/ GuardUnchanged
<1> USE DEF tableVars, hookVars, guestVars
<1>1. CASE /\ UNCHANGED <<pml2, pml1, hooked, rec, stepping, insn>>
  <2>1. KeepsRights /\ \A d \in Cpus : Listed(d)' = Listed(d)
    BY <1>1 DEF KeepsRights, Translate, Listed
  <2> QED BY <1>1, <2>1, HiddenStep
<1>2. ASSUME NEW va \in Vas, PageUnhook(c, va)
      PROVE  GuardStep \/ GuardUnchanged
  <2>1. /\ insn[c] = Nil /\ ~trap[c] /\ UNCHANGED <<pml2, rec, guestVars>>
    BY <1>2 DEF PageUnhook, AtBoundary
  <2>2. CASE \E i \in 1 .. Len(hooked[c]) : RemoveHook(c, i)
    BY <2>1, <2>2, RemoveGuarded
  <2>3. CASE UNCHANGED <<pml1, hooked>>
    BY <1>1, <2>1, <2>3
  <2> QED BY <1>2, <2>2, <2>3 DEF PageUnhook
<1> QED BY <1>1, <1>2 DEF VmcallStart, HookStart, UnhookAllStart

LEMMA VmcallStepGuarded ==
    ASSUME Guarded, NEW c \in Cpus, VmcallStep(c)
    PROVE  GuardStep \/ GuardUnchanged
<1> USE DEF tableVars, hookVars, guestVars
<1>0. TypeOK /\ HookInv /\ TableInv
  BY DEF Guarded, EptInv
<1>1. CASE UNCHANGED <<pml2, pml1, hooked, rec, stepping, insn>>
  <2>1. KeepsRights /\ \A d \in Cpus : Listed(d)' = Listed(d)
    BY <1>1 DEF KeepsRights, Translate, Listed
  <2> QED BY <1>1, <2>1, HiddenStep
<1>2. CASE SplitLargePage(c)
  <2>1. KeepsRights
    BY <1>0, <1>2, SplitEffect DEF Guarded
  <2>2. UNCHANGED <<hooked, rec, stepping, insn>>
    BY <1>2 DEF SplitLargePage
  <2>3. \A d \in Cpus : Listed(d)' = Listed(d)
    BY <2>2 DEF Listed
  <2> QED BY <2>1, <2>2, <2>3, HiddenStep
<1>3. CASE RecordDenied(c)
  BY <1>3 DEF RecordDenied, Guarded
<1>4. CASE UnhookAllPages(c)
  <2>1. /\ insn[c] = Nil /\ ~trap[c] /\ UNCHANGED <<pml2, rec, guestVars>>
    BY <1>0, <1>4 DEF UnhookAllPages, HookInv, RootQuiet, InGuest
  <2>2. CASE hooked[c] # <<>> /\ RemoveHook(c, 1)
    <3>1. 1 \in 1 .. Len(hooked[c])
      BY <1>0, <2>2 DEF TypeOK
    <3> QED BY <2>1, <2>2, <3>1, RemoveGuarded
  <2>3. CASE UNCHANGED <<pml1, hooked>>
    BY <1>1, <2>1, <2>3
  <2> QED BY <1>4, <2>2, <2>3 DEF UnhookAllPages
<1> QED BY <1>1, <1>2, <1>3, <1>4, InstallGuarded
        DEF VmcallStep, SearchFails, AskForBlock, AllocateBuffer, BufferDenied, VmcallReturn

\* The pool's threads, which zero blocks, are not seen.
LEMMA PoolGuarded ==
    ASSUME Guarded, PoolStep
    PROVE  GuardUnchanged
<1> USE DEF tableVars, hookVars, guestVars
<1>0. TypeOK /\ HookInv /\ TableInv /\ LiveRecords
  BY DEF Guarded, EptInv, HookInv
<1>1. ASSUME NEW t \in Types, GrowPool(t)
      PROVE  GuardUnchanged
  <2>1. UNCHANGED <<pml2, pml1, hooked, rec, stepping, insn>>
    BY <1>1 DEF GrowPool
  <2>2. KeepsRights /\ \A d \in Cpus : Listed(d)' = Listed(d)
    BY <2>1 DEF KeepsRights, Translate, Listed
  <2> QED BY <2>1, <2>2, HiddenStep
<1>2. ASSUME NEW b \in Blocks, ReclaimBlock(b)
      PROVE  GuardUnchanged
  <2>1. KeepsRights
    BY <1>0, <1>2, ReclaimEffect DEF Guarded
  <2>2. /\ queued[b] > 0 /\ UNCHANGED <<hooked, stepping, insn>>
        /\ rec' = [h \in HookBlocks |-> IF h = b THEN Nil ELSE rec[h]]
    BY <1>2 DEF ReclaimBlock, Reclaim
  <2>3. \A d \in Cpus : \A h \in Listed(d) : h # b /\ h \in HookBlocks
    <3>1. \A d \in Cpus : \A k \in DOMAIN hooked[d] : queued[hooked[d][k]] = 0
      BY <1>0 DEF LiveRecords
    <3>2. \A d \in Cpus : \A h \in Listed(d) : h \in HookBlocks
      BY <1>0, ListedEntry
    <3> QED BY <2>2, <3>1, <3>2 DEF Listed, ToSet
  <2>4. \A d \in Cpus : Listed(d)' = Listed(d) /\ \A h \in Listed(d) : rec'[h] = rec[h]
    BY <2>2, <2>3 DEF Listed
  <2> QED BY <2>1, <2>2, <2>4, HiddenStep
<1> QED BY <1>1, <1>2 DEF PoolStep

\* Every step is one of PageGuard's, or not seen.
LEMMA StepGuarded ==
    EptInv /\ EptInv' /\ [Next]_vars => [Guard!Next]_(Guard!vars)
<1> SUFFICES ASSUME EptInv, EptInv', [Next]_vars
             PROVE  Guard!Next \/ UNCHANGED Guard!vars
  OBVIOUS
<1>1. CASE denied' \/ ~NoAlias
  <2>1. (denied \/ ~NoAlias)'
    BY <1>1 DEF NoAlias
  <2> QED BY <2>1 DEF Guard!Next, Guard!Break
<1>2. CASE ~denied' /\ NoAlias
  <2>1. Guarded /\ NoAlias'
    BY <1>2, DeniedStays DEF Guarded, NoAlias
  <2>2. ~(denied \/ ~NoAlias) /\ UNCHANGED (denied \/ ~NoAlias)
    BY <2>1 DEF Guarded
  <2>3. GuardStep \/ GuardUnchanged
    <3>1. CASE UNCHANGED vars
      <4>1. UNCHANGED <<pml2, pml1, hooked, rec, stepping, insn>>
        BY <3>1 DEF vars, tableVars, hookVars, guestVars
      <4>2. KeepsRights /\ \A d \in Cpus : Listed(d)' = Listed(d)
        BY <4>1 DEF KeepsRights, Translate, Listed
      <4> QED BY <2>1, <4>1, <4>2, HiddenStep
    <3> QED BY <2>1, <3>1, GuestGuarded, AllowGuarded, TrapGuarded, VmcallStartGuarded,
               VmcallStepGuarded, PoolGuarded DEF Next, ExitStep
  <2>4. CASE GuardStep
    BY <2>2, <2>4 DEF GuardStep, Guard!Next
  <2>5. CASE GuardUnchanged
    BY <2>2, <2>5 DEF GuardUnchanged, Guard!vars
  <2> QED BY <2>3, <2>4, <2>5
<1> QED BY <1>1, <1>2

LEMMA InitGuarded == Init => Guard!Init
<1> SUFFICES ASSUME Init PROVE Guard!Init
  OBVIOUS
<1>1. \A c \in Cpus : Listed(c) = {} /\ tlb[c] = {} /\ stepping[c] = Nil
  BY DEF Init, Listed, ToSet
<1>2. \A c \in Cpus, p \in Pages :
         Asked(c, p) = IF p[1] \notin HighRegions THEN Kinds ELSE {}
  BY <1>1 DEF Asked
<1>3. \A c \in Cpus, p \in Pages :
         Granted(c, p) = IF p[1] \notin HighRegions THEN Kinds ELSE {}
  <2>1. \A c \in Cpus, p \in Pages :
           Translate(c, p) = IF p[1] \notin HighRegions THEN Kinds ELSE {}
    BY DEF Init, Translate, Pages
  <2> QED BY <1>1, <2>1 DEF Granted, Permits
<1>4. Asks = [c \in Cpus |->
                [p \in Pages |-> IF p \in {q \in Pages : q[1] \notin HighRegions}
                                 THEN Kinds ELSE {}]]
  BY <1>2 DEF Asks
<1>5. Grants = Asks
  BY <1>2, <1>3 DEF Asks, Grants
<1>6. Windows = [c \in Cpus |-> Nil] /\ insn = [c \in Cpus |-> Nil]
  BY <1>1 DEF Windows, Init
<1>7. (denied \/ ~NoAlias) \in BOOLEAN
  OBVIOUS
<1> QED BY <1>4, <1>5, <1>6, <1>7 DEF Guard!Init

\* For the guest, hooks change the rights of a page at once and for its processor
\* only, and a page opens and closes around one instruction of the kernel image;
\* tables, lists, the pool and the TLB are not seen (Ept.cpp:433-710, 884-982).
THEOREM HooksGuardPages == Spec => ImplementsGuard
<1>1. EptInv /\ [Next]_vars => EptInv'
  BY TypeStep, HookStep, TableStep, AccessStep DEF EptInv
<1> QED BY <1>1, InitGuarded, StepGuarded, EptCorrect, PTL DEF Spec, ImplementsGuard, Guard!Spec
=============================================================================
