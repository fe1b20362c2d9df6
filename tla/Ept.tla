--------------------------------- MODULE Ept ---------------------------------
(***************************************************************************)
(* The EPT page hooks of NovaHypervisor (Ept.cpp), on every processor.     *)
(*                                                                         *)
(* Each processor has an Ept instance of its own: an identity map of guest *)
(* physical memory in 2MB pages, some of them split into a table of 4KB    *)
(* entries, and a list of records, one per protected ("hooked") page.      *)
(* Protecting a page splits its 2MB page and restricts its entry.  A       *)
(* restricted access by the kernel image opens the entry for one           *)
(* instruction, with the monitor trap flag set so that the next exit       *)
(* closes it; any other access gets a page fault.                          *)
(*                                                                         *)
(* Tables and records are blocks of the pool that all processors share.    *)
(* A processor in VMX root mode executes no guest instruction.             *)
(*                                                                         *)
(* Operators named Bad... are mutants: each is the definition that follows *)
(* it with one plausible bug, used nowhere here and substituted only to    *)
(* see that the properties notice.                                         *)
(***************************************************************************)
EXTENDS BlockAllocator, Integers, SequencesExt

CONSTANTS
    Cpus,           \* processors
    Regions,        \* 2MB regions of guest physical memory
    Offsets,        \* 4KB pages inside a region
    HighRegions,    \* regions at or above 512GB: a PML4 index above 0
    Vas,            \* page-aligned guest virtual addresses
    PhysOf,         \* virtual address -> its page, or Nil when unmapped
    Permissions,    \* the permission sets a caller may ask for
    Instructions,   \* the guest instructions that touch these pages
    Nil             \* NULL

Kinds == {"read", "write", "execute"}
Pages == Regions \X Offsets

\* EPT_HOOKED_PAGE_DETAIL: the entry a record protects and its two values.
Records == [va : Vas, page : Pages, table : SplitBlocks,
            original : SUBSET Kinds, changed : SUBSET Kinds]

ASSUME EptAssumption ==
    /\ HighRegions \subseteq Regions
    /\ PhysOf \in [Vas -> Pages \cup {Nil}]
    /\ Permissions \subseteq SUBSET Kinds
    /\ Instructions \subseteq [kernel : BOOLEAN, acc : SUBSET (Pages \X Kinds)]
    /\ Nil \notin SplitBlocks
    /\ Nil \notin Instructions
    /\ Nil \notin Pages
    /\ Nil \notin Records
    /\ Nil \notin HookBlocks

VARIABLES
    pml2,      \* cpu -> region -> Nil (a large page) or its table of 4KB entries
    pml1,      \* table -> offset -> the accesses its entry permits
    tlb,       \* cpu -> accesses cached as permitted
    hooked,    \* cpu -> list of hook records, the newest first
    rec,       \* hook block -> its record, Nil when zeroed
    stepping,  \* cpu -> GuestState.HookedPage: the record to close again
    trap,      \* cpu -> the monitor trap flag
    insn,      \* cpu -> the guest instruction in flight, or Nil
    op,        \* cpu -> the vmcall it executes in root mode
    lost,      \* history: records whose closing was overwritten by another
    denied     \* history: a record could not be allocated after the split

poolVars  == <<status, requests, queued>>
tableVars == <<pml2, pml1, tlb>>
hookVars  == <<hooked, rec>>
guestVars == <<stepping, trap, insn>>
ghosts    == <<lost, denied>>
vars      == <<poolVars, tableVars, hookVars, guestVars, op, ghosts>>

OpStates == {"idle", "buffer", "split", "record", "unhookall", "done"}

\* Where a call of Allocate is: its first search, about to queue a request,
\* polling, or queued so late that it gives up.
Searches == {"first", "none", "asked", "late"}

Ops == [pc : OpStates, va : Vas \cup {Nil}, perms : SUBSET Kinds,
        buf : SplitBlocks \cup {Nil}, search : Searches, ok : BOOLEAN]

IdleOp == [pc |-> "idle", va |-> Nil, perms |-> {}, buf |-> Nil,
           search |-> "first", ok |-> FALSE]

-----------------------------------------------------------------------------
(* Page tables, records and permissions.                                   *)

\* What the EPT of processor c permits on page p.
Translate(c, p) ==
    IF p[1] \in HighRegions THEN {}
    ELSE IF pml2[c][p[1]] = Nil THEN Kinds ELSE pml1[pml2[c][p[1]]][p[2]]

\* An access <<page, kind>> succeeds from the TLB or from the tables.
Permits(c, a) == a \in tlb[c] \/ a[2] \in Translate(c, a[1])

Listed(c) == ToSet(hooked[c])
HooksOf(va) == {h \in HookBlocks : rec[h] # Nil /\ rec[h].va = va}
HooksOn(p) == {h \in HookBlocks : rec[h] # Nil /\ rec[h].page = p}

\* The search loops stop at the first element of list s that is in S.
IsFirstIn(s, i, S) ==
    /\ i \in DOMAIN s
    /\ s[i] \in S
    /\ \A j \in 1 .. (i - 1) : s[j] \notin S

BadNeverHooked(c, va) == FALSE
IsHookExists(c, va) == Listed(c) \cap HooksOf(va) # {}

\* A permission bit of the caller is stored in a field one bit wide.
BitOf == [read |-> 1, write |-> 2, execute |-> 4]
StoreBit(value) == value % 2
ChangedEntry(perms) ==
    {k \in Kinds : StoreBit(IF k \in perms THEN BitOf[k] ELSE 0) = 1}

BadNoFlush(c, h, perms) ==
    /\ pml1' = [pml1 EXCEPT ![rec[h].table][rec[h].page[2]] = perms]
    /\ UNCHANGED tlb

\* Writes the entry of record h and flushes this processor's TLB.
SetPML1AndInvalidateTLB(c, h, perms) ==
    /\ pml1' = [pml1 EXCEPT ![rec[h].table][rec[h].page[2]] = perms]
    /\ tlb' = [tlb EXCEPT ![c] = {}]

-----------------------------------------------------------------------------
(* The guest on processor c.                                               *)

InGuest(c) == op[c].pc = "idle"

\* Between two instructions, no exit pending: where a vmcall can start.
AtBoundary(c) == InGuest(c) /\ ~trap[c] /\ insn[c] = Nil

GuestFetch(c) ==
    /\ AtBoundary(c)
    /\ \E i \in Instructions : insn' = [insn EXCEPT ![c] = i]
    /\ UNCHANGED <<poolVars, tableVars, hookVars, stepping, trap, op, ghosts>>

\* The processor may cache the rights of a page the instruction touches.
TlbFill(c) ==
    /\ InGuest(c)
    /\ insn[c] # Nil
    /\ \E a \in insn[c].acc :
         tlb' = [tlb EXCEPT ![c] = @ \cup ({a[1]} \X Translate(c, a[1]))]
    /\ UNCHANGED <<poolVars, pml2, pml1, hookVars, guestVars, op, ghosts>>

CanRetire(c) ==
    /\ InGuest(c)
    /\ insn[c] # Nil
    /\ \A a \in insn[c].acc : Permits(c, a)

Retire(c) ==
    /\ CanRetire(c)
    /\ insn' = [insn EXCEPT ![c] = Nil]
    /\ UNCHANGED <<poolVars, tableVars, hookVars, stepping, trap, op, ghosts>>

\* An instruction that exits by itself (CPUID, a CR access ...) is emulated and
\* skipped: no monitor trap for it, the flag still covers the next instruction.
EmulateInstruction(c) ==
    /\ CanRetire(c)
    /\ trap[c]
    /\ insn[c].kernel
    /\ \E i \in Instructions : i.kernel /\ insn' = [insn EXCEPT ![c] = i]
    /\ UNCHANGED <<poolVars, tableVars, hookVars, stepping, trap, op, ghosts>>

\* An event is delivered instead of the instruction.
Interrupt(c) ==
    /\ InGuest(c)
    /\ insn[c] # Nil
    /\ insn' = [insn EXCEPT ![c] = Nil]
    /\ UNCHANGED <<poolVars, tableVars, hookVars, stepping, trap, op, ghosts>>

-----------------------------------------------------------------------------
(* VM exits of processor c.                                                *)

\* Record i of the list is the first on the page of an access that failed.
Violation(c, a, i) ==
    /\ InGuest(c)
    /\ insn[c] # Nil
    /\ a \in insn[c].acc
    /\ ~Permits(c, a)
    /\ IsFirstIn(hooked[c], i, HooksOn(a[1]))

BadAnyImage(c) == TRUE
IsAccessFromKernelImage(c) == insn[c].kernel

\* The kernel image may: the entry gets its original value for one instruction.
\* GuestState has room for one record to close.
AllowAccess(c) ==
    /\ \E a \in Pages \X Kinds, i \in 1 .. Len(hooked[c]) :
         /\ Violation(c, a, i)
         /\ IsAccessFromKernelImage(c)
         /\ LET h == hooked[c][i]
            IN  /\ SetPML1AndInvalidateTLB(c, h, rec[h].original)
                /\ stepping' = [stepping EXCEPT ![c] = h]
                /\ lost' = (lost \cup ({stepping[c]} \ {Nil})) \ {h}
    /\ trap' = [trap EXCEPT ![c] = TRUE]
    /\ UNCHANGED <<poolVars, pml2, hookVars, insn, op, denied>>

\* Anything else gets a page fault.
BlockAccess(c) ==
    /\ \E a \in Pages \X Kinds, i \in 1 .. Len(hooked[c]) : Violation(c, a, i)
    /\ ~IsAccessFromKernelImage(c)
    /\ insn' = [insn EXCEPT ![c] = Nil]
    /\ UNCHANGED <<poolVars, tableVars, hookVars, stepping, trap, op, ghosts>>

BadCloseToOriginal(c) ==
    /\ InGuest(c) /\ trap[c] /\ insn[c] = Nil
    /\ stepping[c] # Nil
    /\ SetPML1AndInvalidateTLB(c, stepping[c], rec[stepping[c]].original)
    /\ stepping' = [stepping EXCEPT ![c] = Nil]
    /\ trap' = [trap EXCEPT ![c] = FALSE]
    /\ UNCHANGED <<poolVars, pml2, hookVars, insn, op, ghosts>>

BadPointerKept(c) ==
    /\ InGuest(c) /\ trap[c] /\ insn[c] = Nil
    /\ stepping[c] # Nil
    /\ SetPML1AndInvalidateTLB(c, stepping[c], rec[stepping[c]].changed)
    /\ trap' = [trap EXCEPT ![c] = FALSE]
    /\ UNCHANGED <<poolVars, pml2, hookVars, stepping, insn, op, ghosts>>

BadTrapKept(c) ==
    /\ InGuest(c) /\ trap[c] /\ insn[c] = Nil
    /\ stepping[c] # Nil
    /\ SetPML1AndInvalidateTLB(c, stepping[c], rec[stepping[c]].changed)
    /\ stepping' = [stepping EXCEPT ![c] = Nil]
    /\ UNCHANGED <<poolVars, pml2, hookVars, trap, insn, op, ghosts>>

\* The exit after the instruction, or after the event that replaced it.
HandleMonitorTrapFlag(c) ==
    /\ InGuest(c)
    /\ trap[c]
    /\ insn[c] = Nil
    /\ IF stepping[c] = Nil
       THEN UNCHANGED <<pml1, tlb>>
       ELSE LET h == stepping[c]
            IN  SetPML1AndInvalidateTLB(c, h, rec[h].changed)
    /\ stepping' = [stepping EXCEPT ![c] = Nil]
    /\ trap' = [trap EXCEPT ![c] = FALSE]
    /\ UNCHANGED <<poolVars, pml2, hookVars, insn, op, ghosts>>

-----------------------------------------------------------------------------
(* The vmcalls of processor c, in root mode.                               *)

Done(c, ok) == op' = [op EXCEPT ![c] = [@ EXCEPT !.pc = "done", !.ok = ok]]

\* RootModePageHook up to the first allocation.
HookStart(c, va, perms) ==
    /\ AtBoundary(c)
    /\ LET call(pc, ok) == [IdleOp EXCEPT !.pc = pc, !.va = va,
                                          !.perms = perms, !.ok = ok]
       IN  op' = [op EXCEPT ![c] =
             IF "write" \in perms /\ "read" \notin perms THEN call("done", FALSE)
             ELSE IF IsHookExists(c, va) THEN call("done", TRUE)
             ELSE IF PhysOf[va] = Nil THEN call("done", FALSE)
             ELSE call("buffer", FALSE)]
    /\ UNCHANGED <<poolVars, tableVars, hookVars, guestVars, ghosts>>

\* The two allocations of RootModePageHook.
Wanted(c) == IF op[c].pc = "buffer" THEN "split" ELSE "hook"

\* Allocate finds no free block ...
SearchFails(c) ==
    /\ op[c].pc \in {"buffer", "record"}
    /\ op[c].search = "first"
    /\ NoneFree(Wanted(c))
    /\ op' = [op EXCEPT ![c] = [@ EXCEPT !.search = "none"]]
    /\ UNCHANGED <<poolVars, tableVars, hookVars, guestVars, ghosts>>

\* ... and queues a request, in time to poll or in its last try.
AskForBlock(c) ==
    /\ op[c].pc \in {"buffer", "record"}
    /\ op[c].search = "none"
    /\ Ask(Wanted(c))
    /\ \E s \in {"asked", "late"} :
         op' = [op EXCEPT ![c] = [@ EXCEPT !.search = s]]
    /\ UNCHANGED <<tableVars, hookVars, guestVars, ghosts>>

MayTake(c) == op[c].search \in {"first", "asked"}

\* Allocate returned nullptr: it polled too often, or could not ask in time.
AllocationFailed(c) ==
    \/ op[c].search = "asked" /\ NoneFree(Wanted(c))
    \/ op[c].search = "none" /\ MayBeFull(requests)
    \/ op[c].search = "late"

AllocateBuffer(c) ==
    /\ op[c].pc = "buffer"
    /\ MayTake(c)
    /\ \E b \in SplitBlocks :
         /\ Take(b)
         /\ op' = [op EXCEPT ![c] = [@ EXCEPT !.pc = "split", !.buf = b,
                                              !.search = "first"]]
    /\ UNCHANGED <<tableVars, hookVars, guestVars, ghosts>>

BadRetry(c) ==
    /\ op[c].pc = "buffer"
    /\ AllocationFailed(c)
    /\ op' = [op EXCEPT ![c] = [@ EXCEPT !.search = "first"]]
    /\ UNCHANGED <<poolVars, tableVars, hookVars, guestVars, ghosts>>

BufferDenied(c) ==
    /\ op[c].pc = "buffer"
    /\ AllocationFailed(c)
    /\ Done(c, FALSE)
    /\ UNCHANGED <<poolVars, tableVars, hookVars, guestVars, ghosts>>

BadAlwaysLarge(c, region) == TRUE
IsLargePage(c, region) == pml2[c][region] = Nil

\* SplitLargePage and GetPml1Entry.  The buffer becomes the table of the region,
\* or goes back to the pool when the region cannot be split or has a table.
SplitLargePage(c) ==
    /\ op[c].pc = "split"
    /\ LET buf == op[c].buf
           region == PhysOf[op[c].va][1]
           proceed == op' = [op EXCEPT ![c] = [@ EXCEPT !.pc = "record"]]
       IN  \/ /\ region \in HighRegions
              /\ Release(buf)
              /\ Done(c, FALSE)
              /\ UNCHANGED <<pml1, pml2>>
           \/ /\ region \notin HighRegions
              /\ ~IsLargePage(c, region)
              /\ Release(buf)
              /\ proceed
              /\ UNCHANGED <<pml1, pml2>>
           \/ /\ region \notin HighRegions
              /\ IsLargePage(c, region)
              /\ pml1' = [pml1 EXCEPT ![buf] = [o \in Offsets |-> Kinds]]
              /\ pml2' = [pml2 EXCEPT ![c][region] = buf]
              /\ proceed
              /\ UNCHANGED poolVars
    /\ UNCHANGED <<tlb, hookVars, guestVars, ghosts>>

\* A record is allocated, filled and listed, and the entry restricted.
InstallHook(c) ==
    /\ op[c].pc = "record"
    /\ MayTake(c)
    /\ LET page == PhysOf[op[c].va]
           table == pml2[c][page[1]]
           changed == ChangedEntry(op[c].perms)
       IN  \E h \in HookBlocks :
             /\ Take(h)
             /\ rec' = [rec EXCEPT ![h] =
                          [va |-> op[c].va, page |-> page, table |-> table,
                           original |-> pml1[table][page[2]],
                           changed |-> changed]]
             /\ hooked' = [hooked EXCEPT ![c] = Cons(h, @)]
             /\ pml1' = [pml1 EXCEPT ![table][page[2]] = changed]
    /\ tlb' = [tlb EXCEPT ![c] = {}]
    /\ Done(c, TRUE)
    /\ UNCHANGED <<pml2, guestVars, ghosts>>

\* No record: the buffer of the split goes back to the pool, whether it has
\* become the table of the region or was already returned.
RecordDenied(c) ==
    /\ op[c].pc = "record"
    /\ AllocationFailed(c)
    /\ Release(op[c].buf)
    /\ denied' = TRUE
    /\ Done(c, FALSE)
    /\ UNCHANGED <<tableVars, hookVars, guestVars, lost>>

BadEntryKept(c, i) ==
    /\ hooked' = [hooked EXCEPT ![c] = RemoveAt(@, i)]
    /\ Release(hooked[c][i])
    /\ lost' = lost \ {hooked[c][i]}
    /\ UNCHANGED <<pml1, tlb>>

BadStillListed(c, i) ==
    /\ SetPML1AndInvalidateTLB(c, hooked[c][i], rec[hooked[c][i]].original)
    /\ Release(hooked[c][i])
    /\ lost' = lost \ {hooked[c][i]}
    /\ UNCHANGED hooked

\* Entry i leaves the list and its page gets the original value back.
RemoveHook(c, i) ==
    LET h == hooked[c][i]
    IN  /\ SetPML1AndInvalidateTLB(c, h, rec[h].original)
        /\ hooked' = [hooked EXCEPT ![c] = RemoveAt(@, i)]
        /\ Release(h)
        /\ lost' = lost \ {h}

PageUnhook(c, va) ==
    /\ AtBoundary(c)
    /\ op' = [op EXCEPT ![c] = [IdleOp EXCEPT !.pc = "done", !.va = va,
                                              !.ok = IsHookExists(c, va)]]
    /\ \/ \E i \in 1 .. Len(hooked[c]) :
            IsFirstIn(hooked[c], i, HooksOf(va)) /\ RemoveHook(c, i)
       \/ /\ ~IsHookExists(c, va)
          /\ UNCHANGED <<poolVars, pml1, tlb, hooked, lost>>
    /\ UNCHANGED <<pml2, rec, guestVars, denied>>

UnhookAllStart(c) ==
    /\ AtBoundary(c)
    /\ op' = [op EXCEPT ![c] = [IdleOp EXCEPT !.pc = "unhookall"]]
    /\ UNCHANGED <<poolVars, tableVars, hookVars, guestVars, ghosts>>

\* One turn of the loop over the list, or its end.  nextEntry is read before the record
\* is freed; it is the head of what is left, for no other processor has this list.
UnhookAllPages(c) ==
    /\ op[c].pc = "unhookall"
    /\ \/ /\ hooked[c] # <<>>
          /\ RemoveHook(c, 1)
          /\ UNCHANGED op
       \/ /\ hooked[c] = <<>>
          /\ Done(c, TRUE)
          /\ UNCHANGED <<poolVars, pml1, tlb, hooked, lost>>
    /\ UNCHANGED <<pml2, rec, guestVars, denied>>

VmcallReturn(c) ==
    /\ op[c].pc = "done"
    /\ op' = [op EXCEPT ![c] = IdleOp]
    /\ UNCHANGED <<poolVars, tableVars, hookVars, guestVars, ghosts>>

-----------------------------------------------------------------------------
(* The pool's threads.                                                     *)

GrowPool(type) ==
    /\ Grow(type)
    /\ UNCHANGED <<tableVars, hookVars, guestVars, op, ghosts>>

\* A reclaimed block is zeroed: entries that permit nothing, an empty record.
ReclaimBlock(b) ==
    /\ Reclaim(b)
    /\ pml1' = [t \in SplitBlocks |-> IF t = b THEN [o \in Offsets |-> {}] ELSE pml1[t]]
    /\ rec' = [h \in HookBlocks |-> IF h = b THEN Nil ELSE rec[h]]
    /\ UNCHANGED <<pml2, tlb, hooked, guestVars, op, ghosts>>

-----------------------------------------------------------------------------

Init ==
    /\ AllocInit
    /\ pml2 = [c \in Cpus |-> [r \in Regions |-> Nil]]
    /\ pml1 = [b \in SplitBlocks |-> [o \in Offsets |-> {}]]
    /\ tlb = [c \in Cpus |-> {}]
    /\ hooked = [c \in Cpus |-> <<>>]
    /\ rec = [h \in HookBlocks |-> Nil]
    /\ stepping = [c \in Cpus |-> Nil]
    /\ trap = [c \in Cpus |-> FALSE]
    /\ insn = [c \in Cpus |-> Nil]
    /\ op = [c \in Cpus |-> IdleOp]
    /\ lost = {}
    /\ denied = FALSE

GuestStep(c) ==
    \/ GuestFetch(c)
    \/ TlbFill(c)
    \/ Retire(c)
    \/ EmulateInstruction(c)
    \/ Interrupt(c)

ExitStep(c) ==
    \/ AllowAccess(c)
    \/ BlockAccess(c)
    \/ HandleMonitorTrapFlag(c)

VmcallStart(c) ==
    \/ \E va \in Vas, perms \in Permissions : HookStart(c, va, perms)
    \/ \E va \in Vas : PageUnhook(c, va)
    \/ UnhookAllStart(c)

VmcallStep(c) ==
    \/ SearchFails(c)
    \/ AskForBlock(c)
    \/ AllocateBuffer(c)
    \/ BufferDenied(c)
    \/ SplitLargePage(c)
    \/ InstallHook(c)
    \/ RecordDenied(c)
    \/ UnhookAllPages(c)
    \/ VmcallReturn(c)

PoolStep ==
    \/ \E type \in Types : GrowPool(type)
    \/ \E b \in Blocks : ReclaimBlock(b)

Next ==
    \/ \E c \in Cpus : GuestStep(c) \/ ExitStep(c) \/ VmcallStart(c) \/ VmcallStep(c)
    \/ PoolStep

Spec == Init /\ [][Next]_vars

\* A processor in the guest gets to its next boundary, an exit is handled and a
\* vmcall runs to its end; straight-line code is not all exiting instructions, so
\* one that can retire again and again does (strong fairness).  Whether the guest
\* runs on at all, or makes a vmcall, is its own affair.
Fairness ==
    /\ \A c \in Cpus : /\ WF_vars(ExitStep(c))
                       /\ WF_vars(VmcallStep(c))
                       /\ SF_vars(Retire(c))
    /\ \A b \in Blocks : WF_vars(ReclaimBlock(b))
    /\ \A type \in Types : WF_vars(GrowPool(type))

FairSpec == Spec /\ Fairness

-----------------------------------------------------------------------------
(* Properties.                                                             *)

\* Two protected addresses never name the same page: the usual case, in which
\* the hooks of a processor are independent of each other.
NoAlias == \A v, w \in Vas : PhysOf[v] = PhysOf[w] /\ PhysOf[v] # Nil => v = w

EntryOf(h) == pml1[rec[h].table][rec[h].page[2]]

\* The shape of the state.
TypeOK ==
    /\ AllocTypeOK
    /\ pml2 \in [Cpus -> [Regions -> SplitBlocks \cup {Nil}]]
    /\ pml1 \in [SplitBlocks -> [Offsets -> SUBSET Kinds]]
    /\ tlb \in [Cpus -> SUBSET (Pages \X Kinds)]
    /\ hooked \in [Cpus -> Seq(HookBlocks)]
    /\ rec \in [HookBlocks -> Records \cup {Nil}]
    /\ stepping \in [Cpus -> HookBlocks \cup {Nil}]
    /\ trap \in [Cpus -> BOOLEAN]
    /\ insn \in [Cpus -> Instructions \cup {Nil}]
    /\ op \in [Cpus -> Ops]
    /\ lost \subseteq HookBlocks
    /\ denied \in BOOLEAN

\* GuestState.HookedPage is an unprotected pointer into the list (Ept.cpp:465,
\* VmexitHandler.cpp:199-201): while the monitor trap flag is set, and only then,
\* it names a record that is listed on this processor and not yet wiped.
NoDanglingStep ==
    \A c \in Cpus :
        /\ trap[c] <=> stepping[c] # Nil
        /\ stepping[c] # Nil => stepping[c] \in Listed(c) /\ rec[stepping[c]] # Nil

\* The page of every listed record is restricted as requested, on its processor,
\* except during the one instruction it is opened for; a page stays open only
\* when its closing was overwritten (Ept.cpp:465).
Enforced ==
    ~denied /\ NoAlias =>
        \A c \in Cpus : \A h \in Listed(c) :
            EntryOf(h) = rec[h].changed \/ h = stepping[c] \/ h \in lost

\* No access of the guest below 512GB, where the tables end, ends in "Unexpected
\* EPT violation" and the breakpoint in root mode (Ept.cpp:573-574): whatever is
\* not permitted has a record.
NoUnexpectedViolation ==
    ~denied /\ NoAlias =>
        \A c \in Cpus : InGuest(c) /\ insn[c] # Nil =>
            \A a \in insn[c].acc :
                a[1][1] \in HighRegions \/ Permits(c, a) \/ Listed(c) \cap HooksOn(a[1]) # {}

\* An instruction outside the kernel image gets no access that the record of the
\* page withholds, from the tables or from a stale TLB entry, also right after
\* the kernel image used the page (Ept.cpp:489-548).
OnlyKernelImagePasses ==
    ~denied /\ NoAlias =>
        \A c \in Cpus : InGuest(c) /\ insn[c] # Nil /\ ~insn[c].kernel =>
            \A a \in insn[c].acc : \A h \in Listed(c) \cap HooksOn(a[1]) :
                Permits(c, a) => a[2] \in rec[h].changed \/ h \in lost

\* No processor keeps a right in its TLB that its tables no longer give: every
\* write that takes one away is followed by INVEPT (Ept.cpp:859-872).
TlbCoherent ==
    ~denied => \A c \in Cpus : \A a \in tlb[c] : a[2] \in Translate(c, a[1])

\* A block that hardware walks as a page table is held by the pool for exactly
\* one region of one processor and is not waiting to be freed.
LiveTables ==
    ~denied =>
        \A c \in Cpus, r \in Regions : pml2[c][r] # Nil =>
            /\ status[pml2[c][r]] = "used"
            /\ queued[pml2[c][r]] = 0
            /\ \A d \in Cpus, q \in Regions :
                 pml2[d][q] = pml2[c][r] => d = c /\ q = r

\* A listed record is held for one place of one list, is not waiting to be freed,
\* has its own address, and points into the table the hardware uses.
LiveRecords ==
    \A c \in Cpus : \A i \in DOMAIN hooked[c] :
        LET h == hooked[c][i]
        IN  /\ status[h] = "used" /\ queued[h] = 0 /\ rec[h] # Nil
            /\ rec[h].table = pml2[c][rec[h].page[1]]
            /\ \A d \in Cpus : \A j \in DOMAIN hooked[d] :
                 hooked[d][j] = h => d = c /\ j = i
            /\ \A j \in DOMAIN hooked[c] : rec[hooked[c][j]].va = rec[h].va => j = i

\* No block is queued to be freed twice, or after it was freed: the free thread
\* would wipe it under its next owner (PoolManager.cpp:131-139).
FreedOnce ==
    \A b \in Blocks :
        (~denied \/ b \in HookBlocks) /\ queued[b] > 0 =>
            queued[b] = 1 /\ status[b] = "used"

\* What the guest can see of it: the rights asked for a page, those an access gets
\* from the TLB or the tables, and the page of the pending single step.
Asked(c, p) ==
    {k \in Kinds : p[1] \notin HighRegions
                   /\ \A h \in Listed(c) \cap HooksOn(p) : k \in rec[h].changed}
Granted(c, p) == {k \in Kinds : Permits(c, <<p, k>>)}

Asks == [c \in Cpus |-> [p \in Pages |-> Asked(c, p)]]
Grants == [c \in Cpus |-> [p \in Pages |-> Granted(c, p)]]
Windows == [c \in Cpus |-> IF stepping[c] = Nil THEN Nil ELSE rec[stepping[c]].page]

Guard == INSTANCE PageGuard
    WITH guard <- Asks, rights <- Grants, window <- Windows,
         Mapped <- {p \in Pages : p[1] \notin HighRegions},
         broken <- denied \/ ~NoAlias

\* The tables, the lists, the pool and its threads, splits and TLB fills implement
\* PageGuard: the rights of a page change at once with a hook, for a refused
\* instruction of the kernel image, or at the end of its step, and never otherwise
\* (Ept.cpp:433-475, 489-574, 629-710, 884-895, 920-982; VmexitHandler.cpp:199-214).
ImplementsGuard == Guard!Spec

\* The single step ends: the monitor trap flag never stays set.
WindowCloses == \A c \in Cpus : trap[c] ~> ~trap[c]

\* A vmcall returns to the guest, also when the pool has no block to give.  The locks
\* it takes are taken for granted: where Locks!Inverted holds it waits for ever.
VmcallReturns == \A c \in Cpus : op[c].pc # "idle" ~> op[c].pc = "idle"

-----------------------------------------------------------------------------
(* What the documentation and the assertions say, without the exceptions.  *)

\* README.md:64: "The protection that you give is the protection that the
\* address will have": once a protection call succeeded, the page has it.
GivenProtection ==
    \A c \in Cpus : op[c].pc = "done" /\ op[c].ok /\ op[c].perms # {} =>
        Translate(c, PhysOf[op[c].va]) = op[c].perms

\* README.md:60: protection keeps an address "from being accessed": outside the
\* kernel image nothing gets an access the record of its page withholds.
ProtectedFromAccess ==
    \A c \in Cpus : InGuest(c) /\ insn[c] # Nil /\ ~insn[c].kernel =>
        \A a \in insn[c].acc : \A h \in Listed(c) \cap HooksOn(a[1]) :
            Permits(c, a) => a[2] \in rec[h].changed
=============================================================================
