# A TLA+ model of NovaHypervisor

NovaHypervisor is a Windows driver that virtualizes every processor of a running
system and protects kernel pages from everything but the kernel image, with the
extended page tables (EPT) of the processor. This directory holds TLA+ modules of
it, TLC configurations that check them on small instances, and proofs for TLAPS.
File and line references are to `src/NovaHypervisor/` unless they say otherwise.

## The system

| Component | State it keeps | Operations | Made correct by |
|---|---|---|---|
| EPT page hooks (`Ept.cpp`) | per processor: page tables, the list of hook records, `GuestState.HookedPage`, the monitor trap flag | `RootModePageHook`, `PageUnhookVmcall`, `UnhookAllPagesVmcall`, the EPT violation and monitor trap exits | a protected page is closed except for one instruction of the kernel image; no stale TLB entry; no pointer to a freed record or table |
| EPT construction (`Ept.cpp` 5-393, 750-844) | MTRR ranges, identity map | `BuildMtrrMap`, `GetMemoryType`, `SetupPML2Entry` | every page gets the memory type the MTRRs give it |
| Pool manager (`PoolManager.cpp`) | two lists of blocks, `running`, two threads | `Allocate`, `Free`, `ProcessAllocation`, `ProcessFree`, constructor, destructor | one owner per block, blocks zeroed when handed out, nothing used after it is released, every call and the unload end |
| Request list (`RequestList.hpp`) | 100 slots and a counter | `Insert`, `Pop`, `GetListSize` | counter and slots agree |
| Spinlock (`Spinlock.cpp`) | one word | `Lock`, `Unlock` | mutual exclusion, no holder that is stopped by a waiter of its own processor |
| Device control (`DeviceControl.cpp`) | none of its own | the protect and unprotect IOCTLs, each broadcast to all processors | every processor has the same hooks when the call returns, and the status says so |
| VM-exit and vmcall dispatchers (`VmexitHandler.cpp`, `VmcallHandler.cpp`) | `IsOnVmxRoot`, the guest's RIP | one case per exit reason | each exit has one outcome: resume, skip, inject or shut down |
| Event injection (`EventInjection.cpp`) | the VMCS injection fields | clear, inject, re-inject | no event is lost or delivered twice |
| VMX lifecycle (`Vmx.cpp`, `VmxHelper.cpp`) | `GuestState` of each processor | `VmxInitialize`, `TerminateVmx` and their DPCs | every structure is freed once, after its processor left VMX |
| Driver load and unload (`NovaHypervisor.cpp`) | the pool, the device | `DriverEntry`, `NovaUnload` | the order of construction and destruction |
| Registers (`RegistersHandler.cpp`) | none | CR, MSR, CPUID, XSETBV emulation | values the hardware accepts |
| Logger (`ComLogger.cpp`) | a buffer and a lock | `Append` | bounded time in root mode |
| Client (`src/NovaClient`) | none | parse and send one IOCTL | the permissions the user typed |

How they interact. A client's IOCTL reaches `NovaDeviceControl`, which makes every
processor execute a vmcall (`KeIpiGenericCall`). The vmcall is an exit to VMX root
mode, where the processor's own `Ept` instance changes its own tables and list, and
takes its table and its record from the pool that all processors share. The guest then
runs into the restricted entry: an EPT violation, again handled in root mode. Root mode
may not call the kernel's allocator, so `Allocate` and `Free` only search lists, queue
requests and poll; two kernel threads, which are part of the guest, do the rest.

What is hard about it:

- *concurrency*: processors are in root mode in parallel and share the pool with each
  other and with two threads;
- *a window of one instruction*: between the violation and the monitor trap exit a
  page is open and a global pointer names the record that will close it; interrupts,
  further violations and other vmcalls may come in between;
- *failure*: allocation may fail between the two steps of a hook; a list may be full;
  a thread may not start, or may have stopped;
- *cached state*: the TLB, the pointers from records into tables, the "original"
  entry that a record remembers;
- *time*: bounded polling against threads that sleep, and shutdown of those threads.

`PROJECT.json` lists each of these as a hazard, at its line.

## Modules

| Module | Models | Depends on |
|---|---|---|
| `BlockAllocator` | what the pool promises: the abstract specification | |
| `PageGuard` | what hooks promise the guest: the abstract specification | |
| `Ept` | the page hooks on every processor, the guest, the TLB, violations, traps and vmcalls | takes its blocks from `BlockAllocator`; implements `PageGuard` |
| `RequestList` | the slots and their counter, as operators | |
| `PoolManager` | the pool with its threads, callers, load and unload | `RequestList`; implements `BlockAllocator` |
| `Mutex` | what a lock promises: the abstract specification | |
| `Locks` | `Spinlock` and the log lock, under exits and broadcasts | implements `Mutex`, twice |
| `Lifecycle` | `DriverEntry`, `NovaUnload`, the DPCs that enter and leave VMX operation | |
| `VmExits` | the exits of one processor, event injection, control registers, MSRs, XSETBV | |
| `DeviceControl` | the client, both IOCTLs, the broadcast and the part of each processor | |
| `MemoryTypes` | the constructor of `Ept`: MTRRs, memory types, the identity map | |
| `MC...` | instances of the module for TLC | the module |
| `EptProofs`, `PoolManagerProofs`, `LocksProofs`, `LifecycleProofs`, `VmExitsProofs`, `DeviceControlProofs`, `MemoryTypesProofs` | theorems | the module, TLAPS |
| `EptTableProofs` | theorems about tables and entries of `Ept` | `EptProofs` |

How they fit together. `Ept` extends `BlockAllocator`: `Take`, `Ask`, `Grow`, `Release` and
`Reclaim` are conjuncts of its actions, and `PoolManager` is proved to implement
`BlockAllocator`, so what `Ept` assumes of the pool is what the pool does, races between
search, request and poll included. `PoolManager` takes a critical section as one step;
`Locks` is where that comes from, and where it ends (a section that a broadcast stops).
The other modules cut along what a component needs of its neighbour and keep a shadow of
it: `VmExits` keeps of the hooks whether the page just touched is open, `DeviceControl`
keeps of them the frame and permissions of each record, `Lifecycle` keeps of the pool
whether it lives and of each `Ept` whether it has records in the pool.

### Ept

One variable per piece of state of the code, indexed by processor:

| Variable | Code |
|---|---|
| `pml2` | the PML2 entries: a large page (`Nil`) or a pointer to a split table |
| `pml1` | the 4KB entries of a table (a pool block): the rights they give |
| `tlb` | rights the processor may have cached |
| `hooked`, `rec` | the list of `EPT_HOOKED_PAGE_DETAIL` and their contents |
| `stepping` | `GuestState[cpu].HookedPage` |
| `trap` | the monitor trap flag in the processor-based controls |
| `insn` | the guest instruction in flight: from the kernel image or not, and the accesses it needs |
| `op` | the vmcall in progress, up to which allocation it got |
| `lost`, `denied` | history, used by properties only |

An exit runs with the guest stopped and touches only this processor's tables and list,
so an exit handler is one step. A vmcall that allocates is several: `HookStart` up to
the first allocation, `AllocateBuffer`, `SplitLargePage`, `InstallHook`, with
`SearchFails`, `AskForBlock`, `BufferDenied` and `RecordDenied` on the way, since other
processors and the pool's threads act between them. `hookedPagesLock` is taken only by
the processor that owns the instance, so it adds nothing to this.

An instruction in flight needs all its accesses at once: a violation for one of them
restarts it, which is how one instruction comes to open two pages. `TlbFill` may cache
the rights of a page at any time; `Interrupt` replaces the instruction, after which the
pending monitor trap exit comes first; `EmulateInstruction` is an instruction that exits
by itself and is skipped by the handler, after which the flag is still set. A vmcall
starts only at an instruction boundary without a pending trap.

Abstracted: memory types, page frame numbers, the linear address and error code of an
injected page fault, RIP (an instruction is from the kernel image or not), and which of
the three access kinds a violation reports first (every refused access of the
instruction is a possible violation). Unmapped and high addresses are those without a
page and those in `HighRegions`. Page frame 0 cannot be protected (line 653) and is not
a page here.

`PageGuard` is what remains when the machinery is taken away: on each processor the rights asked
for each page, the rights that accesses get, the one open page, and the instruction in flight.
It says that a hook takes effect at once and on one processor only, that a page opens only for an
instruction of the kernel image that was refused it, and that the open page is closed before
anything else is fetched or called. A second page opened by the same instruction leaves the
first one open (Ept.cpp:465); after `denied`, and with two addresses of one page, `broken` ends
the promise. `ImplementsGuard` maps the three values to lists and records, to the TLB and the
tables, and to `stepping`.

Not in the model because it cannot happen: `RootModePageHook` is only called in root
mode of a launched processor, so the guard of line 636 is false and line 700 takes its
first branch; after a successful split `GetPml1Entry` does not return NULL (671-675).
`PageHook`, `PageUnhook` and the two INVEPT vmcalls have no caller. The regions that
`SetupPML2Entry` splits at construction start as large pages here.

### BlockAllocator and PoolManager

A block is free or used, or absent until the allocation thread has created it. In
`PoolManager` each critical section of the code is one step: the lists of blocks, the
two request lists and `running` have a lock each and no section holds two, so the steps
between sections are where races are. A caller's loop is a program counter and the
number of tries; the allocation thread reads the size, pops, allocates and reads
`running` in four sections; the free thread does the same and drains its list after the
loop. `Load`, `Unload` and `Stop` are the constructor, the end of `TerminateVmx` and the
destructor, one step per section and per wait, and the creation of a thread may fail.

Callers free only blocks they were given; in `Ept` this is a property, `FreedOnce`.
`dirty` stands for the contents of a block, which an owner writes to from the moment it
has it.

### Locks and Mutex

A *context* is what runs in the guest of a processor (one thread stands for all) or in a
VM exit of it. An exit stops the guest of its processor until `VmResume`; a broadcast
(`KeIpiGenericCall`) gathers all guests and then has each processor execute a vmcall.
`DoLock` (line 13) is two steps, the exchange and the second read of the word (`Exchange` and
`Check`); the growing pause of `Lock` between tries is left out. The writer of the log
takes its lock with a bounded number of tries, writes three pieces and releases it, and
may do so inside or outside the spin lock. `line` is what is at the port: the last piece
and who wrote it, which is what a reader of the log sees.

`Mutex` says that whoever enters finds nobody inside. `Locks` implements it for the
holders of the spin lock and for the writers of the log.

### Lifecycle

`pc` is the thread of `DriverEntry` and `NovaUnload`; each step of it is a call with its
early return. `KeGenericCallDpc` is a routine that runs on every processor at its own
pace: `dpc[c]` is where, `KeSignalCallDpcSynchronize` lets everybody pass when all have
reached the barrier. `mem[c]` has one pointer per structure of `GuestState[c]`, null, live
or dangling, since `FreeVirtualMemory` frees and does not null its caller's copy.
`Faults` names the steps that may fail in an instance (a version check, an allocation, a
thread, VMCLEAR, VMPTRLD, VMLAUNCH...); `failed` remembers which did. `crash` is a bugcheck
or a read of memory or of a VMCS that is not there. `nested` is whether Hyper-V runs below:
`TestVmcall` is then forwarded.

The fields that `SetupVmcs` copies are not state here; what an exit depends on of them (the
controls) is in `VmExits`.

### VmExits

One processor, since exits of different processors share only what `Ept` and `Locks`
model. `mode` is where the processor is: in the guest, taking the exit, in the handler,
on its way back, leaving VMX operation, off it, or stopped by a fault in root mode. `owed`
remembers the event that the guest is owed, `effects` how often the instruction in flight
has taken effect, `host` the registers that hold a host value other than the guest's. An
exit loads every register that has a host field in the VMCS, and DR7 and DEBUGCTL. Most of
these fields `SetupVmcs` fills with what the registers hold at the launch, so the guest
loses something only if it has loaded the register since, which `changed` remembers. An
entry gives back what the exit saved, with DR7 and DEBUGCTL only under the controls for
them; VMXOFF gives back what `RestoreRegisters`, `VmxVmxoff` and the assembly restore. An
event in delivery may touch a protected page, which is an exit with `IDT_VECTORING_INFO_FIELD`
valid. Instructions are kinds: the handler's cases, with the argument that it
distinguishes (an MSR, a value of XCR0 or another XCR). `Refused` says which MSR accesses
the processor or the hypervisor below refuses, for whatever reason, and `LegalXcr0` which
values of XCR0 the processor takes; the handler knows the former not at all and the latter
in part.
`Controls` is `AdjustControls` applied to what `SetupVmcs` asks for and what a processor
forces, which decides whether HLT and MOV CR exit at all.

Not here: exception and NMI exits (the exception bitmap is 0, NMI exiting is not asked
for), EPT misconfiguration, triple faults and reasons without a case, which break into
the debugger, and a failing VMRESUME. INVEPT, INVVPID and GETSEC are of the reasons without
a case: they always exit, and the handler does not skip them.

### DeviceControl

The client checks its permissions, the driver the address; both IOCTLs are then broadcast,
one broadcast at a time. A processor does its part (`Worker`) and goes on with its guest
while others still wait, so the memory manager (`Remap`) may act in between, and every
processor translates the address by itself. `guard` keeps of the records of a processor
the frame and the permissions. A processor may be out of memory (`denied`), and an address
may get another frame while it is protected (`moved`); both are histories that the
properties name. `NovaDeviceControl` itself always returns `STATUS_SUCCESS`
(DeviceControl.cpp:79); `status` is the one in the request packet, which the client gets.

### MemoryTypes

The constructor as a sequence of steps, each with its failure: the list, the features of
the processor, `BuildMtrrMap`, the identity map, one `SetupPML2Entry` per region (which
splits a region that a range cuts), and later splits for hooks. The MTRRs are chosen once,
in `Init`: a default type, fixed ranges on or off, and any variable ranges whose size is a
power of two and whose base is aligned to it (masks with holes are not modelled).
`EffectiveType` is the rule of the processor manual, which the properties compare with.

### Mutants

Operators named `Bad...` are single-bug variants of the definition that follows them:
a dropped check, a missing flush, an off-by-one. Nothing uses them. Substituting one
shows that a property can fail; `PROJECT.json` names the pair for each property.

## Runs

| Run | Instance | What it shows |
|---|---|---|
| `EptGuest` | 1 processor, 2 pages of 1 region, 2 permission sets, 4 instructions | protection holds through single steps, TLB fills, interrupts and emulated instructions; refinement of the abstract page guard |
| `EptPool` | 2 processors, a low and a high region, 2+2 blocks of which 1+1 exist at first, lists of 1 | tables and records are never shared, freed twice or wiped in use |
| `EptLive` | 1 processor, 3 addresses (one unmapped), 1+2 blocks | single steps end, vmcalls return |
| `Pool` | 2 callers, 1+1 blocks of which 1 exists at first, lists of 1, 2 tries | one owner, zeroed blocks, sizes that hold, a quiet release; refinement of the abstract allocator; calls return, an unload ends |
| `Lifecycle` | 3 processors, any step may fail | what is in use is allocated, nothing is freed twice or left behind, load and unload end |
| `VmExits` | the instructions with a case in the handler, exits on HLT, CR3 and CR8 forced, DR7 and DEBUGCTL not switched, 3 registers that the guest loads, 7 values of XCR0, 6 MSRs with a refusal of each kind | no event lost or doubled, instructions once, which registers come back, the known faults in root mode, events end |
| `Locks` | 2 processors, 1 try for the log | mutual exclusion (as a refinement), whole lines, exits that do not wait for the log, broadcasts that end |
| `DeviceControl` | 2 clients, 2 processors, 2 frames, 1 kernel and 1 user address, 3 permission sets | processors agree between broadcasts, the status is true, requests are answered |
| `MemoryTypes` | 3 regions of 2 pages, 1 fixed page, 3 variable ranges, UC, WT and WB, default UC or WB | every page of a map that is built has its effective type; failures leave nothing |

Why these bounds. Two pages are enough for every pair of records (one list, one region,
one instruction), two processors for every pair of owners of a block, and two callers
against two threads for every pair of sections. Lists of one slot make full lists,
refused requests and dropped blocks ordinary states; the code's 100 would hide them, and
with two blocks so would lists of two. What a list of several slots does to safety is in the
theorems, which are for every length. Of the registers in `VmExits` CR4 stands for those that
VMXOFF leaves alone, GDTR for those it restores, and DR7 with DEBUGCTL is the third kind.
`MaxTries` stands for the number of polls (some 26 in the code): a caller gives up after any
bounded number. Three processors have one before, at and behind a barrier. In `MemoryTypes`
a range of one page cuts a region, one of two or four pages covers whole regions, and three
ranges overlap in every order; the first region has a fixed range, as the first 1MB. Blocks
of a type are symmetric, and processors where nothing temporal is checked.

`CHECK_DEADLOCK FALSE` stands where the system really ends: `Pool` and `Lifecycle` after an
unload, a failed load or a crash, `VmExits` after VMXOFF or a fault in root mode, `Locks` when
a vmcall waits for the thread it has stopped (below), `MemoryTypes` when the map is built.
`EptGuest`, `EptPool`, `EptLive`, `DeviceControl` and the two violation runs of `Ept` check it.

What the code's documentation says is also checked where the code does otherwise, in runs
that end in a counterexample:

| Run | Statement | What the counterexample does |
|---|---|---|
| `EptGiven` | README.md:64 | asks for "rw" and gets "r": bits 2 and 4 are stored in one-bit fields (Ept.cpp:677-679) |
| `EptLost` | README.md:60 | one instruction of the kernel image on one protected page writes to another; the first stays open |
| `LifecycleTwice` | MemoryHelper.hpp:43 | after an `Ept` could not be built, `VmxInitializer` frees `GuestState` and `TerminateVmx` frees it again |

### Exceptions

Properties that the code satisfies only with an exception name it, and so say where the
code does not do what one would expect:

| Name | Where | What it admits |
|---|---|---|
| `~denied` in `Ept` | Ept.cpp:685 | no memory for a record: the table in use is freed, and nothing about entries can be said. `NoDanglingStep` and `LiveRecords` hold without this guard |
| `NoAlias` | Ept.cpp:693 | two protected addresses of one page: the newer record takes the restricted entry for the original |
| `lost` | Ept.cpp:465 | a record whose closing was overwritten by another stays open |
| `twice` may have `state` | Vmx.cpp:156 | `GuestState` after a failed `Ept` |
| `ThreadsLeft` | NovaHypervisor.cpp:46-71 | a load that fails after the pool's first thread leaves its threads |
| `Abandoned` | Vmx.cpp:474 | a DPC that returns early leaves the others at the barrier for ever |
| `Stopped` | VmxHelper.cpp:80 | after a launch that failed, VMXOFF runs a second time, or a VMCS field is read after it |
| `RootFaultsKnown` | RegistersHandler.cpp:143-196 | an access to a synthetic MSR that is absent, read-only, write-only or does not take the value |
| `RootFaultsKnown` | VmexitHandler.cpp:57-96 | a value of XCR0 with a part of MPX, AVX-512 or AMX, with AVX-512 and without AVX, or without a component in use |
| `GuestHasItsRegisters` in the guest | Vmx.cpp:326-335 | the controls to save and load DR7 and DEBUGCTL are not asked for: on a processor that does not force them the first exit resets both, and the guest loses its breakpoints |
| `GuestHasItsRegisters` after VMXOFF | VmxHelper.cpp:439-462 | selectors (RPL cleared, LDTR null) stay as the exit loaded them, and CR0, CR4, TR, SYSENTER, PAT, EFER, DR7 and DEBUGCTL too, which loses what the guest has loaded into them since the launch |
| `Inverted` | PoolManager.cpp:171 | a vmcall spins on the lock of the thread that the broadcast stopped on its processor; nothing ends this |
| `denied`, `moved` in `DeviceControl` | Ept.cpp:646-652 | a processor without memory, a page that moved: no hook follows a page |
| `WriteBackForgotten` | Ept.cpp:173 | a write-back range is not recorded, so its pages get a default that is not write-back |
| `UncachedOverruled` | Ept.cpp:765-768 | an uncacheable range that is listed before another is overruled by it |
| the first region | Ept.cpp:321-325 | when a range cuts it, it is an uncacheable large page and not split |
| `raised` | Ept.cpp:253 | a range that cuts a region at construction ends the constructor by an exception, with its list allocated, and its table and a buffer if there was one |

Further facts that the models show in passing: the allocation thread looks at `running`
before line 34 of `PoolManager.cpp` sets it, and then exits at once (the calls still return);
a list of free requests that stays full makes `Free` drop its block (`PoolManager.cpp:276`);
and a request in a high slot may be passed over for ever (`RequestList.hpp:53`).

## Fairness

`Ept`: a pending exit is handled and a vmcall in root mode runs on (weak fairness: the
processor does nothing else meanwhile); an instruction that can retire again and again
does (strong fairness: the guest could in principle be made of emulated instructions
only, or be interrupted each time; programs are not); the pool's threads run. The guest
need not execute anything, nor make a vmcall.

`PoolManager`: both threads are scheduled, a caller in root mode keeps executing, and load
and unload run on. Nobody has to call, and nothing has to unload. Memory may never be
available: `Grow` and `AllocateInternal` may always fail.

`Lifecycle`: Windows runs the thread of the driver and every DPC, and releases a barrier
that all have reached (weak fairness of each). Nobody has to unload the driver.

`VmExits`: the processor goes on with what it has begun, in the guest and in the handler
(weak fairness). Events need not arise.

The processors of `Ept`, `PoolManager` and `DeviceControl` get the locks they ask for: their
fairness takes for granted that a vmcall ends. `Locks`, which models the waiting, shows where
this is not so: in `Inverted` a vmcall spins for ever on the lock of the thread that the
broadcast stopped on its own processor. `VmcallReturns`, `CallsReturn` and `RequestsEnd` hold
as long as that does not happen.

`Locks`: a processor in root mode executes, as does a vmcall of a broadcast; the guest gets
on between exits and an interrupt gets through (strong fairness: exits may come again and
again, but not at every instruction); a spinner that finds the lock free again and again
gets it.

`DeviceControl`: threads are scheduled, a vmcall runs, and a client that waits for the
broadcast of others gets its turn (strong fairness). `MemoryTypes` has no liveness.

## Proofs

Everything below is proved for all values of the constants, from the named assumptions of
the modules alone. An invariant was first checked by TLC, then proved to be inductive with
one lemma for each action or group of actions.

`EptProofs`: `TypeCorrect`, `StepNeverDangles` (`NoDanglingStep`), `RecordsStayLive`
(`LiveRecords`, also after a failed allocation). None of the three is inductive alone.
Typing needs that the record an action reads through a pointer exists. That the pointer of
a single step is good needs that nothing removes a record meanwhile (vmcalls start only
without a pending trap: `RootQuiet`), and that the pool does not wipe it (a listed record is
not queued: `LiveRecords`). That nothing listed is queued needs that what is queued is used
and queued once (`HookQueueInv`), and that a record of the same address or page is found
before another is made (`OpInv`, `RecordInv`). `HookInv` is the conjunction; `TypeOK /\ HookInv`
is inductive. `ListInsert` and `ListRemove` hold the reasoning about lists, from the lemmas
`ConsList` and `RemoveFromList` about sequences.

`EptTableProofs`: `TablesStayLive` (`LiveTables`), `BlocksFreedOnce`, `TlbsAgree`
(`TlbCoherent`), `PagesStayEnforced` (`Enforced`), `ViolationsAreExpected`
(`NoUnexpectedViolation`), `OthersNeverPass` (`OnlyKernelImagePasses`): the other safety
properties of the hooks. `HookInv` is not enough for them, in two directions.

`TableInv` is about who holds a table. That a table has one owner needs the same of the block
that a vmcall has in hand between the allocation and the split (`BufferInv`), and that a queued
table is still used (`SplitQueueInv`), or the pool would hand it out again. `AccessInv` is about
what entries say. A handler writes `original` and `changed` blindly, so `EntryInv` has to know
that the first is always all rights, that an entry is one of the two, and that an entry that
is not all rights has a record: this last part is `NoUnexpectedViolation`, and what makes a new
record remember all rights as its original. `ClosedInv` is `Enforced` in terms of the page
and not of the pointer in the record. The theorems then follow: an instruction that passes
(`OnlyKernelImagePasses`) does so by an entry or a TLB entry (`TlbCoherent`), and the entry
of a record that is not stepping is closed; while one is stepping, no
instruction outside the image runs (`RootQuiet`). Each action is shown to do one of two things to the
rights of all pages, `KeepsRights` or `SetsRights` of one page, and the invariants are proved
from that. The proof showed where `NoUnexpectedViolation` ends: above 512GB there are neither
tables nor records, which it now says.

`HooksGuardPages`, in the same module, is the refinement of `PageGuard` by `Ept`. A step's effect
is given by what it does to three values, each with a lemma for keeping it and one for setting it
at one page: `Asks` (`KeepsAsks`, `SetsAsks`), `Grants` (`KeepsGrants`, `SetsGrants`) and `Windows`.
`Grants` is what the guest really gets, from the TLB too; `GrantedThen` reduces it to the tables,
so `TlbCoherent` before and after the step is what makes a hook take effect at once. `HiddenStep`
covers everything that the guest cannot see: splits, allocations, TLB fills, growing and zeroing
of blocks. The others map to `Fetch`, `Leave`, `Emulate` (`GuestGuarded`), `Open` (`AllowGuarded`),
`Close` (`TrapGuarded`), `Protect` (`InstallGuarded`) and `Unprotect` (`RemoveGuarded`).

`PoolManagerProofs`: `PoolIsTyped`, `BlocksHaveOneOwner`, `FreeBlocksAreZeroed`,
`PopsFindRequests`, `ReleasedWhenQuiet`: all the safety invariants of the pool. `Exclusive` and
`UsedInv` are `OneOwner` with its set of places unfolded into pairs of places; the rest of the
invariant says where a thread or a call may have a block in hand (`ThreadInv`, `CallInv`), how
far the threads are against load and unload (`StopInv`), and that counters are numbers of used
slots (`CountInv`). The last is what makes `Insert` and `Pop` work: `InsertFacts` and `PopFacts`
derive from it that the slot they choose exists, with `Smallest`, that a set of slots has a
least element.

`PoolImplementsAllocator`, in the same module, is the refinement: every critical section is a step
of `BlockAllocator` or a stutter. The abstract allocator counts requests; the pool has them in
slots, and one may be in the hand of a thread. `PendingInv` says what the number is in terms of
the code: the list's counter, plus one while its thread has popped an item. With it an `Insert`
that finds the list full is an abstract one that may be refused, and a pop changes nothing.
The mapping is exercised by `Takes`, `Asks`, `Grows`, `Releases`, `Reclaims` and `Destroys`,
each an abstract action derived from facts about values, then cited by the sections of callers,
threads, load and unload.

`LocksProofs`: `LocksInvHolds`, `LinesStayWhole`, and `LocksAreMutexes`, the refinement of
`Mutex` by both locks. `LocksInv` and `LinesWhole` are inductive together: that a line is whole
needs one writer, and that the port is between lines when nobody writes needs whole lines.

`LifecycleProofs`: `InUseStaysLive`, `OnlyGuestStateTwice`, `NothingStays`. The invariant follows
the thread of the driver: for each phase (`LoadInv`, `AllocateInv`, `LaunchInv`, `RunInv`,
`TerminateInv`, `ReleaseInv`, `AfterInv`) it says what every processor has, and within a
broadcast what it has at its place in the routine. The phases differ in how much may be left
from a step that failed, which is why there is one for each.

`VmExitsProofs`: `StateIsTyped`, `EventsStayOwed`, `InstructionsOnce`, `RegistersReturn`,
`RootFaultsAreKnown`. The properties speak of the guest and of VM entry; the invariant carries
them through the exit: where the owed event is (in the vectoring field, in the entry fields, or
replaced by a fault), whether RIP has moved with the effect, and exactly which registers have a
host value at each step (`RegisterInv`). That a fault in root mode comes from a synthetic MSR
needs that the handled instruction is one that exits (`ExitInv`), hence not one in the bitmap.
`RegistersReturn` holds for any registers that the guest loads, `RootFaultsAreKnown` for any
refusals; both name exceptions of the code (above) and exclude all others.

`DeviceControlProofs`: `ProcessorsAgree`, `StatusTells`. Within a broadcast the processors that
have had their part agree with each other and with the request, the others with the state
before it (`Half`); `HomeInv` ties the status to the processor of the caller.

`MemoryTypesProofs`: `PagesHaveTheirTypes` (`ConstructorOutcome`), for registers with any ranges
of power-of-two size. Most of it is about values: the descriptors are the fixed ranges and the
kept registers in order (`KeptFacts`, `DescriptorFacts`), so a page is covered by the ranges
that say something about it (`CoveringFacts`, `GivenFacts`), and the first of them after an
uncacheable one, or the last, has the effective type unless the page is `Exempt` (`TypeOfPage`).
A region that no range cuts has one type (`LargePageFacts`), and one that is cut is cut by a
range that is not aligned to regions (`UnalignedFacts`, `NoMultipleBetween`). The invariant then
carries the descriptors and the regions that are set up through the constructor (`SetUp`). The
loops of the code are stated without recursion for this: the n-th descriptor is the kept
register with n - 1 kept ones before it, and the last register to cover a page is a maximum.

Every invariant and action property that a run checks is stated by a theorem. Only
model-checked: the liveness properties (`WindowCloses`, `VmcallReturns`, `CallsReturn`,
`StopEnds`, `LoadEnds`, `UnloadEnds`, `EventEnds`, `LogEnds`, `BroadcastEnds`, `RequestsEnd`),
since liveness under fairness is out of the prover's reach.

## Not modelled

- `FormatMessage` (ComLogger.cpp:92-232), which works on a buffer of its own stack; the wording
  of log lines.
- The client's command line and `GetAddress` (Utils.cpp): parsing and symbol lookup.
- The values of the fields that `SetupVmcs` copies; layouts in `HypervisorDefinitions.h`.
- VPID and INVVPID, and the flush of translations after a TLB hypercall: they keep cached linear
  translations right, which no module has.
- Exits that the controls do not ask for (exceptions, NMIs, EPT misconfiguration) and the paths
  that break into the debugger: triple faults, and INVEPT, INVVPID and GETSEC, which always
  exit and have no case.
- When `UnhookAllPagesVmcall` reads `nextEntry` (before it frees the record): `Ept` takes the
  head of the list in each turn, which is the same while listed records are owned
  (`LiveRecords`).
- Code without a caller: `PageHook`, `PageUnhook`, the INVEPT vmcalls, `InjectBreakpoint`,
  `InjectUndefinedOpcode`; and `UnhookAllPagesDpc`, which has no effect of its own.
- MTRR masks that are not contiguous.

## Plan

What is left: safety lemmas behind the liveness properties (what a waiting caller, processor or
barrier waits for, and that somebody who runs can give it), so that TLC has to be trusted only
for fairness.
