----------------------------- MODULE MemoryTypes -----------------------------
(***************************************************************************)
(* The constructor of Ept (Ept.cpp): from the MTRRs of a processor to an   *)
(* identity map with the memory type of every page.                        *)
(*                                                                         *)
(* Memory is Regions regions, each mapped by one large page or by a table  *)
(* of PagesPerRegion pages.  A range is a base and a size in pages; its    *)
(* size is a power of two, as one mask encodes it.                         *)
(*                                                                         *)
(* Operators named Bad... are mutants of the definition that follows.      *)
(***************************************************************************)
EXTENDS Integers, FiniteSets, Sequences

CONSTANTS
    Regions,        \* how many
    PagesPerRegion,
    FixedPages,     \* how many pages the fixed-range MTRRs cover
    VariableCount,  \* how many pairs of variable-range MTRRs there are
    Types,          \* memory types the registers hold
    Defaults,       \* and the default type
    None            \* no type: an MTRR that is not valid, an entry not set up

ASSUME MemoryAssumption ==
    /\ {Regions, PagesPerRegion} \subseteq Nat \ {0}
    /\ {FixedPages, VariableCount} \subseteq Nat
    /\ FixedPages <= PagesPerRegion
    /\ Defaults \subseteq Types
    /\ None \notin Types

Pages == 0 .. Regions * PagesPerRegion - 1
RegionNumbers == 0 .. Regions - 1
FirstPage(r) == r * PagesPerRegion
LastPage(r) == FirstPage(r) + PagesPerRegion - 1
PagesOf(r) == FirstPage(r) .. LastPage(r)

\* MTRR_RANGE_DESCRIPTOR.
Descriptor(base, size, type, isFixed) ==
    [base |-> base, last |-> base + size - 1, type |-> type, fixed |-> isFixed]

VARIABLES
    default,   \* IA32_MTRR_DEF_TYPE: the default type
    fixed,     \* the types of the fixed ranges, or <<>> when they are off
    variable,  \* the variable-range MTRRs
    pc,        \* where the constructor is, or how it has ended
    ranges,    \* memoryRanges, up to numberOfEnabledMemoryRanges
    next,      \* the region SetupPML2Entry is to set up
    table,     \* region -> page -> memory type, in the page table
    large,     \* regions mapped by a large page
    memory     \* what the constructor has allocated

mtrrs == <<default, fixed, variable>>
vars == <<mtrrs, pc, ranges, next, table, large, memory>>

-----------------------------------------------------------------------------
(* What the registers say.                                                 *)

\* A mask has one block of bits: a range has a power of two of pages ...
Sizes == {s \in 1 .. Regions * PagesPerRegion : \E k \in 0 .. s : s = 2 ^ k}

\* ... and is aligned to its size.
VariableRanges ==
    {[base |-> b, size |-> s, type |-> t] :
        b \in Pages, s \in Sizes, t \in Types} \cup {None}

Legal(v) == v # None => v.base % v.size = 0 /\ v.base + v.size - 1 \in Pages

Says(v, page) == v # None /\ v.base <= page /\ page <= v.base + v.size - 1

\* The types that variable ranges give a page.
TypesGiven(page) ==
    {variable[i].type : i \in {j \in DOMAIN variable : Says(variable[j], page)}}

\* Overlaps whose type is defined.
Defined(page) ==
    \/ Cardinality(TypesGiven(page)) <= 1
    \/ "UC" \in TypesGiven(page)
    \/ TypesGiven(page) = {"WT", "WB"}

\* The effective type: fixed ranges first, then UC, then WT, then the only type
\* there is, or else the default.
EffectiveType(page) ==
    CASE page < Len(fixed) -> fixed[page + 1]
      [] page >= Len(fixed) /\ TypesGiven(page) = {} -> default
      [] page >= Len(fixed) /\ "UC" \in TypesGiven(page) -> "UC"
      [] page >= Len(fixed) /\ TypesGiven(page) = {"WT", "WB"} -> "WT"
      [] OTHER -> CHOOSE t \in TypesGiven(page) : TRUE

Init ==
    /\ default \in Defaults
    /\ fixed \in [1 .. FixedPages -> Types] \cup {<<>>}
    /\ variable \in [1 .. VariableCount -> {v \in VariableRanges : Legal(v)}]
    /\ \A page \in Pages : Defined(page)
    /\ pc = "list"
    /\ ranges = <<>>
    /\ next = 0
    /\ table = [r \in RegionNumbers |-> None]
    /\ large = {}
    /\ memory = {}

-----------------------------------------------------------------------------
(* The type of a page, from the descriptors.                               *)

\* The descriptors that cover a page, in their order.
Covering(page) ==
    {i \in DOMAIN ranges : ranges[i].base <= page /\ page <= ranges[i].last}

Uncached(page) == {i \in Covering(page) : ranges[i].type = "UC"}

First(S) == CHOOSE i \in S : \A j \in S : i <= j
Final(S) == CHOOSE i \in S : \A j \in S : j <= i

After(page) == {i \in Covering(page) : \E u \in Uncached(page) : u < i}

\* The first one decides if it is a fixed range.  The one after an uncacheable
\* range decides too, and otherwise the last: write-back ranges, which a
\* write-through one would have precedence over, have no descriptor.
GetMemoryType(page) ==
    IF Covering(page) = {} THEN default
    ELSE IF ranges[First(Covering(page))].fixed
    THEN ranges[First(Covering(page))].type
    ELSE IF After(page) # {} THEN ranges[First(After(page))].type
    ELSE ranges[Final(Covering(page))].type

\* No range ends or begins inside the region.
BadValidForLargePage(r) ==
    \A i \in DOMAIN ranges :
        ~(FirstPage(r) <= ranges[i].last /\ LastPage(r) > ranges[i].last)

IsValidForLargePage(r) ==
    \A i \in DOMAIN ranges :
        /\ ~(FirstPage(r) <= ranges[i].last /\ LastPage(r) > ranges[i].last)
        /\ ~(FirstPage(r) < ranges[i].base /\ LastPage(r) >= ranges[i].base)

-----------------------------------------------------------------------------
(* The constructor.                                                        *)

Raise == pc' = "refused" /\ memory' = {}

AllocateList ==
    /\ pc = "list"
    /\ \/ pc' = "features" /\ memory' = {"list"}
       \/ Raise
    /\ UNCHANGED <<mtrrs, ranges, next, table, large>>

\* Write-back support, large pages, MTRRs that are enabled.
CheckFeatures ==
    /\ pc = "features"
    /\ \/ pc' = "map" /\ UNCHANGED memory
       \/ Raise
    /\ UNCHANGED <<mtrrs, ranges, next, table, large>>

FixedRanges == [i \in 1 .. Len(fixed) |-> Descriptor(i - 1, 1, fixed[i], TRUE)]

\* A write-back range is not kept.
Kept(v) == v # None /\ v.type # "WB"

KeptRegisters == {i \in DOMAIN variable : Kept(variable[i])}

\* The n-th of them.
KeptAt(n) ==
    CHOOSE i \in KeptRegisters : Cardinality({j \in KeptRegisters : j <= i}) = n

VariableDescriptors ==
    [n \in 1 .. Cardinality(KeptRegisters) |->
        LET v == variable[KeptAt(n)]
        IN  Descriptor(v.base, v.size, v.type, FALSE)]

BuildMtrrMap ==
    /\ pc = "map"
    /\ ranges' = FixedRanges \o VariableDescriptors
    /\ pc' = "allocate"
    /\ UNCHANGED <<mtrrs, next, table, large, memory>>

AllocateAndCreateIdentityPageTable ==
    /\ pc = "allocate"
    /\ \/ /\ memory' = memory \cup {"table"}
          /\ large' = RegionNumbers
          /\ pc' = "fill"
       \/ Raise /\ UNCHANGED large
    /\ UNCHANGED <<mtrrs, ranges, next, table>>

OneType(r, type) == [table EXCEPT ![r] = [page \in PagesOf(r) |-> type]]

\* One type for a large page.  The first region is uncacheable if it needs several.
SetupPML2Entry ==
    /\ pc = "fill"
    /\ next \in RegionNumbers
    /\ IsValidForLargePage(next) \/ next = 0
    /\ table' = OneType(next, IF IsValidForLargePage(next)
                              THEN GetMemoryType(FirstPage(next)) ELSE "UC")
    /\ next' = next + 1
    /\ UNCHANGED <<mtrrs, pc, ranges, large, memory>>

\* Another region needs a table.  With no buffer for it the page table is freed;
\* with one SplitLargePage looks for the entry through eptPageTable, still NULL,
\* and the exception leaves the constructor.
SetupWithSplit ==
    /\ pc = "fill"
    /\ next \in RegionNumbers \ {0}
    /\ ~IsValidForLargePage(next)
    /\ \/ Raise
       \/ /\ pc' = "raised"
          /\ memory' = memory \cup {"buffer"}
    /\ UNCHANGED <<mtrrs, ranges, next, table, large>>

LogicalProcessorInitialize ==
    /\ pc = "fill"
    /\ next = Regions
    /\ pc' = "built"
    /\ UNCHANGED <<mtrrs, ranges, next, table, large, memory>>

\* Later, for a hook: each page of the region gets its own type.
SplitLargePage(r) ==
    /\ pc = "built"
    /\ r \in large
    /\ table' = [table EXCEPT ![r] = [page \in PagesOf(r) |-> GetMemoryType(page)]]
    /\ large' = large \ {r}
    /\ UNCHANGED <<mtrrs, pc, ranges, next, memory>>

Next ==
    \/ AllocateList \/ CheckFeatures \/ BuildMtrrMap \/ AllocateAndCreateIdentityPageTable
    \/ SetupPML2Entry \/ SetupWithSplit \/ LogicalProcessorInitialize
    \/ \E r \in RegionNumbers : SplitLargePage(r)

Spec == Init /\ [][Next]_vars

-----------------------------------------------------------------------------
(* Properties.                                                             *)

\* Pages that do not get their effective type: in write-back ranges only, when the
\* default is something else (Ept.cpp:173), or in an uncacheable range that is
\* listed before one of another type (Ept.cpp:765-768).
WriteBackForgotten(page) == TypesGiven(page) = {"WB"} /\ default # "WB"

UncachedOverruled(page) ==
    \E i, j \in DOMAIN variable :
        /\ i < j
        /\ Says(variable[i], page) /\ Says(variable[j], page)
        /\ variable[i].type = "UC" /\ variable[j].type \notin {"UC", "WB"}

Exempt(page) ==
    page >= Len(fixed) /\ (WriteBackForgotten(page) \/ UncachedOverruled(page))

RightType(page, r) == table[r][page] = EffectiveType(page) \/ Exempt(page)

\* A page table that is built gives every page the type that the MTRRs give it,
\* through large pages and through regions split later, but for Exempt; the first
\* region may be uncacheable instead as long as it is a large page
\* (Ept.cpp:104-180, 313-331, 750-784, 831-844).  A constructor that refuses leaves
\* nothing allocated, and it is left by an exception only when a range ends or
\* begins inside a region that is not the first (Ept.cpp:253, 353-393).
ConstructorOutcome ==
    /\ pc = "built" =>
        \A r \in RegionNumbers, page \in Pages :
            page \in PagesOf(r) =>
                \/ RightType(page, r)
                \/ r = 0 /\ r \in large /\ table[r][page] = "UC"
    /\ pc = "refused" => memory = {}
    /\ pc = "raised" =>
        \E v \in 1 .. VariableCount :
            /\ variable[v] # None
            /\ variable[v].base % PagesPerRegion # 0
               \/ (variable[v].base + variable[v].size) % PagesPerRegion # 0
=============================================================================
