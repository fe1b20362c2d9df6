------------------------------- MODULE MCEpt -------------------------------
(* Small instances of Ept for TLC.                                         *)
EXTENDS Ept, TLC

CONSTANTS c1, c2, low, high, o1, o2, s1, s2, s3, h1, h2, h3, v1, v2, v3

R == {"read"}
X == {"execute"}
RW == {"read", "write"}

Kernel(acc) == [kernel |-> TRUE, acc |-> acc]
Other(acc) == [kernel |-> FALSE, acc |-> acc]

\* Two addresses on two pages of one region.
TwoPages == v1 :> <<low, o1>> @@ v2 :> <<low, o2>>
\* A page below 512GB and one above.
LowAndHigh == v1 :> <<low, o1>> @@ v2 :> <<high, o1>>
\* Two pages of one region, and an address with no page.
ThreeAddresses == v1 :> <<low, o1>> @@ v2 :> <<low, o2>> @@ v3 :> Nil

p1 == <<low, o1>>
p2 == <<low, o2>>

\* Code on page 1 that may touch data on page 2.
OnTwoPages ==
    {Kernel({<<p1, "execute">>}), Kernel({<<p1, "execute">>, <<p2, "write">>}),
     Other({<<p1, "execute">>}), Other({<<p2, "write">>})}
OnFirstPage == {Kernel({<<p1, "execute">>}), Other({<<p1, "execute">>})}
NoInstructions == {}

OneAddress == v1 :> <<low, o1>>

ReadOnly == {R}
ReadOnlyOrReadWrite == {R, RW}
OneRestriction == {R, {"write"}}

AllBlocks == SplitBlocks \cup HookBlocks
OneOfEach == {s1, h1}

\* Blocks of one type are interchangeable, and so are processors.
BlockSymmetry == Permutations(SplitBlocks) \cup Permutations(HookBlocks)
CpuSymmetry == Permutations(Cpus) \cup BlockSymmetry
=============================================================================
