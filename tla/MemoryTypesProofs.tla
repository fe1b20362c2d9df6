-------------------------- MODULE MemoryTypesProofs --------------------------
(***************************************************************************)
(* What the constructor of Ept makes of the MTRRs, for any registers, any  *)
(* memory types and memory of any size.                                    *)
(***************************************************************************)
EXTENDS MemoryTypes, FiniteSetTheorems, TLAPS

-----------------------------------------------------------------------------
(* Sets of numbers.                                                        *)

LEMMA Smallest ==
  ASSUME NEW S \in SUBSET Nat, S # {}
  PROVE  \E m \in S : \A n \in S : m <= n
<1> DEFINE R == OpToRel(<, Nat)
<1>1. PICK m \in S : \A n \in S : ~(<<n, m>> \in R)
  BY NatLessThanWellFounded, WFMin, Zenon
<1>2. ASSUME NEW n \in S  PROVE m <= n
  <2>1. ~(<<n, m>> \in R) /\ m \in Nat /\ n \in Nat
    BY <1>1
  <2> QED
    BY <2>1 DEF OpToRel
<1> QED
  BY <1>2

LEMMA Largest ==
  ASSUME NEW N \in Nat, NEW S \in SUBSET (1 .. N), S # {}
  PROVE  \E m \in S : \A n \in S : n <= m
<1> DEFINE T == {k \in 0 .. N : N - k \in S}
<1>1. T \in SUBSET Nat /\ T # {}
  <2>1. PICK s \in S : TRUE
    OBVIOUS
  <2>2. N - s \in 0 .. N /\ N - (N - s) = s
    OBVIOUS
  <2>3. N - s \in T /\ T \in SUBSET Nat
    BY <2>2
  <2> HIDE DEF T
  <2> QED
    BY <2>3
<1>2. PICK t \in T : \A u \in T : t <= u
  <2> HIDE DEF T
  <2> QED
    BY <1>1, Smallest
<1>3. ASSUME NEW n \in S  PROVE n <= N - t
  <2>1. N - n \in 0 .. N /\ N - (N - n) = n /\ n \in 1 .. N
    OBVIOUS
  <2>2. N - n \in T
    BY <2>1
  <2>3. t <= N - n /\ t \in 0 .. N
    BY <1>2, <2>2
  <2> QED
    BY <2>1, <2>3
<1> QED
  BY <1>3

\* The rank of a member of a set of numbers: every number up to the size of the set
\* is the rank of one member.
Rank(K, i) == Cardinality({j \in K : j <= i})

LEMMA RankFacts ==
  ASSUME NEW N \in Nat, NEW K \in SUBSET (1 .. N)
  PROVE  /\ IsFiniteSet(K) /\ Cardinality(K) \in Nat
         /\ \A i \in K : Rank(K, i) \in 1 .. Cardinality(K)
         /\ \A i, j \in K : i < j => Rank(K, i) < Rank(K, j)
         /\ \A n \in 1 .. Cardinality(K) : \E i \in K : Rank(K, i) = n
<1> DEFINE upTo(i) == {j \in K : j <= i}
<1>1. IsFiniteSet(1 .. N)
  BY FS_Interval
<1>2. IsFiniteSet(K) /\ Cardinality(K) \in Nat
  BY <1>1, FS_Subset, FS_CardinalityType
<1>3. \A i \in K : IsFiniteSet(upTo(i)) /\ Cardinality(upTo(i)) \in Nat
                   /\ Cardinality(upTo(i)) <= Cardinality(K)
  <2>1. \A i \in K : upTo(i) \in SUBSET K
    OBVIOUS
  <2> HIDE DEF upTo
  <2> QED
    BY <1>2, <2>1, FS_Subset, FS_CardinalityType
<1>4. \A i \in K : Rank(K, i) = Cardinality(upTo(i))
  BY DEF Rank
<1>5. ASSUME NEW i \in K
      PROVE  Rank(K, i) \in 1 .. Cardinality(K)
  <2>1. i \in upTo(i)
    OBVIOUS
  <2> HIDE DEF upTo
  <2>2. Cardinality(upTo(i)) # 0
    BY <1>3, <2>1, FS_EmptySet
  <2> QED
    BY <1>2, <1>3, <1>4, <2>2
<1>6. ASSUME NEW i \in K, NEW j \in K, i < j
      PROVE  Rank(K, i) < Rank(K, j)
  <2>1. \A x \in K : x <= i => x <= j
    BY <1>6
  <2>2. ~(j <= i) /\ j <= j
    BY <1>6
  <2>3. upTo(i) \in SUBSET upTo(j) /\ j \in upTo(j) /\ j \notin upTo(i)
    BY <2>1, <2>2
  <2> HIDE DEF upTo
  <2>4. Cardinality(upTo(i)) <= Cardinality(upTo(j))
    BY <1>3, <2>3, FS_Subset
  <2>5. Cardinality(upTo(i)) # Cardinality(upTo(j))
    BY <1>3, <2>3, FS_Subset
  <2> QED
    BY <1>3, <1>4, <2>4, <2>5
<1>7. ASSUME NEW n \in 1 .. Cardinality(K)
      PROVE  \E i \in K : Rank(K, i) = n
  <2> DEFINE f == [i \in K |-> Rank(K, i)]
             I == 1 .. Cardinality(K)
  <2>1. f \in [K -> I] /\ \A i \in K : f[i] = Rank(K, i)
    BY <1>5
  <2>2. \A i, j \in K : f[i] = f[j] => i = j
    <3>1. \A i, j \in K : i = j \/ i < j \/ j < i
      OBVIOUS
    <3> QED
      BY <1>5, <1>6, <2>1, <3>1
  <2>3. IsFiniteSet(I) /\ Cardinality(I) = Cardinality(K)
    BY <1>2, FS_Interval
  <2> HIDE DEF f, I
  <2>4. f \in Injection(K, I)
    BY <2>1, <2>2 DEF Injection, IsInjective
  <2>5. f \in Surjection(K, I)
    BY <2>3, <2>4, FS_Injection
  <2> QED
    BY <2>1, <2>5 DEF Surjection, I
<1> QED
  BY <1>2, <1>5, <1>6, <1>7

-----------------------------------------------------------------------------
(* The registers and the descriptors.                                      *)

\* The registers hold what firmware may write, and do not change.
Registers ==
    /\ default \in Defaults
    /\ fixed \in [1 .. FixedPages -> Types] \cup {<<>>}
    /\ variable \in [1 .. VariableCount -> {v \in VariableRanges : Legal(v)}]
    /\ \A page \in Pages : Defined(page)

LEMMA PageFacts ==
  /\ Pages \subseteq Nat
  /\ \A r \in RegionNumbers : r \in Nat /\ FirstPage(r) \in Nat /\ LastPage(r) \in Nat
                              /\ FirstPage(r) <= LastPage(r)
                              /\ FirstPage(r) \in PagesOf(r) /\ PagesOf(r) \subseteq Nat
BY MemoryAssumption DEF Pages, RegionNumbers, FirstPage, LastPage, PagesOf

LEMMA FixedFacts ==
  ASSUME Registers
  PROVE  /\ fixed \in Seq(Types) /\ Len(fixed) \in Nat /\ Len(fixed) <= PagesPerRegion
         /\ DOMAIN fixed = 1 .. Len(fixed)
<1>1. CASE fixed \in [1 .. FixedPages -> Types]
  BY <1>1, MemoryAssumption
<1>2. CASE fixed = <<>>
  BY <1>2, MemoryAssumption
<1> QED
  BY <1>1, <1>2 DEF Registers

LEMMA VariableFacts ==
  ASSUME Registers
  PROVE  /\ DOMAIN variable = 1 .. VariableCount
         /\ \A i \in DOMAIN variable : variable[i] # None =>
              /\ variable[i].base \in Nat /\ variable[i].size \in Nat \ {0}
              /\ variable[i].type \in Types
              /\ variable[i].base + variable[i].size - 1 \in Nat
<1>1. \A s \in Sizes : s \in Nat \ {0}
  BY MemoryAssumption DEF Sizes
<1>2. ASSUME NEW v \in VariableRanges, v # None
      PROVE  v.base \in Nat /\ v.size \in Nat \ {0} /\ v.type \in Types
  BY <1>1, <1>2, PageFacts DEF VariableRanges
<1>3. ASSUME NEW i \in DOMAIN variable
      PROVE  variable[i] \in VariableRanges
  BY DEF Registers
<1>4. DOMAIN variable = 1 .. VariableCount
  BY DEF Registers
<1>5. ASSUME NEW i \in DOMAIN variable, variable[i] # None
      PROVE  /\ variable[i].base \in Nat /\ variable[i].size \in Nat \ {0}
             /\ variable[i].type \in Types
  BY <1>2, <1>3, <1>5
<1> QED
  BY <1>4, <1>5

\* The registers that are kept, in the order of their numbers.
LEMMA KeptFacts ==
  ASSUME Registers
  PROVE  LET C == Cardinality(KeptRegisters)
         IN  /\ C \in Nat
             /\ \A n \in 1 .. C : KeptAt(n) \in KeptRegisters
             /\ \A m, n \in 1 .. C : KeptAt(m) <= KeptAt(n) => m <= n
             /\ \A i \in KeptRegisters : \E n \in 1 .. C : KeptAt(n) = i
<1> DEFINE K == KeptRegisters
           C == Cardinality(K)
<1>1. K \in SUBSET (1 .. VariableCount) /\ VariableCount \in Nat
  BY VariableFacts, MemoryAssumption DEF KeptRegisters
<1>2. /\ C \in Nat
      /\ \A i \in K : Rank(K, i) \in 1 .. C
      /\ \A i, j \in K : i < j => Rank(K, i) < Rank(K, j)
      /\ \A n \in 1 .. C : \E i \in K : Rank(K, i) = n
  <2> HIDE DEF K
  <2> QED
    BY <1>1, RankFacts
<1>3. \A n \in 1 .. C : KeptAt(n) \in K /\ Rank(K, KeptAt(n)) = n
  BY <1>2 DEF KeptAt, Rank
<1>a. \A x \in K : x \in Nat
  BY <1>1
<1>4. ASSUME NEW i \in K
      PROVE  KeptAt(Rank(K, i)) = i
  <2> DEFINE k == KeptAt(Rank(K, i))
  <2>1. k \in K /\ Rank(K, k) = Rank(K, i)
    BY <1>2, <1>3
  <2> HIDE DEF k, K
  <2>2. k = i \/ k < i \/ i < k
    BY <1>a, <2>1
  <2> QED
    BY <1>2, <2>1, <2>2 DEF k
<1>5. ASSUME NEW m \in 1 .. C, NEW n \in 1 .. C, KeptAt(m) <= KeptAt(n)
      PROVE  m <= n
  <2> HIDE DEF K
  <2>1. KeptAt(m) = KeptAt(n) \/ KeptAt(m) < KeptAt(n)
    BY <1>3, <1>5, <1>a
  <2> QED
    BY <1>2, <1>3, <2>1
<1> QED
  BY <1>2, <1>3, <1>4, <1>5

Described == ranges = FixedRanges \o VariableDescriptors

\* The descriptors: the fixed ranges of one page each, then the kept registers.
LEMMA DescriptorFacts ==
  ASSUME Registers, Described
  PROVE  LET F == Len(fixed)
             C == Cardinality(KeptRegisters)
         IN  /\ DOMAIN ranges = 1 .. (F + C)
             /\ \A i \in 1 .. F :
                  /\ ranges[i].base = i - 1 /\ ranges[i].last = i - 1 + 1 - 1
                  /\ ranges[i].type = fixed[i] /\ ranges[i].fixed = TRUE
             /\ \A n \in 1 .. C :
                  /\ ranges[F + n].base = variable[KeptAt(n)].base
                  /\ ranges[F + n].last =
                       variable[KeptAt(n)].base + variable[KeptAt(n)].size - 1
                  /\ ranges[F + n].type = variable[KeptAt(n)].type
                  /\ ranges[F + n].fixed = FALSE
<1> DEFINE F == Len(fixed)
           C == Cardinality(KeptRegisters)
           V(n) == variable[KeptAt(n)]
           a == FixedRanges
           b == VariableDescriptors
<1>1. F \in Nat /\ C \in Nat
  BY FixedFacts, KeptFacts
<1>2. /\ a = [i \in 1 .. F |-> Descriptor(i - 1, 1, fixed[i], TRUE)]
      /\ b = [n \in 1 .. C |-> Descriptor(V(n).base, V(n).size, V(n).type, FALSE)]
  BY DEF FixedRanges, VariableDescriptors
<1> HIDE DEF F, C, V, a, b
<1>3. Len(a) = F /\ Len(b) = C
  BY <1>1, <1>2
<1>4. /\ DOMAIN (a \o b) = 1 .. (F + C)
      /\ \A i \in 1 .. F : (a \o b)[i] = a[i]
      /\ \A n \in 1 .. C : (a \o b)[F + n] = b[n]
  BY <1>1, <1>3
<1>5. ranges = a \o b
  BY DEF Described, a, b
<1>6. ASSUME NEW i \in 1 .. F
      PROVE  /\ ranges[i].base = i - 1 /\ ranges[i].last = i - 1 + 1 - 1
             /\ ranges[i].type = fixed[i] /\ ranges[i].fixed = TRUE
  <2>1. ranges[i] = Descriptor(i - 1, 1, fixed[i], TRUE)
    BY <1>2, <1>4, <1>5
  <2> QED
    BY <2>1 DEF Descriptor
<1>7. ASSUME NEW n \in 1 .. C
      PROVE  /\ ranges[F + n].base = V(n).base
             /\ ranges[F + n].last = V(n).base + V(n).size - 1
             /\ ranges[F + n].type = V(n).type /\ ranges[F + n].fixed = FALSE
  <2>1. ranges[F + n] = Descriptor(V(n).base, V(n).size, V(n).type, FALSE)
    BY <1>2, <1>4, <1>5
  <2> QED
    BY <2>1 DEF Descriptor
<1>8. DOMAIN ranges = 1 .. (F + C)
  BY <1>4, <1>5
<1> QED
  BY <1>6, <1>7, <1>8 DEF F, C, V

LEMMA RangeTypes ==
  ASSUME Registers, Described, NEW i \in DOMAIN ranges
  PROVE  ranges[i].base \in Int /\ ranges[i].last \in Int
<1> DEFINE F == Len(fixed)
           C == Cardinality(KeptRegisters)
<1>1. F \in Nat /\ C \in Nat /\ DOMAIN ranges = 1 .. (F + C)
  BY FixedFacts, KeptFacts, DescriptorFacts
<1>2. CASE i \in 1 .. F
  <2>1. ranges[i].base = i - 1 /\ ranges[i].last = i - 1 + 1 - 1
    BY <1>2, DescriptorFacts
  <2>2. i - 1 \in Int /\ i - 1 + 1 - 1 \in Int
    BY <1>2
  <2> QED
    BY <2>1, <2>2
<1>3. CASE i \notin 1 .. F
  <2>1. i - F \in 1 .. C /\ i = F + (i - F)
    BY <1>1, <1>3
  <2>2. PICK n \in 1 .. C : i = F + n
    BY <2>1
  <2>3. KeptAt(n) \in DOMAIN variable /\ variable[KeptAt(n)] # None
    BY KeptFacts DEF KeptRegisters, Kept
  <2>4. variable[KeptAt(n)].base \in Nat /\ variable[KeptAt(n)].size \in Nat
    BY <2>3, VariableFacts
  <2>5. /\ ranges[i].base = variable[KeptAt(n)].base
        /\ ranges[i].last = variable[KeptAt(n)].base + variable[KeptAt(n)].size - 1
    BY <2>2, DescriptorFacts
  <2> QED
    BY <2>4, <2>5
<1> QED
  BY <1>2, <1>3

-----------------------------------------------------------------------------
(* The type of a page.                                                     *)

\* The kept registers of a page and the fixed range of a page, as descriptors.
LEMMA CoveringFacts ==
  ASSUME Registers, Described, NEW page \in Pages
  PROVE  LET F == Len(fixed)
             C == Cardinality(KeptRegisters)
         IN  /\ Covering(page) \in SUBSET (1 .. (F + C))
             /\ \A i \in 1 .. F : i \in Covering(page) <=> i = page + 1
             /\ \A n \in 1 .. C :
                  F + n \in Covering(page) <=> Says(variable[KeptAt(n)], page)
             /\ page < F <=> page + 1 \in 1 .. F
<1> DEFINE F == Len(fixed)
           C == Cardinality(KeptRegisters)
<1>1. /\ DOMAIN ranges = 1 .. (F + C)
      /\ \A i \in 1 .. F : ranges[i].base = i - 1 /\ ranges[i].last = i - 1 + 1 - 1
      /\ \A n \in 1 .. C :
           /\ ranges[F + n].base = variable[KeptAt(n)].base
           /\ ranges[F + n].last = variable[KeptAt(n)].base + variable[KeptAt(n)].size - 1
  BY DescriptorFacts
<1>2. F \in Nat /\ C \in Nat /\ page \in Nat
  BY FixedFacts, KeptFacts, PageFacts
<1>3. ASSUME NEW n \in 1 .. C
      PROVE  variable[KeptAt(n)] # None
  BY KeptFacts DEF KeptRegisters, Kept
<1> HIDE DEF F, C
<1>4. Covering(page) \in SUBSET (1 .. (F + C))
  BY <1>1 DEF Covering
<1>5. ASSUME NEW i \in 1 .. F
      PROVE  i \in Covering(page) <=> i = page + 1
  <2>1. i \in DOMAIN ranges
    BY <1>1, <1>2
  <2>2. ranges[i].base = i - 1 /\ ranges[i].last = i - 1 + 1 - 1
    BY <1>1
  <2> QED
    BY <1>2, <2>1, <2>2 DEF Covering
<1>6. ASSUME NEW n \in 1 .. C
      PROVE  F + n \in Covering(page) <=> Says(variable[KeptAt(n)], page)
  <2>1. F + n \in DOMAIN ranges
    BY <1>1, <1>2
  <2>2. /\ ranges[F + n].base = variable[KeptAt(n)].base
        /\ ranges[F + n].last = variable[KeptAt(n)].base + variable[KeptAt(n)].size - 1
    BY <1>1
  <2> QED
    BY <1>3, <2>1, <2>2 DEF Covering, Says
<1> QED
  BY <1>2, <1>4, <1>5, <1>6 DEF F, C

\* What the registers say of a page, by the kept ones.
LEMMA GivenFacts ==
  ASSUME Registers, NEW page \in Pages
  PROVE  LET C == Cardinality(KeptRegisters)
         IN  /\ \A n \in 1 .. C : Says(variable[KeptAt(n)], page) =>
                  /\ variable[KeptAt(n)].type \in TypesGiven(page) \ {"WB"}
                  /\ KeptAt(n) \in DOMAIN variable
             /\ \A t \in TypesGiven(page) \ {"WB"} : \E n \in 1 .. C :
                  Says(variable[KeptAt(n)], page) /\ variable[KeptAt(n)].type = t
<1> DEFINE C == Cardinality(KeptRegisters)
<1>1. ASSUME NEW n \in 1 .. C, Says(variable[KeptAt(n)], page)
      PROVE  /\ variable[KeptAt(n)].type \in TypesGiven(page) \ {"WB"}
             /\ KeptAt(n) \in DOMAIN variable
  <2>1. KeptAt(n) \in DOMAIN variable /\ Kept(variable[KeptAt(n)])
    BY KeptFacts DEF KeptRegisters
  <2> QED
    BY <1>1, <2>1 DEF TypesGiven, Kept
<1>2. ASSUME NEW t \in TypesGiven(page) \ {"WB"}
      PROVE  \E n \in 1 .. C : Says(variable[KeptAt(n)], page) /\ variable[KeptAt(n)].type = t
  <2>1. PICK i \in DOMAIN variable : Says(variable[i], page) /\ variable[i].type = t
    BY DEF TypesGiven
  <2>2. i \in KeptRegisters
    BY <2>1 DEF KeptRegisters, Kept, Says
  <2>3. PICK n \in 1 .. C : KeptAt(n) = i
    BY <2>2, KeptFacts
  <2> QED
    BY <2>1, <2>3
<1> QED
  BY <1>1, <1>2

LEMMA GivenFinite ==
  ASSUME Registers, NEW page
  PROVE  IsFiniteSet(TypesGiven(page))
<1> DEFINE D == {j \in DOMAIN variable : Says(variable[j], page)}
           f == [i \in D |-> variable[i].type]
           T == TypesGiven(page)
<1>1. D \in SUBSET (1 .. VariableCount) /\ IsFiniteSet(1 .. VariableCount)
  BY VariableFacts, FS_Interval, MemoryAssumption
<1>2. IsFiniteSet(D)
  BY <1>1, FS_Subset
<1>3. T = {variable[i].type : i \in D}
  BY DEF TypesGiven
<1> HIDE DEF D, T
<1>4. f \in Surjection(D, T)
  BY <1>3 DEF Surjection
<1> HIDE DEF f
<1>5. IsFiniteSet(T)
  BY <1>2, <1>4, FS_Surjection
<1> QED
  BY <1>5 DEF T

\* A page gets its effective type, but for Exempt.
LEMMA TypeOfPage ==
  ASSUME Registers, Described, NEW page \in Pages
  PROVE  GetMemoryType(page) = EffectiveType(page) \/ Exempt(page)
<1> DEFINE F == Len(fixed)
           C == Cardinality(KeptRegisters)
           S == Covering(page)
           T == TypesGiven(page)
           V(n) == variable[KeptAt(n)]
<1>1. F \in Nat /\ C \in Nat /\ page \in Nat /\ S \in SUBSET (1 .. (F + C))
  BY FixedFacts, KeptFacts, PageFacts, CoveringFacts
<1>2. /\ \A i \in 1 .. F : i \in S <=> i = page + 1
      /\ \A n \in 1 .. C : F + n \in S <=> Says(V(n), page)
  BY CoveringFacts
<1>3. /\ \A i \in 1 .. F : ranges[i].fixed = TRUE /\ ranges[i].type = fixed[i]
      /\ \A n \in 1 .. C : ranges[F + n].fixed = FALSE /\ ranges[F + n].type = V(n).type
  BY DescriptorFacts
<1>4. ASSUME NEW i \in S, i \notin 1 .. F
      PROVE  \E n \in 1 .. C : i = F + n
  <2>1. i - F \in 1 .. C /\ i = F + (i - F)
    BY <1>1, <1>4
  <2> QED
    BY <2>1
<1>5. S # {} => First(S) \in S /\ \A j \in S : First(S) <= j
  <2>1. S \in SUBSET Nat
    BY <1>1
  <2> HIDE DEF S
  <2> QED
    BY <2>1, Smallest DEF First
<1>6. S # {} => Final(S) \in S /\ \A j \in S : j <= Final(S)
  <2>1. F + C \in Nat
    BY <1>1
  <2> HIDE DEF S
  <2> QED
    BY <1>1, <2>1, Largest DEF Final
<1>7. CASE page < F
  <2>1. page + 1 \in 1 .. F /\ page + 1 \in S
    BY <1>1, <1>2, <1>7
  <2>2. First(S) = page + 1
    <3>1. First(S) \in S /\ First(S) <= page + 1
      BY <1>5, <2>1
    <3>2. First(S) \in 1 .. F
      BY <1>1, <2>1, <3>1
    <3> QED
      BY <1>2, <3>1, <3>2
  <2>3. GetMemoryType(page) = fixed[page + 1]
    BY <1>3, <2>1, <2>2 DEF GetMemoryType
  <2> QED
    BY <1>1, <1>7, <2>3 DEF EffectiveType
<1>8. CASE ~(page < F)
  <2>1. page >= F
    BY <1>1, <1>8
  <2>2. ASSUME NEW i \in S
        PROVE  \E n \in 1 .. C : i = F + n /\ Says(V(n), page)
    <3>1. i \notin 1 .. F
      BY <1>1, <1>2, <2>1
    <3> QED
      BY <1>2, <1>4, <3>1
  <2>3. \A n \in 1 .. C : Says(V(n), page) => V(n).type \in T \ {"WB"}
    BY GivenFacts
  <2>4. \A t \in T \ {"WB"} : \E n \in 1 .. C : F + n \in S /\ V(n).type = t
    BY <1>2, GivenFacts
  <2>5. \A i \in S : ranges[i].type \in T \ {"WB"} /\ ranges[i].fixed = FALSE
    BY <1>3, <2>2, <2>3
  <2>6. \A i, j \in S : i < j /\ ranges[i].type = "UC" /\ ranges[j].type # "UC"
                        => UncachedOverruled(page)
    <3> SUFFICES ASSUME NEW i \in S, NEW j \in S, i < j, ranges[i].type = "UC",
                        ranges[j].type # "UC"
                 PROVE  UncachedOverruled(page)
      OBVIOUS
    <3>1. PICK m \in 1 .. C : i = F + m /\ Says(V(m), page)
      BY <2>2
    <3>2. PICK n \in 1 .. C : j = F + n /\ Says(V(n), page)
      BY <2>2
    <3>3. KeptAt(m) \in DOMAIN variable /\ KeptAt(n) \in DOMAIN variable
      BY <3>1, <3>2, GivenFacts
    <3>4. KeptAt(m) < KeptAt(n)
      <4>1. KeptAt(m) \in Nat /\ KeptAt(n) \in Nat
        BY <3>3, VariableFacts
      <4>2. ~(n <= m)
        BY <1>1, <3>1, <3>2
      <4>3. ~(KeptAt(n) <= KeptAt(m))
        BY <4>2, KeptFacts
      <4> QED
        BY <4>1, <4>3
    <3>5. V(m).type = "UC" /\ V(n).type \notin {"UC", "WB"}
      BY <1>3, <2>5, <3>1, <3>2
    <3> QED
      BY <3>1, <3>2, <3>3, <3>4, <3>5 DEF UncachedOverruled
  <2> HIDE DEF V, C
  <2>7. CASE S = {}
    <3>1. GetMemoryType(page) = default
      BY <2>7 DEF GetMemoryType
    <3>2. T \subseteq {"WB"}
      BY <2>4, <2>7
    <3>3. CASE T = {}
      BY <2>1, <3>1, <3>3, <1>8 DEF EffectiveType
    <3>4. CASE T = {"WB"}
      <4>1. default # "WB" => Exempt(page)
        BY <2>1, <3>4 DEF Exempt, WriteBackForgotten
      <4>2. EffectiveType(page) = "WB"
        BY <1>8, <2>1, <3>4 DEF EffectiveType
      <4> QED
        BY <3>1, <4>1, <4>2
    <3> QED
      BY <3>2, <3>3, <3>4
  <2>8. CASE S # {}
    <3>1. First(S) \in S /\ Final(S) \in S /\ \A j \in S : j <= Final(S)
      BY <1>5, <1>6, <2>8
    <3>2. GetMemoryType(page) = IF After(page) # {} THEN ranges[First(After(page))].type
                                ELSE ranges[Final(S)].type
      BY <2>5, <2>8, <3>1 DEF GetMemoryType
    <3>3. CASE "UC" \in T
      <4>1. EffectiveType(page) = "UC"
        BY <1>8, <2>1, <3>3 DEF EffectiveType
      <4>2. PICK u \in S : ranges[u].type = "UC"
        BY <1>3, <2>4, <3>3
      <4>3. CASE After(page) = {}
        <5>1. ~(u < Final(S))
          BY <3>1, <4>2, <4>3 DEF After, Uncached
        <5>2. u = Final(S)
          BY <1>1, <3>1, <5>1
        <5> QED
          BY <3>2, <4>1, <4>2, <4>3, <5>2
      <4>4. CASE After(page) # {}
        <5> DEFINE A == After(page)
        <5>1. A \in SUBSET Nat /\ A \subseteq S
          BY <1>1 DEF After
        <5>2. First(A) \in A
          <6> HIDE DEF A
          <6> QED
            BY <4>4, <5>1, Smallest DEF First, A
        <5>3. PICK i \in S : ranges[i].type = "UC" /\ i < First(A)
          BY <5>2 DEF After, Uncached
        <5>4. First(A) \in S
          BY <5>1, <5>2
        <5>5. ranges[First(A)].type # "UC" => Exempt(page)
          BY <2>1, <2>6, <5>3, <5>4 DEF Exempt
        <5> QED
          BY <3>2, <4>1, <4>4, <5>5
      <4> QED
        BY <4>3, <4>4
    <3>4. CASE "UC" \notin T
      <4>1. After(page) = {}
        BY <2>5, <3>4 DEF After, Uncached
      <4> DEFINE t == ranges[Final(S)].type
      <4>2. GetMemoryType(page) = t /\ t \in T \ {"WB"}
        BY <2>5, <3>1, <3>2, <4>1
      <4>3. Cardinality(T) <= 1 \/ T = {"WT", "WB"}
        BY <3>4 DEF Registers, Defined
      <4> HIDE DEF t, T
      <4>4. CASE T = {"WT", "WB"}
        <5>1. EffectiveType(page) = "WT"
          BY <1>8, <2>1, <4>4 DEF EffectiveType, T
        <5> QED
          BY <4>2, <4>4, <5>1
      <4>5. CASE Cardinality(T) <= 1
        <5>1. T = {t}
          <6>1. IsFiniteSet(T) /\ Cardinality(T) # 0 /\ Cardinality(T) \in Nat
            BY <4>2, GivenFinite, FS_CardinalityType, FS_EmptySet DEF T
          <6>2. Cardinality(T) = 1
            BY <4>5, <6>1
          <6> QED
            BY <4>2, <6>1, <6>2, FS_Singleton
        <5>2. (CHOOSE x \in T : TRUE) = t
          BY <5>1
        <5>3. T # {} /\ (T = {"WT", "WB"} => t = "WT")
          BY <4>2
        <5>4. EffectiveType(page) = t
          BY <1>8, <2>1, <3>4, <5>2, <5>3 DEF EffectiveType, T
        <5> QED
          BY <4>2, <5>4
      <4> QED
        BY <4>3, <4>4, <4>5
    <3> QED
      BY <3>3, <3>4
  <2> QED
    BY <2>7, <2>8
<1> QED
  BY <1>7, <1>8

-----------------------------------------------------------------------------
(* Regions.                                                                *)

\* A range that covers a page of a region that can be one large page covers them all.
LEMMA LargePageFacts ==
  ASSUME Registers, Described, NEW r \in RegionNumbers, IsValidForLargePage(r),
         NEW page \in PagesOf(r)
  PROVE  GetMemoryType(page) = GetMemoryType(FirstPage(r))
<1> DEFINE first == FirstPage(r)
           last == LastPage(r)
<1>1. first \in Nat /\ last \in Nat /\ page \in Nat /\ first <= page /\ page <= last
  BY PageFacts DEF PagesOf
<1>2. ASSUME NEW i \in DOMAIN ranges
      PROVE  i \in Covering(page) <=> i \in Covering(first)
  <2>1. /\ ~(first <= ranges[i].last /\ last > ranges[i].last)
        /\ ~(first < ranges[i].base /\ last >= ranges[i].base)
    BY DEF IsValidForLargePage
  <2>2. ranges[i].base \in Int /\ ranges[i].last \in Int
    BY RangeTypes
  <2> HIDE DEF first, last
  <2>3. ranges[i].base <= page /\ page <= ranges[i].last
        <=> ranges[i].base <= first /\ first <= ranges[i].last
    BY <1>1, <2>1, <2>2
  <2> QED
    BY <2>3 DEF Covering
<1>3. Covering(page) = Covering(first)
  BY <1>2 DEF Covering
<1> HIDE DEF first
<1>4. GetMemoryType(page) = GetMemoryType(first)
  BY <1>3 DEF GetMemoryType, After, Uncached
<1> QED
  BY <1>4 DEF first

\* Multiples of a number are as far apart as it is large.
LEMMA NoMultipleBetween ==
  ASSUME NEW p \in Nat \ {0}, NEW r \in Nat, NEW x \in Nat, r * p < x, x < r * p + p
  PROVE  x % p # 0
<1> SUFFICES ASSUME x % p = 0
             PROVE  FALSE
  OBVIOUS
<1>a. x \div p \in Int /\ x = p * (x \div p) + (x % p)
  OBVIOUS
<1>b. x = p * (x \div p)
  BY <1>a, x % p = 0
<1>1. PICK q \in Int : x = p * q
  BY <1>a, <1>b, Zenon
<1>2. q >= r + 1 \/ q <= r
  BY <1>1
<1>3. CASE q >= r + 1
  <2>1. PICK d \in Nat : q = r + 1 + d
    BY <1>1, <1>3
  <2>2. p * q = r * p + p + p * d /\ p * d \in Nat
    BY <2>1
  <2> QED
    BY <1>1, <2>2
<1>4. CASE q <= r
  <2>1. PICK d \in Nat : r = q + d
    BY <1>1, <1>4
  <2>2. r * p = p * q + p * d /\ p * d \in Nat
    BY <2>1
  <2> QED
    BY <1>1, <2>2
<1> QED
  BY <1>2, <1>3, <1>4

\* A region that needs a table and is not the first has a variable range that is not
\* aligned to regions: the fixed ranges are all in the first.
Unaligned ==
    \E v \in 1 .. VariableCount :
        /\ variable[v] # None
        /\ variable[v].base % PagesPerRegion # 0
           \/ (variable[v].base + variable[v].size) % PagesPerRegion # 0

LEMMA UnalignedFacts ==
  ASSUME Registers, Described, NEW r \in RegionNumbers \ {0}, ~IsValidForLargePage(r)
  PROVE  Unaligned
<1> DEFINE F == Len(fixed)
           C == Cardinality(KeptRegisters)
           p == PagesPerRegion
           V(n) == variable[KeptAt(n)]
<1>1. PICK i \in DOMAIN ranges :
        \/ FirstPage(r) <= ranges[i].last /\ LastPage(r) > ranges[i].last
        \/ FirstPage(r) < ranges[i].base /\ LastPage(r) >= ranges[i].base
  BY DEF IsValidForLargePage
<1>2. /\ p \in Nat \ {0} /\ r \in Nat /\ r * p \in Nat
      /\ FirstPage(r) = r * p /\ LastPage(r) = r * p + p - 1
  BY MemoryAssumption DEF FirstPage, LastPage, RegionNumbers
<1>3. r * p >= p
  <2>1. PICK d \in Nat : r = d + 1
    BY <1>2
  <2>2. r * p = d * p + p /\ d * p \in Nat
    BY <1>2, <2>1
  <2> QED
    BY <1>2, <2>2
<1>4. F \in Nat /\ C \in Nat /\ F <= p /\ DOMAIN ranges = 1 .. (F + C)
  BY FixedFacts, KeptFacts, DescriptorFacts
<1>5. ~(i \in 1 .. F)
  <2> SUFFICES ASSUME i \in 1 .. F
               PROVE  FALSE
    OBVIOUS
  <2>1. ranges[i].base = i - 1 /\ ranges[i].last = i - 1 + 1 - 1
    BY DescriptorFacts
  <2> HIDE DEF F, C, p
  <2> QED
    BY <1>1, <1>2, <1>3, <1>4, <2>1
<1>6. PICK n \in 1 .. C : i = F + n
  <2>1. i - F \in 1 .. C /\ i = F + (i - F)
    BY <1>1, <1>4, <1>5
  <2> QED
    BY <2>1
<1>7. KeptAt(n) \in 1 .. VariableCount /\ V(n) # None
  BY KeptFacts, VariableFacts DEF KeptRegisters, Kept
<1>8. V(n).base \in Nat /\ V(n).size \in Nat \ {0}
  BY <1>7, VariableFacts
<1>9. ranges[i].base = V(n).base /\ ranges[i].last = V(n).base + V(n).size - 1
  BY <1>6, DescriptorFacts
<1> HIDE DEF F, C, p, V
<1>10. \/ r * p < V(n).base + V(n).size /\ V(n).base + V(n).size < r * p + p
       \/ r * p < V(n).base /\ V(n).base < r * p + p
  BY <1>1, <1>2, <1>8, <1>9
<1>11. V(n).base % p # 0 \/ (V(n).base + V(n).size) % p # 0
  <2>1. V(n).base + V(n).size \in Nat
    BY <1>8
  <2> QED
    BY <1>2, <1>8, <1>10, <2>1, NoMultipleBetween
<1> QED
  BY <1>7, <1>11 DEF Unaligned, V, p

-----------------------------------------------------------------------------
(* The constructor.                                                        *)

\* The pages of a region that is set up have the types that the descriptors say.
SetUp(r) ==
    \A page \in PagesOf(r) :
        \/ table[r][page] = GetMemoryType(page)
        \/ r = 0 /\ r \in large /\ table[r][page] = "UC"

Inv ==
    /\ Registers
    /\ next \in 0 .. Regions
    /\ table = [r \in RegionNumbers |-> table[r]]
    /\ pc \in {"list", "features", "map", "allocate"} => next = 0
    /\ pc \in {"allocate", "fill", "built"} => Described
    /\ pc = "fill" => large = RegionNumbers
    /\ pc \in {"fill", "built"} => \A r \in RegionNumbers : r < next => SetUp(r)
    /\ pc = "built" => next = Regions
    /\ pc = "refused" => memory = {}
    /\ pc = "raised" => Unaligned

LEMMA InitInv == Init => Inv
<1> SUFFICES ASSUME Init
             PROVE  Inv
  OBVIOUS
<1>1. 0 \in 0 .. Regions
  BY MemoryAssumption
<1> QED
  BY <1>1 DEF Init, Inv, Registers

LEMMA SameRegisters ==
  ASSUME UNCHANGED mtrrs
  PROVE  /\ Registers' <=> Registers
         /\ Unaligned' <=> Unaligned
         /\ UNCHANGED ranges => (Described' <=> Described)
         /\ UNCHANGED ranges => \A page : GetMemoryType(page)' = GetMemoryType(page)
<1>1. UNCHANGED default /\ UNCHANGED fixed /\ UNCHANGED variable
  BY DEF mtrrs
<1>2. Registers' <=> Registers
  BY <1>1 DEF Registers, Defined, TypesGiven
<1>3. Unaligned' <=> Unaligned
  BY <1>1 DEF Unaligned
<1>4. ASSUME UNCHANGED ranges
      PROVE  Described' <=> Described
  BY <1>1, <1>4 DEF Described, FixedRanges, VariableDescriptors, KeptAt, KeptRegisters
<1>5. ASSUME UNCHANGED ranges, NEW page
      PROVE  GetMemoryType(page)' = GetMemoryType(page)
  BY <1>1, <1>5 DEF GetMemoryType, After, Uncached, Covering
<1> QED
  BY <1>2, <1>3, <1>4, <1>5

\* The steps before the table is filled, and those that end in a refusal.
LEMMA EarlySteps ==
  ASSUME Inv, AllocateList \/ CheckFeatures \/ BuildMtrrMap
              \/ AllocateAndCreateIdentityPageTable
  PROVE  Inv'
<1>1. UNCHANGED mtrrs /\ UNCHANGED next /\ UNCHANGED table /\ next = 0
  BY DEF AllocateList, CheckFeatures, BuildMtrrMap, AllocateAndCreateIdentityPageTable, Inv
<1>2. Registers' /\ next' \in 0 .. Regions /\ next' = 0
      /\ table' = [r \in RegionNumbers |-> table'[r]]
  BY <1>1, SameRegisters DEF Inv
<1>3. \A r \in RegionNumbers : ~(r < next')
  BY <1>2 DEF RegionNumbers
<1>4. CASE Raise
  BY <1>2, <1>4 DEF Inv, Raise
<1>5. CASE (AllocateList \/ CheckFeatures) /\ ~Raise
  BY <1>2, <1>5 DEF Inv, AllocateList, CheckFeatures
<1>6. CASE BuildMtrrMap
  <2>1. Described'
    <3>1. UNCHANGED default /\ UNCHANGED fixed /\ UNCHANGED variable
      BY <1>1 DEF mtrrs
    <3>2. ranges' = FixedRanges \o VariableDescriptors
      BY <1>6 DEF BuildMtrrMap
    <3> QED
      BY <3>1, <3>2 DEF Described, FixedRanges, VariableDescriptors, KeptAt, KeptRegisters
  <2> QED
    BY <1>2, <1>6, <2>1 DEF Inv, BuildMtrrMap
<1>7. CASE AllocateAndCreateIdentityPageTable /\ ~Raise
  <2>1. pc' = "fill" /\ large' = RegionNumbers /\ pc = "allocate" /\ UNCHANGED ranges
    BY <1>7 DEF AllocateAndCreateIdentityPageTable
  <2>2. Described'
    BY <1>1, <2>1, SameRegisters DEF Inv
  <2> QED
    BY <1>2, <1>3, <2>1, <2>2 DEF Inv
<1> QED
  BY <1>4, <1>5, <1>6, <1>7

LEMMA SetupStep ==
  ASSUME Inv, SetupPML2Entry
  PROVE  Inv'
<1> DEFINE type == IF IsValidForLargePage(next) THEN GetMemoryType(FirstPage(next)) ELSE "UC"
<1>1. /\ pc = "fill" /\ next \in RegionNumbers /\ (IsValidForLargePage(next) \/ next = 0)
      /\ table' = [table EXCEPT ![next] = [page \in PagesOf(next) |-> type]]
      /\ next' = next + 1
      /\ UNCHANGED mtrrs /\ UNCHANGED pc /\ UNCHANGED ranges /\ UNCHANGED large
  BY DEF SetupPML2Entry, OneType
<1>2. Registers /\ Described /\ large = RegionNumbers
      /\ table = [r \in RegionNumbers |-> table[r]]
      /\ \A r \in RegionNumbers : r < next => SetUp(r)
  BY <1>1 DEF Inv
<1>3. next' \in 0 .. Regions /\ next \in Nat
  BY <1>1, MemoryAssumption DEF RegionNumbers
<1> HIDE DEF type
<1>4. /\ table'[next] = [page \in PagesOf(next) |-> type]
      /\ \A r \in RegionNumbers \ {next} : table'[r] = table[r]
      /\ table' = [r \in RegionNumbers |-> table'[r]]
  BY <1>1, <1>2
<1>5. \A page : GetMemoryType(page)' = GetMemoryType(page)
  BY <1>1, SameRegisters
<1>6. ASSUME NEW r \in RegionNumbers, r < next'
      PROVE  SetUp(r)'
  <2>1. CASE r = next
    <3> SUFFICES ASSUME NEW page \in PagesOf(r)
                 PROVE  \/ table'[r][page] = GetMemoryType(page)'
                        \/ r = 0 /\ r \in large' /\ table'[r][page] = "UC"
      BY DEF SetUp
    <3>1. table'[r][page] = type
      BY <1>4, <2>1
    <3>2. CASE IsValidForLargePage(next)
      <4>1. GetMemoryType(page) = GetMemoryType(FirstPage(next))
        BY <1>1, <1>2, <2>1, <3>2, LargePageFacts
      <4> QED
        BY <1>5, <3>1, <3>2, <4>1 DEF type
    <3>3. CASE ~IsValidForLargePage(next)
      BY <1>1, <1>2, <2>1, <3>1, <3>3 DEF type
    <3> QED
      BY <3>2, <3>3
  <2>2. CASE r # next
    <3>1. r < next
      BY <1>1, <1>3, <1>6, <2>2 DEF RegionNumbers
    <3>2. table'[r] = table[r] /\ SetUp(r)
      BY <1>2, <1>4, <2>2, <3>1
    <3> QED
      BY <1>1, <1>5, <3>2 DEF SetUp
  <2> QED
    BY <2>1, <2>2
<1>7. Registers' /\ Described'
  BY <1>1, <1>2, SameRegisters
<1> QED
  BY <1>1, <1>2, <1>3, <1>4, <1>6, <1>7 DEF Inv

LEMMA SplitSteps ==
  ASSUME Inv, SetupWithSplit \/ LogicalProcessorInitialize
              \/ \E r \in RegionNumbers : SplitLargePage(r)
  PROVE  Inv'
<1>1. UNCHANGED mtrrs /\ UNCHANGED ranges /\ UNCHANGED next /\ pc \in {"fill", "built"}
  BY DEF SetupWithSplit, LogicalProcessorInitialize, SplitLargePage
<1>2. Registers /\ Described /\ Registers' /\ Described' /\ next' \in 0 .. Regions
      /\ \A r \in RegionNumbers : r < next => SetUp(r)
      /\ \A page : GetMemoryType(page)' = GetMemoryType(page)
  BY <1>1, SameRegisters DEF Inv
<1>3. CASE SetupWithSplit
  <2>1. Unaligned
    BY <1>2, <1>3, UnalignedFacts DEF SetupWithSplit
  <2>2. Unaligned' /\ table' = [r \in RegionNumbers |-> table'[r]]
    BY <1>1, <1>3, <2>1, SameRegisters DEF SetupWithSplit, Inv
  <2> QED
    BY <1>2, <1>3, <2>2 DEF SetupWithSplit, Raise, Inv
<1>4. CASE LogicalProcessorInitialize
  <2>1. UNCHANGED table /\ UNCHANGED large
    BY <1>4 DEF LogicalProcessorInitialize
  <2>2. ASSUME NEW r \in RegionNumbers, r < next
        PROVE  SetUp(r)'
    <3> SUFFICES ASSUME NEW page \in PagesOf(r)
                 PROVE  \/ table'[r][page] = GetMemoryType(page)'
                        \/ r = 0 /\ r \in large' /\ table'[r][page] = "UC"
      BY DEF SetUp
    <3>1. SetUp(r) /\ GetMemoryType(page)' = GetMemoryType(page)
      BY <1>2, <2>2
    <3> QED
      BY <2>1, <3>1 DEF SetUp
  <2> QED
    BY <1>2, <1>4, <2>2 DEF LogicalProcessorInitialize, Inv
<1>5. ASSUME NEW s \in RegionNumbers, SplitLargePage(s)
      PROVE  Inv'
  <2>1. /\ pc = "built" /\ UNCHANGED pc
        /\ table' = [table EXCEPT ![s] = [page \in PagesOf(s) |-> GetMemoryType(page)]]
        /\ large' = large \ {s}
    BY <1>5 DEF SplitLargePage
  <2>2. /\ table'[s] = [page \in PagesOf(s) |-> GetMemoryType(page)]
        /\ \A r \in RegionNumbers \ {s} : table'[r] = table[r]
        /\ table' = [r \in RegionNumbers |-> table'[r]]
    BY <2>1 DEF Inv
  <2>3. ASSUME NEW r \in RegionNumbers, r < next
        PROVE  SetUp(r)'
    <3> SUFFICES ASSUME NEW page \in PagesOf(r)
                 PROVE  \/ table'[r][page] = GetMemoryType(page)'
                        \/ r = 0 /\ r \in large' /\ table'[r][page] = "UC"
      BY DEF SetUp
    <3>0. GetMemoryType(page)' = GetMemoryType(page)
      BY <1>1, SameRegisters
    <3>1. CASE r = s
      <4>1. table'[r][page] = GetMemoryType(page)
        BY <2>2, <3>1
      <4> QED
        BY <3>0, <4>1
    <3>2. CASE r # s
      <4>1. SetUp(r)
        BY <1>2, <2>1, <2>3
      <4>2. table'[r] = table[r]
        BY <2>2, <3>2
      <4>3. r \in large => r \in large'
        BY <2>1, <3>2
      <4>4. \/ table[r][page] = GetMemoryType(page)
            \/ r = 0 /\ r \in large /\ table[r][page] = "UC"
        BY <4>1 DEF SetUp
      <4> QED
        BY <3>0, <4>2, <4>3, <4>4
    <3> QED
      BY <3>1, <3>2
  <2> QED
    BY <1>1, <1>2, <2>1, <2>2, <2>3 DEF Inv
<1> QED
  BY <1>3, <1>4, <1>5

LEMMA InvStep == Inv /\ [Next]_vars => Inv'
<1> SUFFICES ASSUME Inv, [Next]_vars
             PROVE  Inv'
  OBVIOUS
<1>1. CASE UNCHANGED vars
  <2>1. UNCHANGED mtrrs /\ UNCHANGED ranges
        /\ UNCHANGED <<pc, next, table, large, memory>>
    BY <1>1 DEF vars
  <2>2. /\ Registers' <=> Registers
        /\ Unaligned' <=> Unaligned
        /\ Described' <=> Described
        /\ \A page : GetMemoryType(page)' = GetMemoryType(page)
    BY <2>1, SameRegisters
  <2>3. \A r : SetUp(r)' <=> SetUp(r)
    BY <2>1, <2>2 DEF SetUp
  <2> QED
    BY <2>1, <2>2, <2>3 DEF Inv
<1> QED
  BY <1>1, EarlySteps, SetupStep, SplitSteps DEF Next

\* Whatever the MTRRs of a processor say, a page table that is built has the types they
\* give, but for Exempt and a large page 0, a refusal leaves nothing behind, and an
\* exception needs a range that is not aligned to regions (Ept.cpp:5-33, 104-180,
\* 243-393, 750-784, 831-844).
THEOREM PagesHaveTheirTypes == Spec => []ConstructorOutcome
<1>1. Inv => ConstructorOutcome
  <2> SUFFICES ASSUME Inv
               PROVE  ConstructorOutcome
    OBVIOUS
  <2>1. ASSUME pc = "built", NEW r \in RegionNumbers, NEW page \in Pages, page \in PagesOf(r)
        PROVE  \/ RightType(page, r)
               \/ r = 0 /\ r \in large /\ table[r][page] = "UC"
    <3>1. r < next
      BY <2>1, MemoryAssumption DEF Inv, RegionNumbers
    <3>2. SetUp(r) /\ Registers /\ Described
      BY <2>1, <3>1 DEF Inv
    <3>3. GetMemoryType(page) = EffectiveType(page) \/ Exempt(page)
      BY <3>2, TypeOfPage
    <3> QED
      BY <2>1, <3>2, <3>3 DEF SetUp, RightType
  <2> QED
    BY <2>1 DEF ConstructorOutcome, Inv, Unaligned
<1> QED
  BY InitInv, InvStep, <1>1, PTL DEF Spec
=============================================================================
