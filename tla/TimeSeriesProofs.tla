-------------------------- MODULE TimeSeriesProofs --------------------------
(***************************************************************************)
(* Proofs about AvxMath, for every number of lanes and every length: a     *)
(* kernel uses every element of its arrays once, and a misaligned access   *)
(* is one to an array that was passed misaligned.  Then about TimeSeries,  *)
(* for every capacity and any prices: the ring is a window over the last   *)
(* ones, and both means are its mean.                                      *)
(***************************************************************************)
EXTENDS TimeSeries, FiniteSetTheorems, SequenceTheorems, TLAPS

-----------------------------------------------------------------------------
(* Multiples.                                                              *)

\* A number without remainder is a multiple.
LEMMA IsMultiple ==
  ASSUME NEW n \in Nat \ {0}, NEW a \in Nat, a % n = 0
  PROVE  \E k \in Nat : a = k * n
  BY SMT

\* A multiple has no remainder.
LEMMA MultipleHasNoRest ==
  ASSUME NEW n \in Nat \ {0}, NEW k \in Nat
  PROVE  (k * n) % n = 0
  BY SMT

\* A sum of multiples is a multiple.
LEMMA Distributes ==
  ASSUME NEW n \in Nat, NEW j \in Nat, NEW k \in Nat
  PROVE  j * n + k * n = (j + k) * n
  BY SMT

\* The remainder of a sum of multiples: a register is a multiple of Lanes
\* from an aligned base, and so is the next one.
LEMMA SumOfMultiples ==
  ASSUME NEW n \in Nat \ {0}, NEW a \in Nat, NEW b \in Nat,
         a % n = 0, b % n = 0
  PROVE  (a + b) % n = 0
<1>1. PICK j \in Nat : a = j * n  BY IsMultiple
<1>2. PICK k \in Nat : b = k * n  BY IsMultiple
<1>3. a + b = (j + k) * n  BY <1>1, <1>2, Distributes
<1>4. j + k \in Nat  OBVIOUS
<1> QED  BY <1>3, <1>4, MultipleHasNoRest

\* What has to be added to a multiple to get a multiple is one.
LEMMA DifferenceOfMultiples ==
  ASSUME NEW n \in Nat \ {0}, NEW a \in Nat, NEW b \in Nat,
         (a + b) % n = 0, b % n = 0
  PROVE  a % n = 0
<1>1. PICK j \in Nat : a + b = j * n
  <2>1. a + b \in Nat  OBVIOUS
  <2> QED  BY <2>1, IsMultiple
<1>2. PICK k \in Nat : b = k * n  BY IsMultiple
<1>3. a = (j - k) * n
  <2>1. j * n - k * n = (j - k) * n  BY SMT
  <2> QED  BY <1>1, <1>2, <2>1
<1>4. j - k \in Nat
  <2>1. j \in Int /\ k \in Int /\ j - k \in Int  OBVIOUS
  <2>2. ASSUME j - k < 0  PROVE FALSE
    <3>1. (k - j) * n >= n  BY <2>1, <2>2, SMT
    <3>2. (j - k) * n = -((k - j) * n)  BY <2>1, SMT
    <3> QED  BY <1>3, <3>1, <3>2
  <2> QED  BY <2>1, <2>2
<1> QED  BY <1>3, <1>4, MultipleHasNoRest

-----------------------------------------------------------------------------
(* The inductive invariant: what a kernel has gathered so far is exactly   *)
(* the elements before i, each in one accumulator.                         *)

\* The accumulators of a reduction share no element.
Disjoint == \A k, l \in Registers : k # l => lanes[k] \cap lanes[l] = {}

Gathered == /\ kernel.reduces => /\ HorizontalSum = 0 .. i - 1
                                 /\ Disjoint
                                 /\ total = {}
            /\ ~kernel.reduces => total = 0 .. i - 1

\* Arrays that an aligned kernel was given, other than the one that the caller
\* of calculate_zscores_avx passed, begin at multiples of a register.
WellPlaced ==
  /\ site = "calculate_zscores_avx" => kernel.aligned
  /\ kernel.aligned => \A a \in reads : a % Lanes = 0
  /\ kernel.aligned /\ site # "calculate_zscores_avx"
       => \A a \in writes : a % Lanes = 0

IndInv ==
  /\ TypeOK
  /\ WellPlaced
  /\ twice = {}
  /\ pc = "fault" => PassedMisaligned
  /\ pc = "enter" => i = 0 /\ lanes = [l \in Registers |-> {}] /\ total = {}
  /\ pc = "chunks" => i % Lanes = 0 /\ Gathered
  /\ pc = "tail" => total = 0 .. i - 1
  /\ pc = "done" => total = 0 .. size - 1

\* A kernel is called with nothing gathered.
THEOREM Initially == Init => IndInv
<1> SUFFICES ASSUME Init  PROVE IndInv
  OBVIOUS
<1> USE LanesAssumption
<1>1. PICK start \in 0 .. MaxSize - size :
        /\ site # "SectorNeutralSignal" => start = 0
        /\ \E a, b \in PlacesAt(start, size) : reads = {a, b}
        /\ \/ kernel.reduces /\ writes = {}
           \/ ~kernel.reduces /\ \E a \in WrittenAt(start) : writes = {a}
  BY DEF Init
<1>2. start \in Nat /\ size \in 0 .. MaxSize
  <2>1. size \in 0 .. MaxSize  BY DEF Init
  <2> QED  BY <2>1
<1>3. \A a \in allocate(start + size) : a \in Nat /\ a % Lanes = 0
  BY DEF allocate, Addresses
<1>4. \A a \in PlacesAt(start, size) : a \in Nat /\ (start = 0 => a % Lanes = 0)
  BY <1>2, <1>3 DEF PlacesAt
<1>5. \A a \in WrittenAt(start) :
        /\ a \in Nat
        /\ start = 0 /\ site # "calculate_zscores_avx" => a % Lanes = 0
  BY <1>4 DEF WrittenAt, Addresses
<1>6. reads \in SUBSET Nat /\ writes \in SUBSET Nat
  BY <1>1, <1>4, <1>5
<1>7. WellPlaced
  <2>1. site = "calculate_zscores_avx" => kernel.aligned
    BY DEF Init, CallAligned
  <2>2. kernel.aligned => start = 0
    BY <1>1 DEF Init, CallAligned
  <2> QED  BY <1>1, <1>4, <1>5, <2>1, <2>2 DEF WellPlaced
<1>8. TypeOK
  <2>1. site \in Sites /\ kernel \in Kernels
    BY DEF Init
  <2>2. /\ i = 0 /\ pc = "enter"
        /\ lanes = [l \in Registers |-> {}] /\ total = {} /\ twice = {}
    BY DEF Init
  <2>3. i \in 0 .. size
    BY <1>2, <2>2
  <2> QED  BY <1>2, <1>6, <2>1, <2>2, <2>3 DEF TypeOK
<1> QED  BY <1>7, <1>8 DEF Init, IndInv

\* A register added to the accumulators: they gather one register more.
LEMMA ChunkGathered ==
  ASSUME IndInv, ReduceChunk
  PROVE  /\ HorizontalSum' = 0 .. i' - 1
         /\ Disjoint'
         /\ twice' = {}
<1> USE LanesAssumption
<1>1. /\ i \in Nat /\ Lanes \in Nat \ {0}
      /\ lanes \in [Registers -> SUBSET Nat]
      /\ HorizontalSum = 0 .. i - 1 /\ Disjoint /\ twice = {}
  BY DEF IndInv, TypeOK, ReduceChunk, Gathered
<1>2. /\ i' = i + Lanes
      /\ lanes' = [l \in Registers |-> lanes[l] \cup {i + l}]
      /\ twice' = twice \cup {j \in Chunk : j \in lanes[j - i]}
  BY DEF ReduceChunk, NextChunk
<1>3. \A l \in Registers : lanes[l] \subseteq 0 .. i - 1
  BY <1>1 DEF HorizontalSum
<1>4. HorizontalSum' = 0 .. i' - 1
  <2>1. ASSUME NEW l \in Registers, NEW j \in lanes'[l]
        PROVE  j \in 0 .. i' - 1
    BY <2>1, <1>1, <1>2, <1>3 DEF Registers
  <2>2. ASSUME NEW j \in 0 .. i' - 1
        PROVE  \E l \in Registers : j \in lanes'[l]
    <3>1. CASE j < i
      <4>1. PICK l \in Registers : j \in lanes[l]
        BY <2>2, <3>1, <1>1 DEF HorizontalSum
      <4> QED  BY <4>1, <1>2
    <3>2. CASE j >= i
      <4>1. j - i \in Registers /\ i + (j - i) = j
        BY <2>2, <3>2, <1>1, <1>2 DEF Registers
      <4> QED  BY <4>1, <1>2
    <3> QED  BY <2>2, <3>1, <3>2, <1>1, <1>2
  <2> QED  BY <2>1, <2>2 DEF HorizontalSum
<1>5. Disjoint'
  <2> SUFFICES ASSUME NEW k \in Registers, NEW l \in Registers, k # l,
                      NEW j \in lanes'[k], j \in lanes'[l]
               PROVE  FALSE
    BY DEF Disjoint
  <2>1. k \in Nat /\ l \in Nat  BY <1>1 DEF Registers
  <2>2. j \in lanes[k] \/ j = i + k  BY <1>2
  <2>3. j \in lanes[l] \/ j = i + l  BY <1>2
  <2>4. ~(j \in lanes[k] /\ j \in lanes[l])  BY <1>1 DEF Disjoint
  <2> QED  BY <2>1, <2>2, <2>3, <2>4, <1>1, <1>3
<1>6. twice' = {}
  <2>1. ASSUME NEW j \in Chunk  PROVE j \notin lanes[j - i]
    <3>1. j >= i /\ j \in Int /\ j - i \in Registers
      BY <1>1 DEF Chunk, Registers
    <3> QED  BY <3>1, <1>1, <1>3
  <2> QED  BY <2>1, <1>1, <1>2
<1> QED  BY <1>4, <1>5, <1>6

\* In a chunk of an aligned kernel an access is misaligned as its array is:
\* registers lie at multiples of a register from the beginning of the array.
LEMMA ChunksAligned == IndInv => FaultsAtPassedArrayOnly
<1> SUFFICES ASSUME IndInv, pc = "chunks"
             PROVE  Misaligned <=> PassedMisaligned
  BY DEF FaultsAtPassedArrayOnly, IndInv
<1>1. /\ i \in Nat /\ i % Lanes = 0 /\ Lanes \in Nat \ {0}
      /\ reads \in SUBSET Nat /\ writes \in SUBSET Nat
  BY LanesAssumption DEF IndInv, TypeOK
<1>2. \A a \in reads \cup writes : (a + i) % Lanes = 0 <=> a % Lanes = 0
  BY <1>1, SumOfMultiples, DifferenceOfMultiples
<1>3. WellPlaced
  BY DEF IndInv
<1> QED  BY <1>2, <1>3 DEF Misaligned, PassedMisaligned, WellPlaced

\* Every step of a kernel keeps the invariant.
THEOREM Preserved == IndInv /\ [Next]_vars => IndInv'
<1> SUFFICES ASSUME IndInv, [Next]_vars  PROVE IndInv'
  OBVIOUS
<1> USE LanesAssumption DEF arrays, WellPlaced, PassedMisaligned
<1>0. TypeOK /\ size \in Nat /\ i \in 0 .. size /\ twice = {}
  BY DEF IndInv, TypeOK
<1>1. CASE Empty
  <2>1. total' = 0 .. size' - 1
    BY <1>0, <1>1 DEF Empty, IndInv
  <2> QED  BY <1>0, <1>1, <2>1 DEF Empty, IndInv, TypeOK
<1>2. CASE Fill
  <2>1. total' \in SUBSET Nat  BY <1>0, <1>2 DEF Fill
  <2> QED  BY <1>0, <1>2, <2>1 DEF Fill, IndInv, TypeOK
<1>3. CASE Enter
  <2>1. i = 0 /\ lanes = [l \in Registers |-> {}] /\ total = {}
    BY <1>3 DEF Enter, IndInv
  <2>2. UNCHANGED <<arrays, i, lanes, total, twice>> /\ pc' = "chunks"
    BY <1>3 DEF Enter
  <2>3. HorizontalSum = {} /\ Disjoint
    BY <2>1 DEF HorizontalSum, Disjoint
  <2>4. 0 % Lanes = 0  BY SMT
  <2>5. 0 .. i - 1 = {}  BY <2>1
  <2>6. Gathered'
    BY <2>1, <2>2, <2>3, <2>5 DEF Gathered, HorizontalSum, Disjoint
  <2> QED  BY <1>0, <2>1, <2>2, <2>4, <2>6 DEF IndInv, TypeOK
<1>4. CASE ReduceChunk
  <2>1. /\ pc = "chunks" /\ kernel.reduces /\ i + Lanes <= size
        /\ i' = i + Lanes
        /\ lanes' = [l \in Registers |-> lanes[l] \cup {i + l}]
        /\ UNCHANGED <<arrays, pc, total>>
    BY <1>4 DEF ReduceChunk, Fits, NextChunk
  <2>2. i % Lanes = 0 /\ total = {}
    BY <2>1 DEF IndInv, Gathered
  <2>3. i' % Lanes = 0
    <3>1. Lanes % Lanes = 0  BY SMT
    <3>2. i \in Nat  BY <1>0
    <3> QED  BY <2>1, <2>2, <3>1, <3>2, SumOfMultiples
  <2>4. Gathered' /\ twice' = {}
    BY <1>4, <2>1, <2>2, ChunkGathered DEF Gathered
  <2>5. lanes' \in [Registers -> SUBSET Nat]
    BY <1>0, <2>1 DEF TypeOK, Registers
  <2>6. i' \in 0 .. size'  BY <1>0, <2>1
  <2>7. TypeOK'  BY <1>0, <2>1, <2>4, <2>5, <2>6 DEF TypeOK
  <2> QED  BY <2>1, <2>3, <2>4, <2>7 DEF IndInv
<1>5. CASE MapChunk
  <2>1. /\ pc = "chunks" /\ ~kernel.reduces /\ i + Lanes <= size
        /\ i' = i + Lanes
        /\ total' = total \cup Chunk
        /\ twice' = twice \cup (total \cap Chunk)
        /\ UNCHANGED <<arrays, pc, lanes>>
    BY <1>5 DEF MapChunk, Fits, NextChunk
  <2>2. i % Lanes = 0 /\ total = 0 .. i - 1
    BY <2>1 DEF IndInv, Gathered
  <2>3. i' % Lanes = 0
    <3>1. Lanes % Lanes = 0  BY SMT
    <3>2. i \in Nat  BY <1>0
    <3> QED  BY <2>1, <2>2, <3>1, <3>2, SumOfMultiples
  <2>4. total' = 0 .. i' - 1 /\ twice' = {}
    BY <1>0, <2>1, <2>2 DEF Chunk
  <2>5. i' \in 0 .. size' /\ total' \in SUBSET Nat  BY <1>0, <2>1, <2>4
  <2>6. TypeOK'  BY <1>0, <2>1, <2>4, <2>5 DEF TypeOK
  <2> QED  BY <2>1, <2>3, <2>4, <2>6 DEF IndInv, Gathered
<1>6. CASE EndOfChunks
  <2>1. /\ pc = "chunks" /\ pc' = "tail" /\ i' = i
        /\ total' = IF kernel.reduces THEN HorizontalSum ELSE total
        /\ twice' = IF kernel.reduces THEN twice \cup Overlap ELSE twice
        /\ UNCHANGED <<arrays, lanes>>
    BY <1>6 DEF EndOfChunks, TailStart
  <2>2. Gathered  BY <2>1 DEF IndInv
  <2>3. kernel.reduces => Overlap = {}
    BY <2>2 DEF Gathered, Overlap, Disjoint
  <2>4. total' = 0 .. i' - 1 /\ twice' = {}
    BY <1>0, <2>1, <2>2, <2>3 DEF Gathered
  <2>5. total' \in SUBSET Nat  BY <1>0, <2>1, <2>4
  <2>6. TypeOK'  BY <1>0, <2>1, <2>4, <2>5 DEF TypeOK
  <2> QED  BY <2>1, <2>4, <2>6 DEF IndInv
<1>7. CASE TailElement
  <2>1. /\ pc = "tail" /\ i < size /\ i' = i + 1
        /\ total' = total \cup {i}
        /\ twice' = twice \cup (total \cap {i})
        /\ UNCHANGED <<arrays, pc, lanes>>
    BY <1>7 DEF TailElement
  <2>2. total = 0 .. i - 1  BY <2>1 DEF IndInv
  <2>3. total' = 0 .. i' - 1 /\ twice' = {}  BY <1>0, <2>1, <2>2
  <2>4. i' \in 0 .. size' /\ total' \in SUBSET Nat  BY <1>0, <2>1, <2>3
  <2>5. TypeOK'  BY <1>0, <2>1, <2>3, <2>4 DEF TypeOK
  <2> QED  BY <2>1, <2>3, <2>5 DEF IndInv
<1>8. CASE Return
  <2>1. /\ pc = "tail" /\ i >= size /\ pc' = "done"
        /\ UNCHANGED <<arrays, i, lanes, total, twice>>
    BY <1>8 DEF Return
  <2>2. total' = 0 .. size' - 1  BY <1>0, <2>1 DEF IndInv
  <2> QED  BY <1>0, <2>1, <2>2 DEF IndInv, TypeOK
<1>9. CASE Fault
  <2>1. Misaligned /\ Fits /\ pc = "chunks"
    BY <1>9 DEF Fault
  <2>2. PassedMisaligned
    BY <2>1, ChunksAligned DEF FaultsAtPassedArrayOnly
  <2> QED  BY <1>0, <1>9, <2>2 DEF Fault, IndInv, TypeOK
<1>10. CASE UNCHANGED vars
  BY <1>10 DEF vars, IndInv, TypeOK, Gathered, Disjoint, HorizontalSum
<1> QED  BY <1>1, <1>2, <1>3, <1>4, <1>5, <1>6, <1>7, <1>8, <1>9, <1>10 DEF Next

\* The invariant holds in every state of a kernel.
THEOREM Inductive == Spec => []IndInv
<1>1. Init => IndInv  BY Initially
<1>2. IndInv /\ [Next]_vars => IndInv'  BY Preserved
<1> QED  BY <1>1, <1>2, PTL DEF Spec

\* Each variable keeps its type, the index within the array: i <= size.
THEOREM TypeCorrect == Spec => []TypeOK
<1>1. IndInv => TypeOK  BY DEF IndInv
<1> QED  BY <1>1, Inductive, PTL

\* For every number of lanes and every length, a kernel has used each element
\* of its arrays once when it returns, and nothing beyond them.
THEOREM EveryElementOnce == Spec => []EachElementOnce
<1>1. IndInv => EachElementOnce  BY DEF IndInv, EachElementOnce
<1> QED  BY <1>1, Inductive, PTL

\* For every number of lanes and every length, the kernels access registers at
\* aligned addresses at every site, wherever a sector begins, but for the one
\* array that calculate_zscores_avx is passed; and a misaligned one they meet
\* misaligned in every chunk.
THEOREM MisalignedOnlyAsPassed == Spec => []FaultsAtPassedArrayOnly
BY ChunksAligned, Inductive, PTL

-----------------------------------------------------------------------------
(* Sums over sets, whose elements are added up in an order not known.      *)

\* A nonempty set of natural numbers has a least member.
LEMMA LeastNatural ==
  ASSUME NEW T, T \subseteq Nat, T # {}
  PROVE  \E m \in T : \A k \in T : m <= k
<1> DEFINE R == {ss \in Nat \X Nat : ss[1] < ss[2]}
<1>1. IsWellFoundedOn(R, Nat)
  BY NatLessThanWellFounded, Zenon DEF OpToRel
<1> HIDE DEF R
<1>2. PICK x \in T : \A y \in T : ~(<<y, x>> \in R)
  BY <1>1, WFMin
<1>3. ASSUME NEW k \in T PROVE x <= k
  <2>1. x \in Nat /\ k \in Nat /\ ~(<<k, x>> \in R)
    BY <1>2
  <2>2. ~(k < x)
    BY <2>1 DEF R
  <2> QED BY <2>1, <2>2
<1> QED BY <1>3

-----------------------------------------------------------------------------
\* The sum of the values of a function over a set, as the fold of the
\* community modules computes it, in the order of Chosen.
Total(f, S) == MapThenSumSet(LAMBDA x : f[x], S)

Chosen(s) == CHOOSE x \in s : TRUE

\* g sums f over the subsets of S.
Sums(g, f, S) ==
  g = [s \in SUBSET S |-> IF s = {} THEN 0
                          ELSE f[Chosen(s)] + g[s \ {Chosen(s)}]]

\* What is chosen from a set is in it, and leaves a smaller one.
LEMMA ChosenIn ==
  ASSUME NEW s, s # {}, IsFiniteSet(s)
  PROVE  /\ Chosen(s) \in s
         /\ IsFiniteSet(s \ {Chosen(s)})
         /\ Cardinality(s) \in Nat
         /\ Cardinality(s \ {Chosen(s)}) = Cardinality(s) - 1
         /\ Cardinality(s) - 1 \in Nat
<1>1. Chosen(s) \in s
  BY DEF Chosen
<1>2. /\ IsFiniteSet(s \ {Chosen(s)})
      /\ Cardinality(s \ {Chosen(s)}) = Cardinality(s) - 1
      /\ Cardinality(s) \in Nat /\ Cardinality(s \ {Chosen(s)}) \in Nat
  BY <1>1, FS_RemoveElement, FS_CardinalityType
<1> QED BY <1>1, <1>2

\* There is a function that sums over the subsets of up to n elements.
SumsUpTo(g, f, S, n) ==
  \A s \in SUBSET S : Cardinality(s) <= n =>
    g[s] = IF s = {} THEN 0 ELSE f[Chosen(s)] + g[s \ {Chosen(s)}]

\* It exists for every n: no n is the least for which it does not.
LEMMA SumsUpToExist ==
  ASSUME NEW f, NEW S, IsFiniteSet(S)
  PROVE  \A n \in Nat : \E g : SumsUpTo(g, f, S, n)
<1> DEFINE T == {n \in Nat : ~\E g : SumsUpTo(g, f, S, n)}
<1> SUFFICES ASSUME T # {} PROVE FALSE
  OBVIOUS
<1>1. PICK m \in T : \A k \in T : m <= k
  BY LeastNatural
<1>2. m \in Nat /\ \A g : ~SumsUpTo(g, f, S, m)
  OBVIOUS
<1>3. \A s \in SUBSET S : IsFiniteSet(s) /\ Cardinality(s) \in Nat
  BY FS_Subset, FS_CardinalityType
<1>4. CASE m = 0
  <2> DEFINE g == [s \in SUBSET S |-> 0]
  <2>1. SumsUpTo(g, f, S, 0)
    <3> SUFFICES ASSUME NEW s \in SUBSET S, Cardinality(s) <= 0
                 PROVE  g[s] = IF s = {} THEN 0 ELSE f[Chosen(s)] + g[s \ {Chosen(s)}]
      BY DEF SumsUpTo
    <3>1. s = {}
      BY <1>3, FS_EmptySet
    <3> QED BY <3>1
  <2> QED BY <1>2, <1>4, <2>1
<1>5. CASE m # 0
  <2>1. m - 1 \in Nat /\ m - 1 \notin T
    BY <1>1, <1>2, <1>5
  <2>2. PICK g : SumsUpTo(g, f, S, m - 1)
    BY <2>1
  <2> DEFINE h == [s \in SUBSET S |->
                     IF s # {} /\ Cardinality(s) = m THEN f[Chosen(s)] + g[s \ {Chosen(s)}]
                                                     ELSE g[s]]
  <2> HIDE DEF T
  <2>3. SumsUpTo(h, f, S, m)
    <3> SUFFICES ASSUME NEW s \in SUBSET S, Cardinality(s) <= m
                 PROVE  h[s] = IF s = {} THEN 0 ELSE f[Chosen(s)] + h[s \ {Chosen(s)}]
      BY DEF SumsUpTo
    <3>1. CASE s = {}
      <4>1. Cardinality(s) <= m - 1
        BY <2>1, <3>1, FS_EmptySet
      <4> QED BY <2>2, <3>1, <4>1 DEF SumsUpTo
    <3>2. CASE s # {}
      <4> DEFINE r == s \ {Chosen(s)}
      <4>1. Cardinality(r) = Cardinality(s) - 1 /\ r \in SUBSET S
        BY <1>3, <3>2, ChosenIn
      <4>2. Cardinality(r) # m
        BY <1>2, <1>3, <4>1
      <4>3. h[r] = g[r]
        BY <4>1, <4>2
      <4>4. CASE Cardinality(s) = m
        BY <3>2, <4>3, <4>4
      <4>5. CASE Cardinality(s) # m
        <5>1. Cardinality(s) <= m - 1
          BY <1>2, <1>3, <4>5
        <5>2. g[s] = f[Chosen(s)] + g[r]
          BY <2>2, <3>2, <5>1 DEF SumsUpTo
        <5> QED BY <3>2, <4>3, <4>5, <5>2
      <4> QED BY <4>4, <4>5
    <3> QED BY <3>1, <3>2
  <2> QED BY <1>2, <2>3
<1> QED BY <1>4, <1>5

\* The fold of MapThenSumSet is one that sums over every subset.
LEMMA TotalIsSum ==
  ASSUME NEW f, NEW S, IsFiniteSet(S)
  PROVE  \E g : Sums(g, f, S) /\ Total(f, S) = g[S]
<1>1. \E g : Sums(g, f, S)
  <2>1. PICK h : SumsUpTo(h, f, S, Cardinality(S))
    BY SumsUpToExist, FS_CardinalityType
  <2> DEFINE g == [s \in SUBSET S |-> h[s]]
  <2>2. \A s \in SUBSET S : h[s] = IF s = {} THEN 0 ELSE f[Chosen(s)] + h[s \ {Chosen(s)}]
    BY <2>1, FS_Subset DEF SumsUpTo
  <2>3. \A s \in SUBSET S : s \ {Chosen(s)} \in SUBSET S
    OBVIOUS
  <2>4. Sums(g, f, S)
    BY <2>2, <2>3 DEF Sums
  <2> QED BY <2>4
<1> DEFINE it == CHOOSE g : g = [s \in SUBSET S |-> IF s = {} THEN 0
                                 ELSE f[Chosen(s)] + g[s \ {Chosen(s)}]]
<1>2. Total(f, S) = it[S]
  BY DEF Total, MapThenSumSet, MapThenFoldSet, Chosen
<1>3. Sums(it, f, S)
  BY <1>1 DEF Sums
<1> QED BY <1>2, <1>3

\* Two such functions agree where the functions summed do.
LEMMA SumsAgree ==
  ASSUME NEW f, NEW g, NEW S, IsFiniteSet(S), Sums(g, f, S),
         NEW e, NEW h, NEW R, IsFiniteSet(R), Sums(h, e, R),
         NEW U \in SUBSET S, U \in SUBSET R, \A x \in U : e[x] = f[x]
  PROVE  g[U] = h[U]
<1> DEFINE T == {n \in Nat : \E s \in SUBSET U : Cardinality(s) = n /\ g[s] # h[s]}
<1>1. \A s \in SUBSET U : IsFiniteSet(s) /\ Cardinality(s) \in Nat
  BY FS_Subset, FS_CardinalityType
<1>2. ASSUME T # {} PROVE FALSE
  <2>1. PICK m \in T : \A k \in T : m <= k
    <3>1. T \subseteq Nat
      OBVIOUS
    <3> QED BY <1>2, <3>1, LeastNatural
  <2>2. PICK s \in SUBSET U : Cardinality(s) = m /\ g[s] # h[s]
    OBVIOUS
  <2>3. s \in SUBSET S /\ s \in SUBSET R
    OBVIOUS
  <2>4. s # {}
    BY <2>2, <2>3 DEF Sums
  <2> DEFINE r == s \ {Chosen(s)}
  <2>5. /\ Chosen(s) \in U /\ r \in SUBSET U
        /\ Cardinality(r) = m - 1 /\ m - 1 \in Nat
    BY <1>1, <2>2, <2>4, ChosenIn
  <2>6. g[r] = h[r]
    BY <2>1, <2>5
  <2>7. g[s] = f[Chosen(s)] + g[r] /\ h[s] = e[Chosen(s)] + h[r]
    BY <2>3, <2>4 DEF Sums
  <2>8. e[Chosen(s)] = f[Chosen(s)]
    BY <2>5
  <2> QED BY <2>2, <2>6, <2>7, <2>8
<1>3. Cardinality(U) \in Nat /\ U \in SUBSET U
  BY <1>1
<1> QED BY <1>2, <1>3

\* The sum over nothing.
LEMMA TotalEmpty == ASSUME NEW f PROVE Total(f, {}) = 0
<1>1. PICK g : Sums(g, f, {}) /\ Total(f, {}) = g[{}]
  BY TotalIsSum, FS_EmptySet
<1> QED BY <1>1 DEF Sums

\* The sum over a set of which one element is chosen.
LEMMA TotalChosen ==
  ASSUME NEW f, NEW S, IsFiniteSet(S), S # {}
  PROVE  Total(f, S) = f[Chosen(S)] + Total(f, S \ {Chosen(S)})
<1> DEFINE R == S \ {Chosen(S)}
<1>1. PICK g : Sums(g, f, S) /\ Total(f, S) = g[S]
  BY TotalIsSum
<1>2. IsFiniteSet(R) /\ R \in SUBSET S /\ R \in SUBSET R
  BY ChosenIn
<1>3. PICK h : Sums(h, f, R) /\ Total(f, R) = h[R]
  BY <1>2, TotalIsSum
<1>4. g[S] = f[Chosen(S)] + g[R]
  BY <1>1 DEF Sums
<1> HIDE DEF R
<1>5. g[R] = h[R]
  BY <1>1, <1>2, <1>3, SumsAgree
<1> QED BY <1>1, <1>3, <1>4, <1>5 DEF R

\* The sum of integers is an integer.
LEMMA TotalInt ==
  ASSUME NEW S, IsFiniteSet(S), NEW f, \A x \in S : f[x] \in Int
  PROVE  Total(f, S) \in Int
<1> DEFINE T == {n \in Nat : \E s \in SUBSET S : Cardinality(s) = n /\ Total(f, s) \notin Int}
<1>1. \A s \in SUBSET S : IsFiniteSet(s) /\ Cardinality(s) \in Nat
  BY FS_Subset, FS_CardinalityType
<1>2. ASSUME T # {} PROVE FALSE
  <2>1. PICK m \in T : \A k \in T : m <= k
    <3>1. T \subseteq Nat
      OBVIOUS
    <3> HIDE DEF T
    <3> QED BY <1>2, <3>1, LeastNatural
  <2>2. PICK s \in SUBSET S : Cardinality(s) = m /\ Total(f, s) \notin Int
    OBVIOUS
  <2>3. s # {}
    BY <2>2, TotalEmpty
  <2>4. /\ Chosen(s) \in S /\ s \ {Chosen(s)} \in SUBSET S
        /\ Cardinality(s \ {Chosen(s)}) = m - 1 /\ m - 1 \in Nat
    BY <1>1, <2>2, <2>3, ChosenIn
  <2>5. Total(f, s \ {Chosen(s)}) \in Int
    BY <2>1, <2>4
  <2>6. Total(f, s) = f[Chosen(s)] + Total(f, s \ {Chosen(s)})
    BY <1>1, <2>3, TotalChosen
  <2>7. Total(f, s) \in Int
    BY <2>4, <2>5, <2>6
  <2> QED BY <2>2, <2>7
<1>3. Cardinality(S) \in Nat /\ S \in SUBSET S
  BY <1>1
<1> QED BY <1>2, <1>3

\* Each element counts once, in whatever order they are added up.
LEMMA TotalSplits ==
  ASSUME NEW S, IsFiniteSet(S), NEW f, \A x \in S : f[x] \in Int
  PROVE  \A x \in S : Total(f, S) = f[x] + Total(f, S \ {x})
<1> DEFINE Splits(s) == \A x \in s : Total(f, s) = f[x] + Total(f, s \ {x})
           T == {n \in Nat : \E s \in SUBSET S : Cardinality(s) = n /\ ~Splits(s)}
<1>1. \A s \in SUBSET S :
        IsFiniteSet(s) /\ Cardinality(s) \in Nat /\ Total(f, s) \in Int
  BY FS_Subset, FS_CardinalityType, TotalInt
<1>2. ASSUME T # {} PROVE FALSE
  <2>1. PICK m \in T : \A k \in T : m <= k
    <3>1. T \subseteq Nat
      OBVIOUS
    <3> HIDE DEF T
    <3> QED BY <1>2, <3>1, LeastNatural
  <2>2. PICK s \in SUBSET S : Cardinality(s) = m /\ ~Splits(s)
    OBVIOUS
  <2>3. \A r \in SUBSET S : Cardinality(r) = m - 1 => Splits(r)
    BY <1>1, <2>1, <2>2
  <2>4. PICK x \in s : Total(f, s) # f[x] + Total(f, s \ {x})
    BY <2>2
  <2> HIDE DEF T
  <2> DEFINE y == Chosen(s)
  <2>5. /\ y \in s /\ y \in S /\ s \ {y} \in SUBSET S
        /\ Cardinality(s \ {y}) = m - 1
    BY <1>1, <2>2, <2>4, ChosenIn
  <2>6. Total(f, s) = f[y] + Total(f, s \ {y})
    BY <1>1, <2>4, TotalChosen
  <2> HIDE DEF y
  <2>7. x \in s \ {y} /\ y \in s \ {x} /\ x \in S
    BY <2>4, <2>5, <2>6
  <2>8. s \ {x} \in SUBSET S /\ Cardinality(s \ {x}) = m - 1
    BY <1>1, <2>2, <2>7, FS_RemoveElement
  <2> DEFINE rest == (s \ {x}) \ {y}
  <2>9. Total(f, s \ {x}) = f[y] + Total(f, rest)
    BY <2>3, <2>7, <2>8
  <2>10. Total(f, s \ {y}) = f[x] + Total(f, rest)
    <3>1. rest = (s \ {y}) \ {x}
      OBVIOUS
    <3> HIDE DEF rest
    <3> QED BY <2>3, <2>5, <2>7, <3>1
  <2>11. rest \in SUBSET S
    OBVIOUS
  <2> HIDE DEF rest
  <2>12. /\ f[x] \in Int /\ f[y] \in Int /\ Total(f, rest) \in Int
    BY <1>1, <2>5, <2>7, <2>11
  <2>13. f[y] + (f[x] + Total(f, rest)) = f[x] + (f[y] + Total(f, rest))
    BY <2>12
  <2> QED BY <2>4, <2>6, <2>9, <2>10, <2>13
<1>3. Cardinality(S) \in Nat /\ S \in SUBSET S
  BY <1>1
<1>4. Splits(S)
  BY <1>2, <1>3
<1> QED BY <1>4

\* b takes the indices S of w to the indices R of d, one to one, and the
\* values are the same.
Reindexes(b, w, S, d, R) ==
  /\ R = {b[x] : x \in S}
  /\ \A x \in S : w[x] = d[b[x]] /\ d[b[x]] \in Int
  /\ \A x, y \in S : b[x] = b[y] => x = y

\* A sum may be taken over other indices of the same values.
LEMMA TotalMapped ==
  ASSUME NEW S, IsFiniteSet(S), NEW b, NEW w, NEW d, NEW R,
         Reindexes(b, w, S, d, R)
  PROVE  Total(w, S) = Total(d, R)
<1>0. /\ R = {b[x] : x \in S}
      /\ \A x \in S : w[x] = d[b[x]] /\ d[b[x]] \in Int
      /\ \A x, y \in S : b[x] = b[y] => x = y
  BY DEF Reindexes
<1> DEFINE Image(s) == {b[x] : x \in s}
           T == {n \in Nat : \E s \in SUBSET S :
                   Cardinality(s) = n /\ Total(w, s) # Total(d, Image(s))}
<1>1. \A s \in SUBSET S : IsFiniteSet(s) /\ Cardinality(s) \in Nat
  BY FS_Subset, FS_CardinalityType
<1>2. ASSUME NEW s \in SUBSET S PROVE IsFiniteSet(Image(s))
  <2> DEFINE f == [x \in s |-> b[x]]
  <2>1. f \in Surjection(s, Image(s))
    BY DEF Surjection
  <2> QED BY <1>1, <2>1, FS_Surjection
<1>3. ASSUME T # {} PROVE FALSE
  <2>1. PICK m \in T : \A k \in T : m <= k
    <3>1. T \subseteq Nat
      OBVIOUS
    <3> HIDE DEF T
    <3> QED BY <1>3, <3>1, LeastNatural
  <2>2. PICK s \in SUBSET S : Cardinality(s) = m /\ Total(w, s) # Total(d, Image(s))
    OBVIOUS
  <2>3. s # {}
    <3> SUFFICES ASSUME s = {} PROVE FALSE
      OBVIOUS
    <3>1. Image(s) = {}
      OBVIOUS
    <3> HIDE DEF Image
    <3> QED BY <2>2, <3>1, TotalEmpty
  <2> DEFINE y == Chosen(s)
             r == s \ {y}
  <2>4. /\ y \in s /\ y \in S /\ r \in SUBSET S
        /\ Cardinality(r) = m - 1 /\ m - 1 \in Nat
    BY <1>1, <2>2, <2>3, ChosenIn
  <2>5. Total(w, r) = Total(d, Image(r))
    <3> HIDE DEF Image, y, r
    <3>1. m - 1 \notin T
      <4> HIDE DEF T
      <4>1. m \in Nat
        BY <1>1, <2>2
      <4>2. ~(m <= m - 1)
        BY <4>1
      <4> QED BY <2>1, <4>2
    <3> QED BY <2>4, <3>1
  <2>6. Total(w, s) = w[y] + Total(w, r)
    BY <1>1, <2>3, TotalChosen
  <2> HIDE DEF y
  <2>7. b[y] \in Image(s) /\ Image(r) = Image(s) \ {b[y]}
    BY <1>0, <2>4
  <2>8. \A z \in Image(s) : d[z] \in Int
    BY <1>0
  <2>9. Total(d, Image(s)) = d[b[y]] + Total(d, Image(s) \ {b[y]})
    <3>1. IsFiniteSet(Image(s))
      BY <1>2
    <3> HIDE DEF Image
    <3> QED BY <2>7, <2>8, <3>1, TotalSplits
  <2>10. w[y] = d[b[y]]
    BY <1>0, <2>4
  <2> QED BY <2>2, <2>5, <2>6, <2>7, <2>9, <2>10
<1>4. Cardinality(S) \in Nat /\ S \in SUBSET S
  BY <1>1
<1>5. Total(w, S) = Total(d, Image(S))
  BY <1>3, <1>4
<1>6. Image(S) = R
  BY <1>0
<1> HIDE DEF Image
<1> QED BY <1>5, <1>6
-----------------------------------------------------------------------------
(* The ring.                                                               *)

\* The place of the n-th price of the window.
Place(n) == (Oldest + n - 1) % capacity_
Ring == [n \in 1 .. series_size |-> data[Place(n)]]

SeriesTypes == /\ data \in [Places -> Int]
               /\ head_ \in Places
               /\ is_full_ \in BOOLEAN

\* A kernel that has been called on a series has been given its length.
Called == series_size # 0 => /\ site = "own arrays"
                             /\ size # 0 => size = series_size

SeriesInv == IndInv /\ SeriesTypes /\ Called

\* Less than twice around the ring, a remainder is what lies beyond the end.
LEMMA Wraps ==
  ASSUME NEW c \in Nat \ {0}, NEW a \in Nat
  PROVE  /\ a < c => a % c = a
         /\ a >= c /\ a < c + c => a % c = a - c
<1>1. ASSUME a < c PROVE a % c = a
  BY <1>1, SMT
<1>2. ASSUME a >= c, a < c + c PROVE a % c = a - c
  <2>1. a = c + (a - c) /\ a - c \in 0 .. c - 1
    BY <1>2
  <2> QED BY <2>1, SMT
<1> QED BY <1>1, <1>2

\* The capacity and the number of prices.
LEMMA SeriesSize ==
  ASSUME SeriesTypes
  PROVE  /\ capacity_ \in Nat \ {0} /\ head_ \in Nat /\ head_ < capacity_
         /\ Oldest \in Nat /\ Oldest < capacity_
         /\ series_size \in Nat /\ series_size <= capacity_
         /\ series_size \in 0 .. MaxSize
         /\ ~is_full_ => Oldest = 0 /\ series_size = head_
         /\ is_full_ => Oldest = head_ /\ series_size = capacity_
<1>1. capacity_ \in Nat \ {0} /\ capacity_ <= MaxSize /\ MaxSize \in Nat
  BY SeriesAssumption, LanesAssumption
<1>2. head_ \in Nat /\ head_ < capacity_ /\ is_full_ \in BOOLEAN
  BY <1>1 DEF SeriesTypes, Places
<1>3. CASE is_full_
  BY <1>1, <1>2, <1>3 DEF Oldest, series_size
<1>4. CASE ~is_full_
  BY <1>1, <1>2, <1>4 DEF Oldest, series_size
<1> QED BY <1>3, <1>4

\* The places of the window: those of the array's beginning as long as the
\* ring is not full, and all of them afterwards.
LEMMA PlaceIs ==
  ASSUME SeriesTypes, NEW n \in 1 .. series_size
  PROVE  /\ Place(n) \in 0 .. series_size - 1
         /\ Oldest + n - 1 < capacity_ => Place(n) = Oldest + n - 1
         /\ Oldest + n - 1 >= capacity_ => Place(n) = Oldest + n - 1 - capacity_
<1>1. /\ capacity_ \in Nat \ {0} /\ Oldest \in Nat /\ Oldest < capacity_
      /\ series_size \in Nat /\ series_size <= capacity_
      /\ Oldest = 0 \/ series_size = capacity_
  BY SeriesSize
<1>2. n \in Nat /\ n >= 1 /\ n <= series_size
  BY <1>1
<1>3. PICK a \in Nat : a = Oldest + n - 1
  BY <1>1, <1>2
<1>4. a < capacity_ + capacity_
  BY <1>1, <1>2, <1>3
<1>5. Place(n) = a % capacity_
  BY <1>3 DEF Place
<1>6. a < capacity_ => Place(n) = a
  BY <1>1, <1>5, Wraps
<1>7. a >= capacity_ => Place(n) = a - capacity_
  BY <1>1, <1>4, <1>5, Wraps
<1>8. Place(n) \in 0 .. series_size - 1
  <2>1. CASE Oldest = 0
    <3>1. a = n - 1 /\ a < capacity_
      BY <1>1, <1>2, <1>3, <2>1
    <3> QED BY <1>1, <1>2, <1>6, <3>1
  <2>2. CASE series_size = capacity_
    <3>1. CASE a < capacity_
      BY <1>1, <1>6, <2>2, <3>1
    <3>2. CASE a >= capacity_
      BY <1>1, <1>3, <1>4, <1>7, <2>2, <3>2
    <3> QED BY <1>1, <3>1, <3>2
  <2> QED BY <1>1, <2>1, <2>2
<1> QED BY <1>1, <1>2, <1>3, <1>6, <1>7, <1>8

\* The window is a sequence of prices.
LEMMA RingIsSeq ==
  ASSUME SeriesTypes
  PROVE  /\ Ring \in Seq(Int) /\ Len(Ring) = series_size
         /\ DOMAIN Ring = 1 .. series_size
<1>1. series_size \in Nat /\ series_size <= capacity_ /\ capacity_ \in Nat
  BY SeriesSize
<1>2. \A n \in 1 .. series_size : Place(n) \in Places
  BY <1>1, PlaceIs DEF Places
<1>3. \A n \in 1 .. series_size : data[Place(n)] \in Int
  BY <1>2 DEF SeriesTypes
<1> QED BY <1>1, <1>3 DEF Ring

\* Adding up the window is adding up the beginning of the array.
LEMMA RingTotal ==
  ASSUME SeriesTypes
  PROVE  Total(Ring, DOMAIN Ring) = SumOf(0 .. series_size - 1)
<1> DEFINE S == 1 .. series_size
           b == [n \in S |-> Place(n)]
<1>1. /\ capacity_ \in Nat \ {0} /\ Oldest \in Nat /\ Oldest < capacity_
      /\ series_size \in Nat /\ series_size <= capacity_
      /\ Oldest = 0 \/ series_size = capacity_
  BY SeriesSize
<1>2. IsFiniteSet(S)
  BY <1>1, FS_Interval
<1>3. \A n \in S : Ring[n] = data[b[n]] /\ data[b[n]] \in Int
  <2>1. \A n \in S : b[n] \in Places
    BY <1>1, PlaceIs DEF Places
  <2> QED BY <2>1 DEF Ring, SeriesTypes
<1>4. \A m, n \in S : b[m] = b[n] => m = n
  <2> SUFFICES ASSUME NEW m \in S, NEW n \in S, Place(m) = Place(n) PROVE m = n
    OBVIOUS
  <2>1. /\ Oldest + m - 1 < capacity_ => Place(m) = Oldest + m - 1
        /\ Oldest + m - 1 >= capacity_ => Place(m) = Oldest + m - 1 - capacity_
        /\ Oldest + n - 1 < capacity_ => Place(n) = Oldest + n - 1
        /\ Oldest + n - 1 >= capacity_ => Place(n) = Oldest + n - 1 - capacity_
    BY PlaceIs
  <2> QED BY <1>1, <2>1
<1>5. {b[n] : n \in S} = 0 .. series_size - 1
  <2>1. \A n \in S : b[n] \in 0 .. series_size - 1
    BY PlaceIs
  <2>2. ASSUME NEW k \in 0 .. series_size - 1 PROVE \E n \in S : b[n] = k
    <3>1. CASE k >= Oldest
      <4>1. k - Oldest + 1 \in S /\ Oldest + (k - Oldest + 1) - 1 = k /\ k < capacity_
        BY <1>1, <3>1
      <4>2. Place(k - Oldest + 1) = k
        BY <4>1, PlaceIs
      <4> QED BY <4>1, <4>2
    <3>2. CASE k < Oldest
      <4> DEFINE n == capacity_ - Oldest + k + 1
      <4>1. n \in S /\ Oldest + n - 1 = capacity_ + k
        BY <1>1, <3>2
      <4>2. Oldest + n - 1 >= capacity_ /\ Oldest + n - 1 - capacity_ = k
        BY <1>1, <4>1
      <4> HIDE DEF n
      <4>3. Place(n) = k
        BY <4>1, <4>2, PlaceIs
      <4> QED BY <4>1, <4>3
    <3> QED BY <1>1, <3>1, <3>2
  <2> HIDE DEF b
  <2>3. {b[n] : n \in S} \subseteq 0 .. series_size - 1
    BY <2>1
  <2> QED BY <2>2, <2>3
<1>6. DOMAIN Ring = S
  BY DEF Ring
<1> HIDE DEF b, S
<1>7. Total(Ring, S) = Total(data, 0 .. series_size - 1)
  <2>1. 0 .. series_size - 1 = {b[x] : x \in S}
    BY <1>5
  <2>2. PICK R : R = 0 .. series_size - 1
    OBVIOUS
  <2>3. R = {b[x] : x \in S}
    BY <2>1, <2>2
  <2>4. Reindexes(b, Ring, S, data, R)
    BY <1>3, <1>4, <2>3 DEF Reindexes
  <2>5. Total(Ring, S) = Total(data, R)
    BY <1>2, <2>4, TotalMapped
  <2> QED BY <2>2, <2>5
<1> QED BY <1>6, <1>7 DEF Total, SumOf

-----------------------------------------------------------------------------
(* The inductive invariant of a series with its kernel.                    *)

\* Between calls the kernel has nothing left to do.
LEMMA IdleFits == Idle => IndInv
<1> SUFFICES ASSUME Idle PROVE IndInv
  OBVIOUS
<1>1. /\ capacity_ \in Nat \ {0} /\ Lanes \in Nat \ {0} /\ MaxSize \in Nat
  BY SeriesAssumption, LanesAssumption
<1>2. reads \in SUBSET Nat /\ writes = {} /\ WellPlaced
  <2>1. PICK a \in allocate(capacity_) : reads = {a}
    BY DEF Idle
  <2>2. a \in Nat /\ a % Lanes = 0
    BY <1>1 DEF allocate, Addresses
  <2>3. site = "own arrays" /\ writes = {}
    BY DEF Idle
  <2> QED  BY <2>1, <2>2, <2>3 DEF WellPlaced
<1>3. site \in Sites /\ kernel \in Kernels
  BY DEF Idle, sum_avx2, Kernels, Sites
<1>4. /\ size = 0 /\ i = 0 /\ pc = "done"
      /\ lanes = [l \in Registers |-> {}] /\ total = {} /\ twice = {}
  BY DEF Idle
<1>5. TypeOK
  BY <1>1, <1>2, <1>3, <1>4 DEF TypeOK
<1>6. total = 0 .. size - 1
  BY <1>4
<1> QED BY <1>2, <1>4, <1>5, <1>6 DEF IndInv

\* A series begins empty, with no kernel at work or with another caller's.
LEMMA SeriesInitially == SeriesInit => SeriesInv
<1> SUFFICES ASSUME SeriesInit PROVE SeriesInv
  OBVIOUS
<1>1. IndInv
  BY IdleFits, Initially DEF SeriesInit
<1>2. capacity_ \in Nat \ {0}
  BY SeriesAssumption, LanesAssumption
<1>3. SeriesTypes
  <2>1. 0 \in Places
    BY <1>2 DEF Places
  <2>2. data = [k \in Places |-> 0] /\ head_ = 0 /\ is_full_ = FALSE
    BY DEF SeriesInit
  <2>3. data \in [Places -> Int]
    BY <2>2
  <2> QED BY <2>1, <2>2, <2>3 DEF SeriesTypes
<1>4. series_size = 0
  BY DEF SeriesInit, series_size
<1> QED BY <1>1, <1>3, <1>4 DEF SeriesInv, Called

\* A kernel does not change what it has been given.
LEMMA SizeKept == Next => size' = size /\ site' = site
BY DEF Next, Empty, Fill, Enter, ReduceChunk, MapChunk, Fault, EndOfChunks,
       TailElement, Return, arrays

\* Every step of a series or of the kernel it calls keeps the invariant.
LEMMA SeriesPreserved ==
  SeriesInv /\ [SeriesNext]_<<seriesVars, vars>> => SeriesInv'
<1> SUFFICES ASSUME SeriesInv, [SeriesNext]_<<seriesVars, vars>>
             PROVE  SeriesInv'
  OBVIOUS
<1>1. IndInv /\ SeriesTypes /\ Called
  BY DEF SeriesInv
<1>2. /\ capacity_ \in Nat \ {0} /\ head_ \in Nat /\ head_ < capacity_
      /\ series_size \in 0 .. MaxSize
  BY <1>1, SeriesSize
<1>3. ASSUME UNCHANGED vars PROVE IndInv' /\ size' = size /\ site' = site
  BY <1>1, <1>3, Preserved DEF vars, arrays
<1>4. ASSUME UNCHANGED members PROVE SeriesTypes' /\ series_size' = series_size
  BY <1>1, <1>4 DEF members, SeriesTypes, series_size
<1>5. ASSUME NEW p \in Prices, add_tick(p) PROVE SeriesInv'
  <2>1. UNCHANGED vars /\ size = 0 /\ site = "own arrays"
    BY <1>5 DEF add_tick, Idle
  <2>2. p \in Int
    BY SeriesAssumption
  <2>3. data' \in [Places -> Int]
    BY <1>1, <1>5, <2>2 DEF add_tick, SeriesTypes
  <2>4. head_' \in Places
    BY <1>2, <1>5 DEF add_tick, AtEnd, Places
  <2>5. is_full_' \in BOOLEAN
    BY <1>1, <1>5 DEF add_tick, AtEnd, SeriesTypes
  <2> QED BY <1>3, <2>1, <2>3, <2>4, <2>5 DEF SeriesInv, SeriesTypes, Called
<1>6. CASE get_mean
  <2>1. UNCHANGED vars /\ UNCHANGED members /\ size = 0 /\ site = "own arrays"
    BY <1>6 DEF get_mean, Idle
  <2> QED BY <1>3, <1>4, <2>1 DEF SeriesInv, Called
<1>7. CASE CallKernel
  <2>1. /\ Idle /\ size' = series_size /\ pc' = "enter"
        /\ UNCHANGED members
        /\ UNCHANGED <<site, kernel, reads, writes, i, lanes, total, twice>>
    BY <1>7 DEF CallKernel, SimdLength, seriesVars
  <2>2. /\ i = 0 /\ lanes = [l \in Registers |-> {}] /\ total = {}
    BY <2>1 DEF Idle
  <2>3. TypeOK'
    BY <1>1, <1>2, <2>1, <2>2 DEF IndInv, TypeOK
  <2>4. WellPlaced'
    BY <1>1, <2>1 DEF IndInv, WellPlaced
  <2>5. site = "own arrays" /\ IndInv'
    BY <1>1, <2>1, <2>2, <2>3, <2>4 DEF IndInv, Idle
  <2> QED BY <1>4, <2>1, <2>5 DEF SeriesInv, Called
<1>8. CASE InKernel
  <2>1. Next /\ UNCHANGED members
    BY <1>8 DEF InKernel, seriesVars
  <2>2. IndInv' /\ size' = size /\ site' = site
    BY <1>1, <2>1, Preserved, SizeKept
  <2> QED BY <1>1, <1>4, <2>1, <2>2 DEF SeriesInv, Called
<1>9. CASE DivideSum
  <2>1. /\ size' = 0 /\ i' = 0 /\ pc = "done"
        /\ lanes' = [l \in Registers |-> {}] /\ total' = {} /\ twice' = {}
        /\ UNCHANGED members /\ UNCHANGED <<site, kernel, reads, writes, pc>>
    BY <1>9 DEF DivideSum
  <2>2. MaxSize \in Nat
    BY LanesAssumption
  <2>3. TypeOK'
    BY <1>1, <2>1, <2>2 DEF IndInv, TypeOK
  <2>4. total' = 0 .. size' - 1
    BY <2>1
  <2>5. WellPlaced'
    BY <1>1, <2>1 DEF IndInv, WellPlaced
  <2>6. IndInv'
    BY <1>1, <2>1, <2>3, <2>4, <2>5 DEF IndInv
  <2> QED BY <1>1, <1>4, <2>1, <2>6 DEF SeriesInv, Called
<1>10. CASE clear
  <2>1. /\ UNCHANGED vars /\ size = 0 /\ site = "own arrays"
        /\ head_' = 0 /\ is_full_' = FALSE /\ data' = data
    BY <1>10 DEF clear, Idle, FullAfterClear
  <2>2. SeriesTypes'
    <3>1. 0 \in Places
      BY <1>2 DEF Places
    <3>2. data \in [Places -> Int]
      BY <1>1 DEF SeriesTypes
    <3>3. data' \in [Places -> Int]
      BY <2>1, <3>2
    <3> QED BY <2>1, <3>1, <3>3 DEF SeriesTypes
  <2> QED BY <1>3, <2>1, <2>2 DEF SeriesInv, Called
<1>11. CASE UNCHANGED <<seriesVars, vars>>
  <2>1. UNCHANGED vars /\ UNCHANGED members
    BY <1>11 DEF seriesVars
  <2> QED BY <1>1, <1>3, <1>4, <2>1 DEF SeriesInv, Called
<1> QED BY <1>5, <1>6, <1>7, <1>8, <1>9, <1>10, <1>11 DEF SeriesNext

\* The invariant holds in every state of a series.
THEOREM SeriesInductive == SeriesSpec => []SeriesInv
BY SeriesInitially, SeriesPreserved, PTL DEF SeriesSpec

\* A kernel called on a series uses each price once.
THEOREM SeriesElementsOnce == SeriesSpec => []EachElementOnce
<1>1. SeriesInv => EachElementOnce
  BY DEF SeriesInv, IndInv, EachElementOnce
<1> QED BY <1>1, SeriesInductive, PTL

\* Beside a series too, only an array that was passed can be misaligned.
THEOREM SeriesMisalignedOnlyAsPassed == SeriesSpec => []FaultsAtPassedArrayOnly
<1>1. SeriesInv => FaultsAtPassedArrayOnly
  BY ChunksAligned DEF SeriesInv
<1> QED BY <1>1, SeriesInductive, PTL

\* The kernel that get_mean_simd calls never faults, for any capacity: the
\* array is one of AlignedAllocator, and it is called at its beginning.
THEOREM SeriesNeverFaults == SeriesSpec => [](series_size # 0 => pc # "fault")
<1>1. SeriesInv => (series_size # 0 => pc # "fault")
  BY DEF SeriesInv, Called, IndInv, PassedMisaligned
<1> QED BY <1>1, SeriesInductive, PTL

-----------------------------------------------------------------------------
(* The window.                                                             *)

\* Whoever adds up the window gets what FoldFunction computes.
LEMMA WindowSum ==
  ASSUME SeriesTypes
  PROVE  Window!FoldFunction(+, 0, Ring) = SumOf(0 .. series_size - 1)
<1>1. Window!FoldFunction(+, 0, Ring) = Total(Ring, DOMAIN Ring)
  BY DEF Window!FoldFunction, Window!FoldFunctionOnSet, Window!MapThenFoldSet,
         Total, MapThenSumSet, MapThenFoldSet
<1> QED BY <1>1, RingTotal

\* A price is appended; when the ring is full, the oldest goes.
LEMMA TickAppends ==
  ASSUME SeriesTypes, NEW p \in Prices, add_tick(p)
  PROVE  Ring' = IF Len(Ring) < capacity_ THEN Append(Ring, p)
                                          ELSE Append(Tail(Ring), p)
<1>1. /\ capacity_ \in Nat \ {0} /\ head_ \in Nat /\ head_ < capacity_
      /\ series_size \in Nat /\ p \in Int
      /\ ~is_full_ => Oldest = 0 /\ series_size = head_
      /\ is_full_ => Oldest = head_ /\ series_size = capacity_
  BY SeriesSize, SeriesAssumption
<1>2. /\ data' = [data EXCEPT ![head_] = p]
      /\ head_' = IF head_ + 1 = capacity_ THEN 0 ELSE head_ + 1
      /\ is_full_' = (is_full_ \/ head_ + 1 = capacity_)
  BY DEF add_tick, AtEnd
<1>3. Ring \in Seq(Int) /\ Len(Ring) = series_size
  BY RingIsSeq
<1>4. \A k \in Places : data'[k] = IF k = head_ THEN p ELSE data[k]
  BY <1>2 DEF SeriesTypes
<1>5. Ring' = [n \in 1 .. series_size' |-> data'[(Oldest' + n - 1) % capacity_]]
  BY DEF Ring, Place
<1>6. \A n \in 1 .. series_size : Ring[n] = data[Place(n)]
  BY DEF Ring
<1>7. CASE ~is_full_
  <2>1. series_size = head_ /\ Oldest = 0
    BY <1>1, <1>7
  <2>2. Oldest' = 0 /\ series_size' = head_ + 1
    BY <1>1, <1>2, <1>7 DEF Oldest, series_size
  <2> DEFINE s == Append(Ring, p)
  <2>3. /\ s \in Seq(Int) /\ Len(s) = head_ + 1
        /\ \A n \in 1 .. head_ : s[n] = Ring[n]
        /\ s[head_ + 1] = p
    BY <1>1, <1>3, <2>1, AppendProperties
  <2> HIDE DEF s
  <2>4. ASSUME NEW n \in 1 .. head_ + 1
        PROVE  data'[(Oldest' + n - 1) % capacity_] = s[n]
    <3>1. n - 1 \in Nat /\ n - 1 < capacity_ /\ Oldest' + n - 1 = n - 1
      BY <1>1, <2>2
    <3>2. (Oldest' + n - 1) % capacity_ = n - 1 /\ n - 1 \in Places
      BY <1>1, <3>1, Wraps DEF Places
    <3>3. CASE n = head_ + 1
      <4>1. n - 1 = head_
        BY <1>1, <3>3
      <4> QED BY <1>4, <2>3, <3>2, <3>3, <4>1
    <3>4. CASE n # head_ + 1
      <4>1. n \in 1 .. head_ /\ n - 1 # head_
        BY <1>1, <3>4
      <4>2. Oldest + n - 1 = n - 1
        BY <1>1, <2>1
      <4>3. Place(n) = n - 1
        BY <2>1, <3>1, <4>1, <4>2, PlaceIs
      <4>4. s[n] = data[n - 1]
        BY <1>6, <2>1, <2>3, <4>1, <4>3
      <4> QED BY <1>4, <3>2, <4>1, <4>4
    <3> QED BY <3>3, <3>4
  <2>5. s = [n \in 1 .. head_ + 1 |-> s[n]]
    BY <1>1, <2>3
  <2>6. Ring' = s
    BY <1>5, <2>2, <2>4, <2>5
  <2>7. Len(Ring) < capacity_
    BY <1>1, <1>3, <2>1
  <2> QED BY <2>6, <2>7 DEF s
<1>8. CASE is_full_
  <2>1. series_size = capacity_ /\ Oldest = head_
    BY <1>1, <1>8
  <2>2. Oldest' = head_' /\ series_size' = capacity_
    BY <1>1, <1>2, <1>8 DEF Oldest, series_size
  <2>3. /\ Tail(Ring) \in Seq(Int) /\ Len(Tail(Ring)) = capacity_ - 1
        /\ \A n \in 1 .. capacity_ - 1 : Tail(Ring)[n] = Ring[n + 1]
    <3>1. Ring # <<>>
      BY <1>1, <1>3, <2>1
    <3> QED BY <1>1, <1>3, <2>1, <3>1, HeadTailProperties
  <2> DEFINE s == Append(Tail(Ring), p)
  <2>4. /\ s \in Seq(Int) /\ Len(s) = capacity_
        /\ \A n \in 1 .. capacity_ - 1 : s[n] = Ring[n + 1]
        /\ s[capacity_] = p
    BY <1>1, <2>3, AppendProperties
  <2> HIDE DEF s
  <2>5. ASSUME NEW n \in 1 .. capacity_
        PROVE  data'[(Oldest' + n - 1) % capacity_] = s[n]
    <3>1. n \in Nat /\ n >= 1 /\ n <= capacity_
      BY <1>1
    <3>2. /\ Oldest' + n - 1 \in Nat
          /\ head_ + 1 = capacity_ => Oldest' + n - 1 = n - 1
          /\ head_ + 1 # capacity_ => Oldest' + n - 1 = head_ + n
      BY <1>1, <1>2, <2>2, <3>1
    <3>3. PICK a \in Nat : a = Oldest' + n - 1
      BY <3>2
    <3>4. /\ a < capacity_ => a % capacity_ = a
          /\ a >= capacity_ /\ a < capacity_ + capacity_ => a % capacity_ = a - capacity_
      BY <1>1, Wraps
    <3>5. PICK k : k = a % capacity_
      OBVIOUS
    <3>6. /\ head_ + n < capacity_ => k = head_ + n
          /\ head_ + n >= capacity_ => k = head_ + n - capacity_
      <4>1. CASE head_ + 1 = capacity_
        <5>1. a = n - 1 /\ a < capacity_ /\ head_ + n - capacity_ = n - 1
          BY <1>1, <3>1, <3>2, <3>3, <4>1
        <5> QED BY <1>1, <3>1, <3>4, <3>5, <4>1, <5>1
      <4>2. CASE head_ + 1 # capacity_
        <5>1. a = head_ + n /\ a < capacity_ + capacity_
          BY <1>1, <3>1, <3>2, <3>3, <4>2
        <5> QED BY <1>1, <3>1, <3>4, <3>5, <5>1
      <4> QED BY <4>1, <4>2
    <3>7. CASE n = capacity_
      <4>1. k = head_ /\ k \in Places
        BY <1>1, <3>6, <3>7 DEF Places
      <4> QED BY <1>4, <2>4, <3>3, <3>5, <3>7, <4>1
    <3>8. CASE n # capacity_
      <4>1. n + 1 \in 1 .. series_size /\ n \in 1 .. capacity_ - 1
        BY <1>1, <2>1, <3>1, <3>8
      <4>2. k # head_ /\ k \in Places
        BY <1>1, <3>1, <3>6, <3>8 DEF Places
      <4>3. Oldest + (n + 1) - 1 = head_ + n
        BY <1>1, <2>1, <3>1
      <4>4. k = Place(n + 1)
        BY <1>1, <3>1, <3>6, <4>1, <4>3, PlaceIs
      <4>5. s[n] = data[k]
        BY <1>6, <2>4, <4>1, <4>4
      <4> QED BY <1>4, <3>3, <3>5, <4>2, <4>5
    <3> QED BY <3>7, <3>8
  <2>6. s = [n \in 1 .. capacity_ |-> s[n]]
    BY <1>1, <2>4
  <2>7. Ring' = s
    BY <1>5, <2>2, <2>5, <2>6
  <2>8. ~(Len(Ring) < capacity_)
    BY <1>1, <1>3, <2>1
  <2> QED BY <2>7, <2>8 DEF s
<1> QED BY <1>7, <1>8

\* What SlidingWindow calls the window is the ring.
LEMMA WindowIsRing ==
  Ring = [n \in 1 .. series_size |-> data[(Oldest + n - 1) % capacity_]]
BY DEF Ring, Place

\* The window begins empty.
LEMMA WindowInitially == SeriesInit => Window!Init
<1> SUFFICES ASSUME SeriesInit PROVE Window!Init
  OBVIOUS
<1>1. series_size = 0
  BY DEF SeriesInit, series_size
<1>2. Ring = <<>>
  BY <1>1 DEF Ring
<1> QED BY <1>2, WindowIsRing DEF SeriesInit, Window!Init

\* A tick is an Add, clear a Clear, get_mean and the return of the kernel are
\* a Mean; calling a kernel and its steps leave the window alone.
LEMMA WindowStep ==
  SeriesInv /\ [SeriesNext]_<<seriesVars, vars>>
    => [Window!Next]_<<Ring, mean, newest>>
<1> SUFFICES ASSUME SeriesInv, [SeriesNext]_<<seriesVars, vars>>
             PROVE  [Window!Next]_<<Ring, mean, newest>>
  OBVIOUS
<1>1. IndInv /\ SeriesTypes /\ Called
  BY DEF SeriesInv
<1>2. Len(Ring) = series_size
  BY <1>1, RingIsSeq
<1>3. ASSUME UNCHANGED members PROVE Ring' = Ring
  BY <1>3 DEF members, Ring, Place, Oldest, series_size
<1>4. Window!FoldFunction(+, 0, Ring) = SumOf(0 .. series_size - 1)
  BY <1>1, WindowSum
<1>5. ASSUME UNCHANGED members, newest' = newest,
             mean' = <<SumOf(0 .. series_size - 1), series_size>>
      PROVE  Window!Mean
  <2>1. mean' = <<Window!FoldFunction(+, 0, Ring), Len(Ring)>>
    BY <1>2, <1>4, <1>5
  <2>2. Ring' = Ring
    BY <1>3, <1>5
  <2> QED BY <1>5, <2>1, <2>2 DEF Window!Mean, Ring, Place
<1>6. ASSUME NEW p \in Prices, add_tick(p) PROVE Window!Add(p)
  <2>1. Ring' = IF Len(Ring) < capacity_ THEN Append(Ring, p)
                                         ELSE Append(Tail(Ring), p)
    BY <1>1, <1>6, TickAppends
  <2>2. newest' = p /\ mean' = mean
    BY <1>6 DEF add_tick
  <2> QED BY <2>1, <2>2 DEF Window!Add, Ring, Place
<1>7. CASE get_mean
  <2>1. Window!Mean
    BY <1>5, <1>7 DEF get_mean
  <2> QED BY <2>1 DEF Window!Next
<1>8. CASE CallKernel
  BY <1>3, <1>8 DEF CallKernel, seriesVars, members
<1>9. CASE InKernel
  BY <1>3, <1>9 DEF InKernel, seriesVars, members
<1>10. CASE DivideSum
  <2>1. total = 0 .. size - 1 /\ size = series_size
    BY <1>1, <1>10 DEF DivideSum, IndInv, Called
  <2>2. mean' = <<SumOf(total), series_size>> /\ newest' = newest /\ UNCHANGED members
    BY <1>10 DEF DivideSum
  <2>3. Window!Mean
    BY <1>5, <2>1, <2>2
  <2> QED BY <2>3 DEF Window!Next
<1>11. CASE clear
  <2>1. series_size' = 0 /\ mean' = mean /\ newest' = newest
    BY <1>11 DEF clear, FullAfterClear, series_size
  <2>2. Ring' = <<>>
    BY <2>1 DEF Ring
  <2>3. Window!Clear
    BY <2>1, <2>2 DEF Window!Clear, Ring, Place
  <2> QED BY <2>3 DEF Window!Next
<1>12. CASE UNCHANGED <<seriesVars, vars>>
  BY <1>3, <1>12 DEF seriesVars, members
<1>13. CASE \E p \in Prices : add_tick(p)
  BY <1>6, <1>13 DEF Window!Next
<1> QED BY <1>7, <1>8, <1>9, <1>10, <1>11, <1>12, <1>13 DEF SeriesNext

\* For every capacity, any prices and any width of a register, the ring keeps
\* the most recent prices since it was cleared, and both means are theirs.
THEOREM SeriesImplementsWindow == SeriesSpec => ImplementsWindow
<1>1. SeriesInv /\ [SeriesNext]_<<seriesVars, vars>>
        => [Window!Next]_<<[n \in 1 .. series_size |->
                              data[(Oldest + n - 1) % capacity_]], mean, newest>>
  BY WindowStep DEF Ring, Place
<1> QED BY <1>1, WindowInitially, SeriesInductive, PTL
        DEF SeriesSpec, ImplementsWindow, Window!Spec
=============================================================================
