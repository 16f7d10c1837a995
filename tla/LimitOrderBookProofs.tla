------------------------ MODULE LimitOrderBookProofs ------------------------
(***************************************************************************)
(* Proofs about LimitOrderBook: for every set of prices and quantities and *)
(* every sequence of orders the book is well formed and never crossed, no  *)
(* quantity appears or disappears, and the matching loop implements the    *)
(* order book that trades an order at once.  The volumes are sums over     *)
(* sets of prices; the first part shows what the proofs need of them, by   *)
(* the smallest set that would be a counterexample.                        *)
(***************************************************************************)
EXTENDS LimitOrderBook, FiniteSetTheorems, TLAPS

-----------------------------------------------------------------------------
\* A set of natural numbers that is not empty has a least element.
LEMMA LeastNatural ==
  ASSUME NEW T, T \subseteq Nat, T # {}
  PROVE  \E m \in T : \A k \in T : m <= k
<1> DEFINE R == {ss \in Nat \X Nat : ss[1] < ss[2]}
<1>1. IsWellFoundedOn(R, Nat)
  BY NatLessThanWellFounded, Zenon DEF OpToRel
<1> HIDE DEF R
<1>2. PICK x \in T : \A y \in T : ~(<<y, x>> \in R)
  BY <1>1, WFMin
<1>3. ASSUME NEW k \in T PROVE x <= k
  <2>1. x \in Nat /\ k \in Nat /\ ~(<<k, x>> \in R)
    BY <1>2
  <2>2. ~(k < x)
    BY <2>1 DEF R
  <2> QED BY <2>1, <2>2
<1> QED BY <1>3

-----------------------------------------------------------------------------
\* The sum of the values of a function over a set, as the fold of the
\* community modules computes it, in the order of Chosen.
Total(f, S) == MapThenSumSet(LAMBDA x : f[x], S)

Chosen(s) == CHOOSE x \in s : TRUE

\* g sums f over the subsets of S.
Sums(g, f, S) ==
  g = [s \in SUBSET S |-> IF s = {} THEN 0
                          ELSE f[Chosen(s)] + g[s \ {Chosen(s)}]]

\* What is chosen from a set is in it, and leaves a smaller one.
LEMMA ChosenIn ==
  ASSUME NEW s, s # {}, IsFiniteSet(s)
  PROVE  /\ Chosen(s) \in s
         /\ IsFiniteSet(s \ {Chosen(s)})
         /\ Cardinality(s) \in Nat
         /\ Cardinality(s \ {Chosen(s)}) = Cardinality(s) - 1
         /\ Cardinality(s) - 1 \in Nat
<1>1. Chosen(s) \in s
  BY DEF Chosen
<1>2. /\ IsFiniteSet(s \ {Chosen(s)})
      /\ Cardinality(s \ {Chosen(s)}) = Cardinality(s) - 1
      /\ Cardinality(s) \in Nat /\ Cardinality(s \ {Chosen(s)}) \in Nat
  BY <1>1, FS_RemoveElement, FS_CardinalityType
<1> QED BY <1>1, <1>2

\* There is a function that sums over the subsets of up to n elements.
SumsUpTo(g, f, S, n) ==
  \A s \in SUBSET S : Cardinality(s) <= n =>
    g[s] = IF s = {} THEN 0 ELSE f[Chosen(s)] + g[s \ {Chosen(s)}]

LEMMA SumsUpToExist ==
  ASSUME NEW f, NEW S, IsFiniteSet(S)
  PROVE  \A n \in Nat : \E g : SumsUpTo(g, f, S, n)
<1> DEFINE T == {n \in Nat : ~\E g : SumsUpTo(g, f, S, n)}
<1> SUFFICES ASSUME T # {} PROVE FALSE
  OBVIOUS
<1>1. PICK m \in T : \A k \in T : m <= k
  BY LeastNatural
<1>2. m \in Nat /\ \A g : ~SumsUpTo(g, f, S, m)
  OBVIOUS
<1>3. \A s \in SUBSET S : IsFiniteSet(s) /\ Cardinality(s) \in Nat
  BY FS_Subset, FS_CardinalityType
<1>4. CASE m = 0
  <2> DEFINE g == [s \in SUBSET S |-> 0]
  <2>1. SumsUpTo(g, f, S, 0)
    <3> SUFFICES ASSUME NEW s \in SUBSET S, Cardinality(s) <= 0
                 PROVE  g[s] = IF s = {} THEN 0 ELSE f[Chosen(s)] + g[s \ {Chosen(s)}]
      BY DEF SumsUpTo
    <3>1. s = {}
      BY <1>3, FS_EmptySet
    <3> QED BY <3>1
  <2> QED BY <1>2, <1>4, <2>1
<1>5. CASE m # 0
  <2>1. m - 1 \in Nat /\ m - 1 \notin T
    BY <1>1, <1>2, <1>5
  <2>2. PICK g : SumsUpTo(g, f, S, m - 1)
    BY <2>1
  <2> DEFINE h == [s \in SUBSET S |->
                     IF s # {} /\ Cardinality(s) = m THEN f[Chosen(s)] + g[s \ {Chosen(s)}]
                                                     ELSE g[s]]
  <2> HIDE DEF T
  <2>3. SumsUpTo(h, f, S, m)
    <3> SUFFICES ASSUME NEW s \in SUBSET S, Cardinality(s) <= m
                 PROVE  h[s] = IF s = {} THEN 0 ELSE f[Chosen(s)] + h[s \ {Chosen(s)}]
      BY DEF SumsUpTo
    <3>1. CASE s = {}
      <4>1. Cardinality(s) <= m - 1
        BY <2>1, <3>1, FS_EmptySet
      <4> QED BY <2>2, <3>1, <4>1 DEF SumsUpTo
    <3>2. CASE s # {}
      <4> DEFINE r == s \ {Chosen(s)}
      <4>1. Cardinality(r) = Cardinality(s) - 1 /\ r \in SUBSET S
        BY <1>3, <3>2, ChosenIn
      <4>2. Cardinality(r) # m
        BY <1>2, <1>3, <4>1
      <4>3. h[r] = g[r]
        BY <4>1, <4>2
      <4>4. CASE Cardinality(s) = m
        BY <3>2, <4>3, <4>4
      <4>5. CASE Cardinality(s) # m
        <5>1. Cardinality(s) <= m - 1
          BY <1>2, <1>3, <4>5
        <5>2. g[s] = f[Chosen(s)] + g[r]
          BY <2>2, <3>2, <5>1 DEF SumsUpTo
        <5> QED BY <3>2, <4>3, <4>5, <5>2
      <4> QED BY <4>4, <4>5
    <3> QED BY <3>1, <3>2
  <2> QED BY <1>2, <2>3
<1> QED BY <1>4, <1>5

\* The fold of MapThenSumSet is one that sums over every subset.
LEMMA TotalIsSum ==
  ASSUME NEW f, NEW S, IsFiniteSet(S)
  PROVE  \E g : Sums(g, f, S) /\ Total(f, S) = g[S]
<1>1. \E g : Sums(g, f, S)
  <2>1. PICK h : SumsUpTo(h, f, S, Cardinality(S))
    BY SumsUpToExist, FS_CardinalityType
  <2> DEFINE g == [s \in SUBSET S |-> h[s]]
  <2>2. \A s \in SUBSET S : h[s] = IF s = {} THEN 0 ELSE f[Chosen(s)] + h[s \ {Chosen(s)}]
    BY <2>1, FS_Subset DEF SumsUpTo
  <2>3. \A s \in SUBSET S : s \ {Chosen(s)} \in SUBSET S
    OBVIOUS
  <2>4. Sums(g, f, S)
    BY <2>2, <2>3 DEF Sums
  <2> QED BY <2>4
<1> DEFINE it == CHOOSE g : g = [s \in SUBSET S |-> IF s = {} THEN 0
                                 ELSE f[Chosen(s)] + g[s \ {Chosen(s)}]]
<1>2. Total(f, S) = it[S]
  BY DEF Total, MapThenSumSet, MapThenFoldSet, Chosen
<1>3. Sums(it, f, S)
  BY <1>1 DEF Sums
<1> QED BY <1>2, <1>3

\* Two such functions agree where the functions summed do.
LEMMA SumsAgree ==
  ASSUME NEW f, NEW g, NEW S, IsFiniteSet(S), Sums(g, f, S),
         NEW e, NEW h, NEW R, IsFiniteSet(R), Sums(h, e, R),
         NEW U \in SUBSET S, U \in SUBSET R, \A x \in U : e[x] = f[x]
  PROVE  g[U] = h[U]
<1> DEFINE T == {n \in Nat : \E s \in SUBSET U : Cardinality(s) = n /\ g[s] # h[s]}
<1>1. \A s \in SUBSET U : IsFiniteSet(s) /\ Cardinality(s) \in Nat
  BY FS_Subset, FS_CardinalityType
<1>2. ASSUME T # {} PROVE FALSE
  <2>1. PICK m \in T : \A k \in T : m <= k
    <3>1. T \subseteq Nat
      OBVIOUS
    <3> QED BY <1>2, <3>1, LeastNatural
  <2>2. PICK s \in SUBSET U : Cardinality(s) = m /\ g[s] # h[s]
    OBVIOUS
  <2>3. s \in SUBSET S /\ s \in SUBSET R
    OBVIOUS
  <2>4. s # {}
    BY <2>2, <2>3 DEF Sums
  <2> DEFINE r == s \ {Chosen(s)}
  <2>5. /\ Chosen(s) \in U /\ r \in SUBSET U
        /\ Cardinality(r) = m - 1 /\ m - 1 \in Nat
    BY <1>1, <2>2, <2>4, ChosenIn
  <2>6. g[r] = h[r]
    BY <2>1, <2>5
  <2>7. g[s] = f[Chosen(s)] + g[r] /\ h[s] = e[Chosen(s)] + h[r]
    BY <2>3, <2>4 DEF Sums
  <2>8. e[Chosen(s)] = f[Chosen(s)]
    BY <2>5
  <2> QED BY <2>2, <2>6, <2>7, <2>8
<1>3. Cardinality(U) \in Nat /\ U \in SUBSET U
  BY <1>1
<1> QED BY <1>2, <1>3

\* The sum over nothing, and over a set of which one element is chosen.
LEMMA TotalEmpty == ASSUME NEW f PROVE Total(f, {}) = 0
<1>1. PICK g : Sums(g, f, {}) /\ Total(f, {}) = g[{}]
  BY TotalIsSum, FS_EmptySet
<1> QED BY <1>1 DEF Sums

LEMMA TotalChosen ==
  ASSUME NEW f, NEW S, IsFiniteSet(S), S # {}
  PROVE  Total(f, S) = f[Chosen(S)] + Total(f, S \ {Chosen(S)})
<1> DEFINE R == S \ {Chosen(S)}
<1>1. PICK g : Sums(g, f, S) /\ Total(f, S) = g[S]
  BY TotalIsSum
<1>2. IsFiniteSet(R) /\ R \in SUBSET S /\ R \in SUBSET R
  BY ChosenIn
<1>3. PICK h : Sums(h, f, R) /\ Total(f, R) = h[R]
  BY <1>2, TotalIsSum
<1>4. g[S] = f[Chosen(S)] + g[R]
  BY <1>1 DEF Sums
<1> HIDE DEF R
<1>5. g[R] = h[R]
  BY <1>1, <1>2, <1>3, SumsAgree
<1> QED BY <1>1, <1>3, <1>4, <1>5 DEF R

\* Functions that agree on a set have the same sum over it.
LEMMA TotalSame ==
  ASSUME NEW S, IsFiniteSet(S), NEW e, NEW f, \A x \in S : e[x] = f[x]
  PROVE  Total(e, S) = Total(f, S)
<1>1. PICK g : Sums(g, f, S) /\ Total(f, S) = g[S]
  BY TotalIsSum
<1>2. PICK h : Sums(h, e, S) /\ Total(e, S) = h[S]
  BY TotalIsSum
<1>3. S \in SUBSET S
  OBVIOUS
<1>4. g[S] = h[S]
  BY <1>1, <1>2, <1>3, SumsAgree
<1> QED BY <1>1, <1>2, <1>4

\* The sum of integers is an integer.
LEMMA TotalInt ==
  ASSUME NEW S, IsFiniteSet(S), NEW f, \A x \in S : f[x] \in Int
  PROVE  Total(f, S) \in Int
<1> DEFINE T == {n \in Nat : \E s \in SUBSET S : Cardinality(s) = n /\ Total(f, s) \notin Int}
<1>1. \A s \in SUBSET S : IsFiniteSet(s) /\ Cardinality(s) \in Nat
  BY FS_Subset, FS_CardinalityType
<1>2. ASSUME T # {} PROVE FALSE
  <2>1. PICK m \in T : \A k \in T : m <= k
    <3>1. T \subseteq Nat
      OBVIOUS
    <3> HIDE DEF T
    <3> QED BY <1>2, <3>1, LeastNatural
  <2>2. PICK s \in SUBSET S : Cardinality(s) = m /\ Total(f, s) \notin Int
    OBVIOUS
  <2>3. s # {}
    BY <2>2, TotalEmpty
  <2>4. /\ Chosen(s) \in S /\ s \ {Chosen(s)} \in SUBSET S
        /\ Cardinality(s \ {Chosen(s)}) = m - 1 /\ m - 1 \in Nat
    BY <1>1, <2>2, <2>3, ChosenIn
  <2>5. Total(f, s \ {Chosen(s)}) \in Int
    BY <2>1, <2>4
  <2>6. Total(f, s) = f[Chosen(s)] + Total(f, s \ {Chosen(s)})
    BY <1>1, <2>3, TotalChosen
  <2>7. Total(f, s) \in Int
    BY <2>4, <2>5, <2>6
  <2> QED BY <2>2, <2>7
<1>3. Cardinality(S) \in Nat /\ S \in SUBSET S
  BY <1>1
<1> QED BY <1>2, <1>3

\* Each element counts once, in whatever order they are added up.
LEMMA TotalSplits ==
  ASSUME NEW S, IsFiniteSet(S), NEW f, \A x \in S : f[x] \in Int
  PROVE  \A x \in S : Total(f, S) = f[x] + Total(f, S \ {x})
<1> DEFINE Splits(s) == \A x \in s : Total(f, s) = f[x] + Total(f, s \ {x})
           T == {n \in Nat : \E s \in SUBSET S : Cardinality(s) = n /\ ~Splits(s)}
<1>1. \A s \in SUBSET S :
        IsFiniteSet(s) /\ Cardinality(s) \in Nat /\ Total(f, s) \in Int
  BY FS_Subset, FS_CardinalityType, TotalInt
<1>2. ASSUME T # {} PROVE FALSE
  <2>1. PICK m \in T : \A k \in T : m <= k
    <3>1. T \subseteq Nat
      OBVIOUS
    <3> HIDE DEF T
    <3> QED BY <1>2, <3>1, LeastNatural
  <2>2. PICK s \in SUBSET S : Cardinality(s) = m /\ ~Splits(s)
    OBVIOUS
  <2>3. \A r \in SUBSET S : Cardinality(r) = m - 1 => Splits(r)
    BY <1>1, <2>1, <2>2
  <2>4. PICK x \in s : Total(f, s) # f[x] + Total(f, s \ {x})
    BY <2>2
  <2> HIDE DEF T
  <2> DEFINE y == Chosen(s)
  <2>5. /\ y \in s /\ y \in S /\ s \ {y} \in SUBSET S
        /\ Cardinality(s \ {y}) = m - 1
    BY <1>1, <2>2, <2>4, ChosenIn
  <2>6. Total(f, s) = f[y] + Total(f, s \ {y})
    BY <1>1, <2>4, TotalChosen
  <2> HIDE DEF y
  <2>7. x \in s \ {y} /\ y \in s \ {x} /\ x \in S
    BY <2>4, <2>5, <2>6
  <2>8. s \ {x} \in SUBSET S /\ Cardinality(s \ {x}) = m - 1
    BY <1>1, <2>2, <2>7, FS_RemoveElement
  <2> DEFINE rest == (s \ {x}) \ {y}
  <2>9. Total(f, s \ {x}) = f[y] + Total(f, rest)
    BY <2>3, <2>7, <2>8
  <2>10. Total(f, s \ {y}) = f[x] + Total(f, rest)
    <3>1. rest = (s \ {y}) \ {x}
      OBVIOUS
    <3> HIDE DEF rest
    <3> QED BY <2>3, <2>5, <2>7, <3>1
  <2>11. rest \in SUBSET S
    OBVIOUS
  <2> HIDE DEF rest
  <2>12. /\ f[x] \in Int /\ f[y] \in Int /\ Total(f, rest) \in Int
    BY <1>1, <2>5, <2>7, <2>11
  <2>13. f[y] + (f[x] + Total(f, rest)) = f[x] + (f[y] + Total(f, rest))
    BY <2>12
  <2> QED BY <2>4, <2>6, <2>9, <2>10, <2>13
<1>3. Cardinality(S) \in Nat /\ S \in SUBSET S
  BY <1>1
<1>4. Splits(S)
  BY <1>2, <1>3
<1> QED BY <1>4

\* The sum of natural numbers is a natural number.
LEMMA TotalNat ==
  ASSUME NEW S, IsFiniteSet(S), NEW f, \A x \in S : f[x] \in Nat
  PROVE  Total(f, S) \in Nat
<1> DEFINE T == {n \in Nat : \E s \in SUBSET S : Cardinality(s) = n /\ Total(f, s) \notin Nat}
<1>1. \A s \in SUBSET S : IsFiniteSet(s) /\ Cardinality(s) \in Nat
  BY FS_Subset, FS_CardinalityType
<1>2. ASSUME T # {} PROVE FALSE
  <2>1. PICK m \in T : \A k \in T : m <= k
    <3>1. T \subseteq Nat
      OBVIOUS
    <3> HIDE DEF T
    <3> QED BY <1>2, <3>1, LeastNatural
  <2>2. PICK s \in SUBSET S : Cardinality(s) = m /\ Total(f, s) \notin Nat
    OBVIOUS
  <2>3. s # {}
    BY <2>2, TotalEmpty
  <2>4. /\ Chosen(s) \in S /\ s \ {Chosen(s)} \in SUBSET S
        /\ Cardinality(s \ {Chosen(s)}) = m - 1 /\ m - 1 \in Nat
    BY <1>1, <2>2, <2>3, ChosenIn
  <2>5. Total(f, s \ {Chosen(s)}) \in Nat
    BY <2>1, <2>4
  <2>6. Total(f, s) = f[Chosen(s)] + Total(f, s \ {Chosen(s)})
    BY <1>1, <2>3, TotalChosen
  <2>7. Total(f, s) \in Nat
    BY <2>4, <2>5, <2>6
  <2> QED BY <2>2, <2>7
<1>3. Cardinality(S) \in Nat /\ S \in SUBSET S
  BY <1>1
<1> QED BY <1>2, <1>3
-----------------------------------------------------------------------------
\* The levels of a side: a positive volume at each of some prices.
Levels == UNION {[S -> Nat \ {0}] : S \in SUBSET Prices}

\* The volume over a set of prices is a sum.
LEMMA VolumeIsTotal ==
  ASSUME NEW l, NEW S
  PROVE  Reference!VolumeOver(l, S) = Total(l, S)
<1> DEFINE it == CHOOSE g : g = [s \in SUBSET S |-> IF s = {} THEN 0
                                 ELSE l[Chosen(s)] + g[s \ {Chosen(s)}]]
<1>1. Total(l, S) = it[S]
  BY DEF Total, MapThenSumSet, MapThenFoldSet, Chosen
<1>2. Reference!VolumeOver(l, S) = it[S]
  BY DEF Reference!VolumeOver, Reference!MapThenSumSet,
         Reference!MapThenFoldSet, Chosen
<1> QED BY <1>1, <1>2

\* What TypeOK says of the levels.
LEMMA LevelsOfSides ==
  ASSUME NEW b
  PROVE  b \in [Sides -> Levels] <=>
           /\ b = [s \in Sides |-> b[s]]
           /\ \A s \in Sides : /\ DOMAIN b[s] \subseteq Prices
                               /\ b[s] \in [DOMAIN b[s] -> Nat \ {0}]
<1>1. ASSUME NEW l
      PROVE  l \in Levels <=> /\ DOMAIN l \subseteq Prices
                              /\ l \in [DOMAIN l -> Nat \ {0}]
  BY DEF Levels
<1>2. (\A s \in Sides : b[s] \in Levels) <=>
        \A s \in Sides : /\ DOMAIN b[s] \subseteq Prices
                         /\ b[s] \in [DOMAIN b[s] -> Nat \ {0}]
  BY <1>1
<1> QED BY <1>2

\* Any set of prices is finite, and the volume over it a natural number.
LEMMA VolumeNat ==
  ASSUME NEW l \in Levels, NEW S \in SUBSET DOMAIN l
  PROVE  IsFiniteSet(S) /\ Total(l, S) \in Nat
<1>1. IsFiniteSet(-PriceLimit .. PriceLimit)
  BY BookAssumption, FS_Interval
<1>2. IsFiniteSet(Prices)
  BY <1>1, BookAssumption, FS_Subset
<1>3. S \in SUBSET Prices
  BY DEF Levels
<1>4. IsFiniteSet(S)
  BY <1>2, <1>3, FS_Subset
<1>5. \A x \in S : l[x] \in Nat
  BY DEF Levels
<1> QED BY <1>4, <1>5, TotalNat

-----------------------------------------------------------------------------
\* Prices are integers.
LEMMA PricesAreIntegers == Prices \subseteq Int
<1>1. \A p \in -PriceLimit .. PriceLimit : p \in Int
  OBVIOUS
<1> QED BY <1>1, BookAssumption

\* A side that has levels has a best one, as begin() assumes.
LEMMA BestExists ==
  ASSUME TypeOK, NEW s \in Sides, DOMAIN levels[s] # {}
  PROVE  \E p \in DOMAIN levels[s] : Best(s, p)
<1> DEFINE D == DOMAIN levels[s]
<1>1. D \subseteq -PriceLimit .. PriceLimit /\ PriceLimit \in Nat
  BY BookAssumption DEF TypeOK
<1> HIDE DEF D
<1>2. CASE s = "BUY"
  <2> DEFINE T == {PriceLimit - p : p \in D}
  <2>1. T \subseteq Nat /\ T # {}
    BY <1>1 DEF D
  <2>2. PICK m \in T : \A k \in T : m <= k
    <3> HIDE DEF T
    <3> QED BY <2>1, LeastNatural
  <2>3. PICK p \in D : m = PriceLimit - p
    OBVIOUS
  <2>4. ASSUME NEW q \in D PROVE ~(q > p)
    <3>1. PriceLimit - p <= PriceLimit - q
      BY <2>2, <2>3
    <3> QED BY <1>1, <3>1
  <2> QED BY <1>2, <2>3, <2>4 DEF Best, Reference!Better, D
<1>3. CASE s = "SELL"
  <2> DEFINE T == {PriceLimit + p : p \in D}
  <2>1. T \subseteq Nat /\ T # {}
    BY <1>1 DEF D
  <2>2. PICK m \in T : \A k \in T : m <= k
    <3> HIDE DEF T
    <3> QED BY <2>1, LeastNatural
  <2>3. PICK p \in D : m = PriceLimit + p
    OBVIOUS
  <2>4. ASSUME NEW q \in D PROVE ~(q < p)
    <3>1. PriceLimit + p <= PriceLimit + q
      BY <2>2, <2>3
    <3> QED BY <1>1, <3>1
  <2> QED BY <1>3, <2>3, <2>4 DEF Best, Reference!Better, D
<1> QED BY <1>2, <1>3 DEF Sides, Reference!Sides

\* The two sides are each other's opposite.
LEMMA Opposite ==
  ASSUME NEW s \in Sides
  PROVE  Other(s) \in Sides /\ Other(s) # s
BY DEF Sides, Reference!Sides, Other, Reference!Other

\* When the loop ends on an order that is not filled, no opposite level is
\* left that the order crosses: the best one is not, so none is.
LEMMA NothingLeftToCross ==
  ASSUME TypeOK, LoopEnds, order.quantity > 0,
         NEW p \in DOMAIN levels[Other(order.side)]
  PROVE  ~Crosses(order.side, order.price, p)
<1> DEFINE opp == Other(order.side)
<1>1. opp \in Sides
  BY Opposite DEF TypeOK
<1>2. PICK b \in DOMAIN levels[opp] : Best(opp, b)
  BY <1>1, BestExists
<1>3. ~Crosses(order.side, order.price, b)
  <2>1. ~Matches(b)
    BY <1>2 DEF LoopEnds
  <2> QED BY <1>2, <2>1 DEF Matches
<1>4. p \in Int /\ b \in Int /\ order.price \in Int
  BY <1>1, <1>2, PricesAreIntegers DEF TypeOK, LoopEnds
<1>5. ~Reference!Better(opp, p, b)
  BY <1>2 DEF Best
<1> QED BY <1>3, <1>4, <1>5
        DEF Crosses, Reference!Better, Other, Reference!Other, TypeOK, Sides,
            Reference!Sides

\* A level whose volume has changed, and is erased when nothing is left.
LEMMA WithVolumeLevels ==
  ASSUME NEW l \in Levels, NEW p \in DOMAIN l, NEW w \in Nat
  PROVE  /\ WithVolume(l, p, w) \in Levels
         /\ DOMAIN WithVolume(l, p, w)
              = IF w = 0 THEN DOMAIN l \ {p} ELSE DOMAIN l
         /\ \A q \in DOMAIN WithVolume(l, p, w) :
              WithVolume(l, p, w)[q] = IF q = p THEN w ELSE l[q]
<1> DEFINE m == WithVolume(l, p, w)
<1>1. /\ DOMAIN m = IF w = 0 THEN DOMAIN l \ {p} ELSE DOMAIN l
      /\ \A q \in DOMAIN m : m[q] = IF q = p THEN w ELSE l[q]
      /\ m = [q \in DOMAIN m |-> m[q]]
  BY DEF WithVolume, Reference!Keep, Levels
<1>2. DOMAIN l \in SUBSET Prices /\ \A q \in DOMAIN l : l[q] \in Nat /\ l[q] > 0
  BY DEF Levels
<1> HIDE DEF m
<1>3. m \in [DOMAIN m -> Nat] /\ DOMAIN m \in SUBSET Prices
  BY <1>1, <1>2
<1>4. m \in Levels
  BY <1>1, <1>2, <1>3 DEF Levels
<1> QED BY <1>1, <1>4 DEF m

\* What becomes of a sum over some of the prices.
LEMMA WithVolumeTotal ==
  ASSUME NEW l \in Levels, NEW p \in DOMAIN l, NEW w \in Nat,
         NEW S \in SUBSET DOMAIN l
  PROVE  Total(WithVolume(l, p, w), S \cap DOMAIN WithVolume(l, p, w))
           = Total(l, S) + IF p \in S THEN w - l[p] ELSE 0
<1> DEFINE m == WithVolume(l, p, w)
<1>1. /\ DOMAIN m = IF w = 0 THEN DOMAIN l \ {p} ELSE DOMAIN l
      /\ \A q \in DOMAIN m : m[q] = IF q = p THEN w ELSE l[q]
      /\ m \in Levels
  BY WithVolumeLevels
<1>2. DOMAIN l \in SUBSET Prices /\ \A q \in DOMAIN l : l[q] \in Nat /\ l[q] > 0
  BY DEF Levels
<1> HIDE DEF m
<1> DEFINE R == S \cap DOMAIN m
<1>5. /\ IsFiniteSet(S) /\ IsFiniteSet(R) /\ IsFiniteSet(S \ {p})
      /\ \A x \in S : l[x] \in Int
      /\ \A x \in R : m[x] \in Int
  BY <1>1, <1>2, VolumeNat
<1>6. Total(m, S \ {p}) = Total(l, S \ {p})
  <2>1. \A x \in S \ {p} : m[x] = l[x]
    BY <1>1
  <2> QED BY <1>5, <2>1, TotalSame
<1>7. Total(l, S \ {p}) \in Int
  BY <1>5, TotalInt
<1>8. CASE p \notin S
  <2>1. S \ {p} = S /\ R = S
    BY <1>1, <1>8
  <2> QED BY <1>1, <1>6, <1>7, <1>8, <2>1 DEF m
<1>9. CASE p \in S
  <2>1. Total(l, S) = l[p] + Total(l, S \ {p})
    BY <1>5, <1>9, TotalSplits
  <2>2. l[p] \in Int /\ w \in Int
    BY <1>2
  <2>3. CASE w = 0
    <3>1. R = S \ {p}
      BY <1>1, <2>3
    <3>2. Total(m, R) = Total(l, S) + (w - l[p])
      <4> DEFINE rest == Total(l, S \ {p})
      <4>1. Total(m, R) = rest /\ Total(l, S) = l[p] + rest /\ rest \in Int
        BY <1>6, <1>7, <2>1, <3>1
      <4> HIDE DEF rest
      <4> QED BY <2>2, <2>3, <4>1
    <3> QED BY <1>1, <1>9, <3>2 DEF m
  <2>4. CASE w # 0
    <3>1. R = S /\ m[p] = w
      BY <1>1, <2>4
    <3>2. Total(m, S) = m[p] + Total(m, S \ {p})
      BY <1>5, <1>9, <3>1, TotalSplits
    <3>3. Total(m, R) = Total(l, S) + (w - l[p])
      <4> DEFINE rest == Total(l, S \ {p})
      <4>1. /\ Total(m, R) = w + rest /\ Total(l, S) = l[p] + rest
            /\ rest \in Int
        BY <1>6, <1>7, <2>1, <3>1, <3>2
      <4> HIDE DEF rest
      <4> QED BY <2>2, <4>1
    <3> QED BY <1>1, <1>9, <3>3 DEF m
  <2> QED BY <2>3, <2>4
<1> QED BY <1>8, <1>9

LEMMA WithVolumeSum ==
  ASSUME NEW l \in Levels, NEW p \in DOMAIN l, NEW w \in Nat
  PROVE  Total(WithVolume(l, p, w), DOMAIN WithVolume(l, p, w))
           = Total(l, DOMAIN l) + (w - l[p])
<1> DEFINE m == WithVolume(l, p, w)
           D == DOMAIN l
<1>1. D \in SUBSET DOMAIN l /\ p \in D /\ D \cap DOMAIN m = DOMAIN m
  <2>1. DOMAIN m = IF w = 0 THEN DOMAIN l \ {p} ELSE DOMAIN l
    BY WithVolumeLevels
  <2> HIDE DEF m
  <2> QED BY <2>1
<1> HIDE DEF m, D
<1>2. Total(m, D \cap DOMAIN m) = Total(l, D) + IF p \in D THEN w - l[p] ELSE 0
  BY <1>1, WithVolumeTotal DEF m
<1>3. Total(m, DOMAIN m) = Total(l, D) + (w - l[p])
  BY <1>1, <1>2
<1> QED BY <1>3 DEF m, D

\* What becomes of the sum of all when an order joins a side.
LEMMA JoinedTotal ==
  ASSUME NEW l \in Levels, NEW p \in Prices, NEW n \in Nat, n > 0
  PROVE  LET m == Joined(l, p, n) IN
         /\ m \in Levels
         /\ DOMAIN m = DOMAIN l \cup {p}
         /\ Total(m, DOMAIN m) = Total(l, DOMAIN l) + n
<1> DEFINE m == Joined(l, p, n)
           D == DOMAIN l
<1>1. /\ DOMAIN m = D \cup {p}
      /\ \A q \in D \ {p} : m[q] = l[q]
      /\ m[p] = IF p \in D THEN l[p] + n ELSE n
      /\ m \in Levels
  <2>1. D \in SUBSET Prices /\ \A q \in D : l[q] \in Nat /\ l[q] > 0
    BY DEF Levels
  <2>2. /\ DOMAIN m = D \cup {p}
        /\ \A q \in D \ {p} : m[q] = l[q]
        /\ m[p] = IF p \in D THEN l[p] + n ELSE n
        /\ m = [q \in DOMAIN m |-> m[q]]
    BY <2>1 DEF Joined, Reference!Volume
  <2> HIDE DEF m, D
  <2>3. \A q \in DOMAIN m : m[q] \in Nat /\ m[q] > 0
    BY <2>1, <2>2
  <2>4. m \in [DOMAIN m -> Nat] /\ DOMAIN m \in SUBSET Prices
    BY <2>1, <2>2, <2>3
  <2>5. m \in Levels
    BY <2>3, <2>4 DEF Levels
  <2> QED BY <2>2, <2>5
<1> HIDE DEF m
<1>2. /\ IsFiniteSet(D) /\ IsFiniteSet(D \ {p}) /\ IsFiniteSet(DOMAIN m)
      /\ \A x \in D : l[x] \in Int
      /\ \A x \in DOMAIN m : m[x] \in Int
  <2>1. \A x \in D : l[x] \in Int
    BY DEF Levels
  <2>2. \A x \in DOMAIN m : m[x] \in Int
    BY <1>1 DEF Levels
  <2> QED BY <1>1, <2>1, <2>2, VolumeNat
<1>3. Total(m, D \ {p}) = Total(l, D \ {p})
  BY <1>1, <1>2, TotalSame
<1>4. Total(m, DOMAIN m) = m[p] + Total(m, D \ {p})
  <2>1. (DOMAIN m) \ {p} = D \ {p} /\ p \in DOMAIN m
    BY <1>1
  <2> QED BY <1>2, <2>1, TotalSplits
<1>5. Total(l, D \ {p}) \in Int
  BY <1>2, TotalInt
<1>6. CASE p \in D
  <2>1. Total(l, D) = l[p] + Total(l, D \ {p})
    BY <1>2, <1>6, TotalSplits
  <2> QED BY <1>1, <1>2, <1>3, <1>4, <1>5, <1>6, <2>1 DEF m
<1>7. CASE p \notin D
  <2>1. D \ {p} = D
    BY <1>7
  <2> QED BY <1>1, <1>3, <1>4, <1>5, <1>7, <2>1 DEF m
<1> QED BY <1>6, <1>7
-----------------------------------------------------------------------------
\* Between two calls no order is in hand.
NothingInHand == pc = "idle" => order = NoOrder

IndInv == TypeOK /\ Uncrossed /\ Balanced /\ NothingInHand

\* What rests on a side, before and after a step, is a sum.
LEMMA RestingAsTotal ==
  ASSUME NEW s \in Sides
  PROVE  /\ Resting(s) = Total(levels[s], DOMAIN levels[s])
         /\ Resting(s)' = Total(levels'[s], DOMAIN levels'[s])
BY VolumeIsTotal DEF Resting

\* The levels, the order in hand and what rests, with their types.
LEMMA Types ==
  ASSUME TypeOK
  PROVE  /\ levels \in [Sides -> Levels]
         /\ order \in [side : Sides, quantity : Nat, price : Int]
         /\ \A s \in Sides : /\ Resting(s) = Total(levels[s], DOMAIN levels[s])
                             /\ Resting(s) \in Nat
<1>1. levels \in [Sides -> Levels]
  BY LevelsOfSides DEF TypeOK
<1>2. ASSUME NEW s \in Sides
      PROVE  /\ Resting(s) = Total(levels[s], DOMAIN levels[s])
             /\ Resting(s) \in Nat
  <2>1. Resting(s) = Total(levels[s], DOMAIN levels[s])
    BY RestingAsTotal
  <2> QED BY <1>1, <2>1, VolumeNat
<1> QED BY <1>1, <1>2 DEF TypeOK

\* An empty book satisfies the invariant.
LEMMA InitInductive == Init => IndInv
<1> SUFFICES ASSUME Init PROVE IndInv
  OBVIOUS
<1>1. TypeOK /\ Uncrossed
  BY DEF Init, TypeOK, Uncrossed, NoOrder, Sides, Reference!Sides,
         Reference!NoLevels
<1>2. \A s \in Sides : Resting(s) = 0
  <2>1. \A s \in Sides : DOMAIN levels[s] = {}
    BY DEF Init, Reference!NoLevels
  <2> QED BY <1>1, <2>1, Types, TotalEmpty
<1>3. Balanced
  BY <1>2 DEF Balanced, Init, NoOrder, Sides, Reference!Sides
<1> QED BY <1>1, <1>3 DEF IndInv, NothingInHand, Init

\* An order taken up is counted in before it trades.
LEMMA AddOrderStep ==
  ASSUME IndInv, NEW o \in Orders, AddOrder(o)
  PROVE  IndInv'
<1>1. o \in [side : Sides, quantity : Nat, price : Prices]
  BY BookAssumption DEF Orders, Reference!Orders, Sides
<1>2. o \in [side : Sides, quantity : Nat, price : Int]
  BY <1>1, PricesAreIntegers
<1>3. pc' = "loop" /\ order' = o /\ levels' = levels /\ net' \in Int
  BY <1>1 DEF AddOrder, IndInv, TypeOK
<1>4. TypeOK' /\ Uncrossed'
  BY <1>1, <1>2, <1>3 DEF IndInv, TypeOK, Uncrossed
<1>5. Balanced'
  <2>1. "BUY" \in Sides /\ "SELL" \in Sides /\ order.side \in Sides
    BY DEF Sides, Reference!Sides, IndInv, TypeOK
  <2>2. Resting("BUY") \in Nat /\ Resting("SELL") \in Nat
    BY <2>1, Types DEF IndInv
  <2>3. Resting("BUY")' = Resting("BUY") /\ Resting("SELL")' = Resting("SELL")
    BY <1>3 DEF Resting
  <2>4. order.quantity = 0
    BY DEF AddOrder, IndInv, NothingInHand, NoOrder
  <2> QED BY <1>1, <1>3, <2>2, <2>3, <2>4 DEF AddOrder, IndInv, Balanced
<1> QED BY <1>3, <1>4, <1>5 DEF IndInv, NothingInHand

\* An iteration of the loop adds no level, and takes the same from the order
\* and from what rests.
LEMMA MatchStep == IndInv /\ Match => IndInv'
<1> SUFFICES ASSUME IndInv, Match PROVE IndInv'
  OBVIOUS
<1> DEFINE opp == Other(order.side)
           l == levels[opp]
<1>1. /\ opp \in Sides /\ opp # order.side /\ order.side \in Sides
      /\ order.quantity \in Nat /\ l \in Levels
      /\ levels \in [Sides -> Levels]
      /\ order \in [side : Sides, quantity : Nat, price : Int]
  BY Opposite, Types DEF IndInv, TypeOK
<1>2. PICK p \in DOMAIN l :
        /\ order' = [order EXCEPT !.quantity = @ - Traded(l[p], order.quantity)]
        /\ levels' = [levels EXCEPT ![opp] =
             WithVolume(l, p, l[p] - Traded(l[p], order.quantity))]
  BY DEF Match
<1> DEFINE t == Traded(l[p], order.quantity)
           m == WithVolume(l, p, l[p] - t)
<1> HIDE DEF l
<1>3. l[p] \in Nat
  BY <1>1 DEF Levels
<1>4. t \in Nat /\ l[p] - t \in Nat /\ order.quantity - t \in Nat
  BY <1>1, <1>3 DEF Traded
<1> HIDE DEF t
<1>5. /\ m \in Levels
      /\ DOMAIN m \subseteq DOMAIN l
      /\ Total(m, DOMAIN m) = Total(l, DOMAIN l) - t
  <2> DEFINE w == l[p] - t
  <2>1. w \in Nat
    BY <1>4
  <2> HIDE DEF w
  <2>2. /\ WithVolume(l, p, w) \in Levels
        /\ DOMAIN WithVolume(l, p, w) \subseteq DOMAIN l
        /\ Total(WithVolume(l, p, w), DOMAIN WithVolume(l, p, w))
             = Total(l, DOMAIN l) + (w - l[p])
    <3>1. /\ WithVolume(l, p, w) \in Levels
          /\ DOMAIN WithVolume(l, p, w) = IF w = 0 THEN DOMAIN l \ {p} ELSE DOMAIN l
      BY <1>1, <2>1, WithVolumeLevels
    <3>2. Total(WithVolume(l, p, w), DOMAIN WithVolume(l, p, w))
             = Total(l, DOMAIN l) + (w - l[p])
      BY <1>1, <2>1, WithVolumeSum
    <3> QED BY <3>1, <3>2
  <2>3. w - l[p] = -t
    BY <1>3, <1>4 DEF w
  <2>4. Total(l, DOMAIN l) \in Nat
    BY <1>1, VolumeNat
  <2>5. /\ m \in Levels
        /\ DOMAIN m \subseteq DOMAIN l
        /\ Total(m, DOMAIN m) = Total(l, DOMAIN l) + (-t)
    BY <2>2, <2>3 DEF w
  <2> HIDE DEF m
  <2> QED BY <1>4, <2>4, <2>5
<1>6. /\ levels' = [levels EXCEPT ![opp] = m]
      /\ order' = [order EXCEPT !.quantity = @ - t]
  BY <1>2 DEF t
<1> HIDE DEF m, opp
<1>7. /\ levels' \in [Sides -> Levels]
      /\ levels'[opp] = m
      /\ \A s \in Sides : s # opp => levels'[s] = levels[s]
  BY <1>1, <1>5, <1>6
<1>8. Uncrossed'
  <2>1. \A s \in Sides : DOMAIN levels'[s] \subseteq DOMAIN levels[s]
    BY <1>5, <1>7 DEF l
  <2> QED BY <2>1 DEF IndInv, Uncrossed, Sides, Reference!Sides
<1>9. /\ order' \in [side : Sides, quantity : Nat, price : Int]
      /\ order'.quantity = order.quantity - t
      /\ order'.price = order.price /\ order'.side = order.side
  BY <1>1, <1>4, <1>6
<1>10. pc' = "loop" /\ pc = "loop" /\ net' = net
  BY DEF Match
<1>11. TypeOK'
  BY <1>7, <1>9, <1>10, LevelsOfSides DEF IndInv, TypeOK
<1>12. Balanced'
  <2>1. /\ \A s \in Sides : s = opp => Resting(s)' = Resting(s) - t
        /\ \A s \in Sides : s # opp => Resting(s)' = Resting(s)
    BY <1>5, <1>7, RestingAsTotal DEF l
  <2>2. \A s \in Sides : Resting(s) \in Nat
    BY Types DEF IndInv
  <2>3. net = Resting("BUY") - Resting("SELL")
               + IF order.side = "BUY" THEN order.quantity ELSE -order.quantity
    BY DEF IndInv, Balanced
  <2>4. "BUY" \in Sides /\ "SELL" \in Sides
    BY DEF Sides, Reference!Sides
  <2>5. CASE order.side = "BUY" /\ opp = "SELL"
    BY <1>1, <1>4, <1>9, <1>10, <2>1, <2>2, <2>3, <2>4, <2>5 DEF Balanced
  <2>6. CASE order.side = "SELL" /\ opp = "BUY"
    BY <1>1, <1>4, <1>9, <1>10, <2>1, <2>2, <2>3, <2>4, <2>6 DEF Balanced
  <2> QED BY <1>1, <2>5, <2>6 DEF opp, Other, Reference!Other, Sides, Reference!Sides
<1> QED BY <1>8, <1>10, <1>11, <1>12 DEF IndInv, NothingInHand

\* What is left of an order joins its side without crossing the other.
LEMMA RestStep == IndInv /\ Rest => IndInv'
<1> SUFFICES ASSUME IndInv, Rest PROVE IndInv'
  OBVIOUS
<1> DEFINE s == order.side
           new == Joined(levels[s], order.price, order.quantity)
<1>1. /\ s \in Sides /\ Other(s) \in Sides /\ Other(s) # s
      /\ order.price \in Prices /\ order.quantity \in Nat /\ order.quantity > 0
      /\ levels \in [Sides -> Levels]
  BY Opposite, Types DEF IndInv, TypeOK, Rest, LoopEnds
<1>2. /\ new \in Levels
      /\ DOMAIN new = DOMAIN levels[s] \cup {order.price}
      /\ Total(new, DOMAIN new) = Total(levels[s], DOMAIN levels[s]) + order.quantity
  <2>1. levels[s] \in Levels
    BY <1>1
  <2> QED BY <1>1, <2>1, JoinedTotal
<1>3. levels' = [levels EXCEPT ![s] = new]
  BY DEF Rest
<1>4. \A q \in DOMAIN levels[Other(s)] : ~Crosses(s, order.price, q)
  BY NothingLeftToCross DEF Rest, IndInv
<1> HIDE DEF new
<1>5. /\ levels' \in [Sides -> Levels]
      /\ levels'[s] = new
      /\ \A u \in Sides : u # s => levels'[u] = levels[u]
  BY <1>1, <1>2, <1>3
<1>6. TypeOK'
  <2>1. order' \in [side : Sides, quantity : Nat, price : Int]
    BY DEF Rest, NoOrder, Sides, Reference!Sides
  <2> QED BY <1>5, <2>1, LevelsOfSides DEF Rest, IndInv, TypeOK
<1>7. Uncrossed'
  <2>1. order.price \in Int /\ \A u \in Sides : DOMAIN levels[u] \subseteq Int
    BY <1>1, PricesAreIntegers DEF IndInv, TypeOK
  <2>2. CASE s = "BUY"
    <3>1. Other(s) = "SELL" /\ levels'["SELL"] = levels["SELL"]
      BY <1>5, <2>2 DEF Other, Reference!Other, Sides, Reference!Sides
    <3>2. \A a \in DOMAIN levels["SELL"] : order.price < a
      BY <1>4, <2>1, <2>2, <3>1 DEF Crosses, Sides, Reference!Sides
    <3> QED BY <1>2, <1>5, <2>2, <3>1, <3>2 DEF Uncrossed, IndInv
  <2>3. CASE s = "SELL"
    <3>1. Other(s) = "BUY" /\ levels'["BUY"] = levels["BUY"]
      BY <1>5, <2>3 DEF Other, Reference!Other, Sides, Reference!Sides
    <3>2. \A b \in DOMAIN levels["BUY"] : b < order.price
      BY <1>4, <2>1, <2>3, <3>1 DEF Crosses, Sides, Reference!Sides
    <3> QED BY <1>2, <1>5, <2>3, <3>1, <3>2 DEF Uncrossed, IndInv
  <2> QED BY <1>1, <2>2, <2>3 DEF Sides, Reference!Sides
<1>8. Balanced'
  <2>1. /\ \A u \in Sides : u = s => Resting(u)' = Resting(u) + order.quantity
        /\ \A u \in Sides : u # s => Resting(u)' = Resting(u)
    BY <1>2, <1>5, RestingAsTotal
  <2>2. \A u \in Sides : Resting(u) \in Nat
    BY Types DEF IndInv
  <2>3. net = Resting("BUY") - Resting("SELL")
               + IF s = "BUY" THEN order.quantity ELSE -order.quantity
    BY DEF IndInv, Balanced
  <2>4. "BUY" \in Sides /\ "SELL" \in Sides
    BY DEF Sides, Reference!Sides
  <2>5. net' = net /\ order'.quantity = 0 /\ order'.side = "BUY"
    BY DEF Rest, NoOrder
  <2> HIDE DEF s
  <2>6. CASE s = "BUY"
    BY <1>1, <2>1, <2>2, <2>3, <2>4, <2>5, <2>6 DEF Balanced
  <2>7. CASE s = "SELL"
    BY <1>1, <2>1, <2>2, <2>3, <2>4, <2>5, <2>7 DEF Balanced
  <2> QED BY <1>1, <2>6, <2>7 DEF Sides, Reference!Sides
<1> QED BY <1>6, <1>7, <1>8 DEF IndInv, NothingInHand, Rest

\* An order that has been filled leaves nothing behind.
LEMMA FilledStep == IndInv /\ Filled => IndInv'
<1> SUFFICES ASSUME IndInv, Filled PROVE IndInv'
  OBVIOUS
<1>1. TypeOK' /\ Uncrossed'
  BY DEF Filled, NoOrder, IndInv, TypeOK, Uncrossed, Sides, Reference!Sides
<1>2. Balanced'
  <2>1. /\ Resting("BUY")' = Resting("BUY") /\ Resting("SELL")' = Resting("SELL")
        /\ order.quantity = 0 /\ order'.quantity = 0 /\ net' = net
    BY DEF Filled, NoOrder, Resting
  <2>2. Resting("BUY") \in Nat /\ Resting("SELL") \in Nat
    BY Types DEF IndInv, Sides, Reference!Sides
  <2> QED BY <2>1, <2>2 DEF IndInv, Balanced
<1> QED BY <1>1, <1>2 DEF IndInv, NothingInHand, Filled

\* The invariant holds in every reachable state, for all constants.
THEOREM Inductive == Spec => []IndInv
<1>1. IndInv /\ [Next]_vars => IndInv'
  <2> SUFFICES ASSUME IndInv, [Next]_vars PROVE IndInv'
    OBVIOUS
  <2>1. CASE \E o \in Orders : AddOrder(o)
    BY <2>1, AddOrderStep
  <2>2. CASE Match
    BY <2>2, MatchStep
  <2>3. CASE Rest
    BY <2>3, RestStep
  <2>4. CASE Filled
    BY <2>4, FilledStep
  <2>5. CASE UNCHANGED vars
    BY <2>5 DEF vars, IndInv, TypeOK, Uncrossed, Balanced, Resting,
                NothingInHand
  <2> QED BY <2>1, <2>2, <2>3, <2>4, <2>5 DEF Next
<1> QED BY InitInductive, <1>1, PTL DEF Spec

\* For all constants the book is well formed: every level has a price and a
\* positive volume.
THEOREM TypeCorrect == Spec => []TypeOK
BY Inductive, PTL DEF IndInv

\* For every set of prices and quantities and every sequence of orders, the
\* best bid is below the best ask, between orders and during them.
THEOREM NeverCrossed == Spec => []Uncrossed
BY Inductive, PTL DEF IndInv

\* For all constants and every sequence of orders a trade takes the same from
\* both sides, and no quantity appears or disappears: what was bought less
\* what was sold is what rests on the one side less what rests on the other.
THEOREM QuantityConserved == Spec => []Balanced
BY Inductive, PTL DEF IndInv

\* For all constants every iteration of the matching loop trades something: the
\* quantity left to match falls and never below zero, so that an order goes
\* round the loop at most as often as it has units.
THEOREM IterationsTrade ==
  Spec => [][Match => order'.quantity \in 0 .. (order.quantity - 1)]_vars
<1>1. ASSUME IndInv, Match
      PROVE  order'.quantity \in 0 .. (order.quantity - 1)
  <2>1. PICK p \in DOMAIN levels[Other(order.side)] :
          /\ Matches(p)
          /\ order' = [order EXCEPT !.quantity =
                         @ - Traded(levels[Other(order.side)][p], order.quantity)]
    BY <1>1 DEF Match
  <2>2. order.side \in Sides /\ order.quantity \in Nat
    BY <1>1 DEF IndInv, TypeOK
  <2>3. Other(order.side) \in Sides
    BY <2>2 DEF Other, Sides, Reference!Other, Reference!Sides
  <2>4. levels[Other(order.side)][p] \in Nat \ {0}
    BY <1>1, <2>1, <2>3 DEF IndInv, TypeOK
  <2>5. order.quantity > 0
    BY <2>1 DEF Matches
  <2>6. Traded(levels[Other(order.side)][p], order.quantity) \in 1 .. order.quantity
    BY <2>2, <2>4, <2>5 DEF Traded
  <2>7. order'.quantity =
          order.quantity - Traded(levels[Other(order.side)][p], order.quantity)
    BY <1>1, <2>1 DEF IndInv, TypeOK
  <2> QED BY <2>2, <2>6, <2>7
<1>2. ASSUME IndInv, [Next]_vars
      PROVE  [Match => order'.quantity \in 0 .. (order.quantity - 1)]_vars
  BY <1>1, <1>2
<1> QED BY Inductive, <1>2, PTL DEF Spec
-----------------------------------------------------------------------------
\* The loop does what placing the order at once would: each iteration leaves
\* the outcome of the order as it was.
InHand == [side : Sides, quantity : Nat, price : Int]

\* The levels an order trades with, and those it trades with before p.
Crossed(l, o) == {p \in DOMAIN l : Reference!Crosses(o.side, o.price, p)}
Ahead(l, o, p) ==
  {q \in DOMAIN l : Reference!Better(Reference!Other(o.side), q, p)}

\* The outcome of an order, in terms of sums.
LEMMA Outcome ==
  ASSUME NEW l \in Levels, NEW o \in InHand
  PROVE  /\ Reference!Unfilled(l, o)
              = Reference!Positive(o.quantity - Total(l, Crossed(l, o)))
         /\ \A p \in DOMAIN l :
              Reference!Remaining(l, o, p)
                = IF p \in Crossed(l, o)
                    THEN Reference!Positive(l[p] -
                           Reference!Positive(o.quantity - Total(l, Ahead(l, o, p))))
                    ELSE l[p]
         /\ Reference!Depleted(l, o)
              = [p \in {q \in DOMAIN l : Reference!Remaining(l, o, q) > 0} |->
                   Reference!Remaining(l, o, p)]
<1>1. \A S : Reference!VolumeOver(l, S) = Total(l, S)
  BY VolumeIsTotal
<1>2. Reference!Unfilled(l, o)
        = Reference!Positive(o.quantity - Reference!VolumeOver(l, Crossed(l, o)))
  BY DEF Reference!Unfilled, Crossed
<1>3. \A p \in DOMAIN l :
        Reference!Remaining(l, o, p)
          = IF p \in Crossed(l, o)
              THEN Reference!Positive(l[p] - Reference!Positive(o.quantity
                     - Reference!VolumeOver(l, Ahead(l, o, p))))
              ELSE l[p]
  BY DEF Reference!Remaining, Crossed, Ahead
<1>4. Reference!Depleted(l, o)
        = [p \in {q \in DOMAIN l : Reference!Remaining(l, o, q) > 0} |->
             Reference!Remaining(l, o, p)]
  BY DEF Reference!Depleted, Reference!Keep
<1> QED BY <1>1, <1>2, <1>3, <1>4

\* An order that crosses nothing trades nothing.
LEMMA NothingCrossed ==
  ASSUME NEW l \in Levels, NEW o \in InHand, Crossed(l, o) = {}
  PROVE  Reference!Unfilled(l, o) = o.quantity /\ Reference!Depleted(l, o) = l
<1>1. Reference!Unfilled(l, o) = o.quantity
  <2>1. o.quantity \in Nat /\ Total(l, {}) = 0
    BY TotalEmpty DEF InHand
  <2>2. Reference!Unfilled(l, o) = Reference!Positive(o.quantity - Total(l, {}))
    BY Outcome
  <2> QED BY <2>1, <2>2 DEF Reference!Positive
<1>2. \A p \in DOMAIN l : Reference!Remaining(l, o, p) = l[p]
  BY Outcome
<1>3. \A p \in DOMAIN l : l[p] > 0
  BY DEF Levels
<1>4. l = [p \in DOMAIN l |-> l[p]]
  BY DEF Levels
<1>5. Reference!Depleted(l, o) = [p \in DOMAIN l |-> l[p]]
  BY <1>2, <1>3, Outcome
<1> QED BY <1>1, <1>4, <1>5

\* An order for nothing does too.
LEMMA NothingWanted ==
  ASSUME NEW l \in Levels, NEW o \in InHand, o.quantity = 0
  PROVE  Reference!Unfilled(l, o) = 0 /\ Reference!Depleted(l, o) = l
<1>1. \A S \in SUBSET DOMAIN l : Reference!Positive(0 - Total(l, S)) = 0
  <2> SUFFICES ASSUME NEW S \in SUBSET DOMAIN l
               PROVE  Reference!Positive(0 - Total(l, S)) = 0
    OBVIOUS
  <2>1. Total(l, S) \in Nat
    BY VolumeNat
  <2> QED BY <2>1 DEF Reference!Positive
<1>2. Crossed(l, o) \in SUBSET DOMAIN l
  BY DEF Crossed
<1>3. Reference!Unfilled(l, o) = 0
  BY <1>1, <1>2, Outcome
<1>4. \A p \in DOMAIN l : l[p] \in Nat /\ l[p] > 0
  BY DEF Levels
<1>5. \A p \in DOMAIN l : Reference!Remaining(l, o, p) = l[p]
  <2> SUFFICES ASSUME NEW p \in DOMAIN l
               PROVE  Reference!Remaining(l, o, p) = l[p]
    OBVIOUS
  <2>1. Ahead(l, o, p) \in SUBSET DOMAIN l
    BY DEF Ahead
  <2>2. Reference!Positive(o.quantity - Total(l, Ahead(l, o, p))) = 0
    BY <1>1, <2>1
  <2>3. Reference!Positive(l[p] - 0) = l[p]
    BY <1>4 DEF Reference!Positive
  <2> QED BY <2>2, <2>3, Outcome
<1>6. l = [p \in DOMAIN l |-> l[p]]
  BY DEF Levels
<1>7. Reference!Depleted(l, o) = [p \in DOMAIN l |-> l[p]]
  BY <1>4, <1>5, Outcome
<1> QED BY <1>3, <1>6, <1>7

\* One iteration: the order trades t with the best level p it crosses.
LEMMA OutcomeAfterTrade ==
  ASSUME NEW l \in Levels, NEW o \in InHand, o.quantity > 0,
         NEW p \in Crossed(l, o), Ahead(l, o, p) = {},
         NEW t, t = Traded(l[p], o.quantity),
         NEW m, m = WithVolume(l, p, l[p] - t),
         NEW e, e = [o EXCEPT !.quantity = @ - t]
  PROVE  /\ Reference!Unfilled(m, e) = Reference!Unfilled(l, o)
         /\ Reference!Depleted(m, e) = Reference!Depleted(l, o)
<1> DEFINE q == o.quantity
           w == l[p] - t
<1>1. /\ p \in DOMAIN l /\ q \in Nat /\ l[p] \in Nat /\ l[p] > 0
      /\ o.price \in Int /\ o.side \in Sides
      /\ DOMAIN l \subseteq Int
      /\ \A r \in DOMAIN l : l[r] \in Nat /\ l[r] > 0
  BY PricesAreIntegers DEF Crossed, InHand, Levels
<1>2. t \in Nat /\ w \in Nat /\ q - t \in Nat /\ (w = 0 \/ q = t)
  BY <1>1 DEF Traded
<1>3. /\ m \in Levels
      /\ DOMAIN m = IF w = 0 THEN DOMAIN l \ {p} ELSE DOMAIN l
      /\ \A r \in DOMAIN m : m[r] = IF r = p THEN w ELSE l[r]
  <2> HIDE DEF w
  <2>1. /\ WithVolume(l, p, w) \in Levels
        /\ DOMAIN WithVolume(l, p, w) = IF w = 0 THEN DOMAIN l \ {p} ELSE DOMAIN l
    BY <1>1, <1>2, WithVolumeLevels
  <2>2. \A r \in DOMAIN WithVolume(l, p, w) :
          WithVolume(l, p, w)[r] = IF r = p THEN w ELSE l[r]
    <3>1. p \in DOMAIN l /\ w \in Nat /\ DOMAIN l \in SUBSET Prices
      BY <1>1, <1>2 DEF Levels
    <3> QED BY <3>1 DEF WithVolume, Reference!Keep, Levels
  <2>3. m = WithVolume(l, p, w)
    BY DEF w
  <2> QED BY <2>1, <2>2, <2>3
<1>4. /\ e \in InHand /\ e.quantity = q - t
      /\ e.side = o.side /\ e.price = o.price
  BY <1>2 DEF InHand
<1>5. /\ Reference!Unfilled(m, e)
            = Reference!Positive((q - t) - Total(m, Crossed(m, e)))
       /\ \A r \in DOMAIN m :
            Reference!Remaining(m, e, r)
              = IF r \in Crossed(m, e)
                  THEN Reference!Positive(m[r] -
                         Reference!Positive((q - t) - Total(m, Ahead(m, e, r))))
                  ELSE m[r]
  <2>1. /\ Reference!Unfilled(m, e)
             = Reference!Positive(e.quantity - Total(m, Crossed(m, e)))
        /\ \A r \in DOMAIN m :
             Reference!Remaining(m, e, r)
               = IF r \in Crossed(m, e)
                   THEN Reference!Positive(m[r] -
                          Reference!Positive(e.quantity - Total(m, Ahead(m, e, r))))
                   ELSE m[r]
    BY <1>3, <1>4, Outcome
  <2> QED BY <1>4, <2>1
<1>6. /\ Reference!Unfilled(l, o)
            = Reference!Positive(q - Total(l, Crossed(l, o)))
       /\ \A r \in DOMAIN l :
            Reference!Remaining(l, o, r)
              = IF r \in Crossed(l, o)
                  THEN Reference!Positive(l[r] -
                         Reference!Positive(q - Total(l, Ahead(l, o, r))))
                  ELSE l[r]
  BY Outcome
\* A sum over levels that count p loses t, on either side of the subtraction.
<1>7. ASSUME NEW S \in SUBSET DOMAIN l, p \in S
      PROVE  (q - t) - Total(m, S \cap DOMAIN m) = q - Total(l, S)
  <2>1. Total(m, S \cap DOMAIN m) = Total(l, S) + IF p \in S THEN w - l[p] ELSE 0
    BY <1>1, <1>2, WithVolumeTotal
  <2>2. Total(l, S) \in Nat
    BY VolumeNat
  <2> DEFINE V == Total(l, S)
             U == Total(m, S \cap DOMAIN m)
  <2>3. V \in Nat /\ U = V + (w - l[p])
    BY <1>7, <2>1, <2>2
  <2> HIDE DEF V, U
  <2>4. (q - t) - U = q - V
    BY <1>1, <1>2, <2>3
  <2> QED BY <2>4 DEF U, V
<1>8. Reference!Unfilled(m, e) = Reference!Unfilled(l, o)
  <2>1. Crossed(m, e) = Crossed(l, o) \cap DOMAIN m
    BY <1>3, <1>4 DEF Crossed
  <2>2. Crossed(l, o) \in SUBSET DOMAIN l
    BY DEF Crossed
  <2>3. (q - t) - Total(m, Crossed(m, e)) = q - Total(l, Crossed(l, o))
    BY <1>7, <2>1, <2>2
  <2> QED BY <1>5, <1>6, <2>3
\* A level that is left gives what it would have given.
<1>9. ASSUME NEW r \in DOMAIN m
      PROVE  Reference!Remaining(m, e, r) = Reference!Remaining(l, o, r)
  <2>1. r \in DOMAIN l
    BY <1>3
  <2>2. r \in Crossed(m, e) <=> r \in Crossed(l, o)
    BY <1>4, <2>1 DEF Crossed
  <2>3. Ahead(m, e, r) = Ahead(l, o, r) \cap DOMAIN m
    BY <1>3, <1>4 DEF Ahead
  <2>4. Ahead(l, o, r) \in SUBSET DOMAIN l
    BY DEF Ahead
  <2>5. CASE r \notin Crossed(l, o)
    <3>1. r # p /\ m[r] = l[r]
      BY <1>3, <2>5
    <3> QED BY <1>5, <1>6, <2>1, <2>2, <2>5, <3>1
  <2>6. CASE r \in Crossed(l, o) /\ r # p
    <3>1. p \in Ahead(l, o, r)
      <4>1. ~Reference!Better(Reference!Other(o.side), r, p)
        BY <2>1 DEF Ahead
      <4> QED BY <1>1, <2>1, <2>6, <4>1 DEF Ahead, Reference!Better
    <3>2. (q - t) - Total(m, Ahead(m, e, r)) = q - Total(l, Ahead(l, o, r))
      BY <1>7, <2>3, <2>4, <3>1
    <3>3. m[r] = l[r]
      BY <1>3, <2>6
    <3> QED BY <1>5, <1>6, <2>1, <2>2, <2>6, <3>2, <3>3
  <2>7. CASE r = p
    <3>1. w # 0 /\ q = t /\ m[r] = w
      BY <1>2, <1>3, <2>7
    <3>2. Ahead(m, e, r) = {} /\ Ahead(l, o, r) = {}
      BY <2>3, <2>7
    <3>3. /\ Reference!Remaining(m, e, r)
               = Reference!Positive(w - Reference!Positive((q - t) - 0))
          /\ Reference!Remaining(l, o, r)
               = Reference!Positive(l[p] - Reference!Positive(q - 0))
      <4>1. r \in Crossed(l, o) /\ r \in Crossed(m, e)
        BY <2>2, <2>7
      <4>2. Total(m, {}) = 0 /\ Total(l, {}) = 0
        BY TotalEmpty
      <4> QED BY <1>5, <1>6, <2>1, <2>7, <3>1, <3>2, <4>1, <4>2
    <3> QED BY <1>1, <1>2, <3>1, <3>3 DEF Reference!Positive
  <2> QED BY <2>5, <2>6, <2>7
\* The level that is not left would have given all it had.
<1>10. ASSUME w = 0
      PROVE  Reference!Remaining(l, o, p) = 0
  <2>1. Reference!Remaining(l, o, p)
          = Reference!Positive(l[p] - Reference!Positive(q - 0))
    BY <1>1, <1>6, TotalEmpty
  <2>2. l[p] <= q
    BY <1>1, <1>2, <1>10
  <2> QED BY <1>1, <2>1, <2>2 DEF Reference!Positive
<1>11. {r \in DOMAIN m : Reference!Remaining(m, e, r) > 0}
        = {r \in DOMAIN l : Reference!Remaining(l, o, r) > 0}
  <2>1. \A r \in DOMAIN l : r \in DOMAIN m \/ (r = p /\ w = 0)
    BY <1>3
  <2>2. ~(0 > 0) /\ DOMAIN m \subseteq DOMAIN l
    BY <1>3
  <2> QED BY <1>9, <1>10, <2>1, <2>2
<1>12. Reference!Depleted(m, e) = Reference!Depleted(l, o)
  <2> DEFINE L == {r \in DOMAIN m : Reference!Remaining(m, e, r) > 0}
  <2>1. \A r \in L : Reference!Remaining(m, e, r) = Reference!Remaining(l, o, r)
    BY <1>9
  <2>2. Reference!Depleted(m, e) = [r \in L |-> Reference!Remaining(m, e, r)]
    BY <1>3, <1>4, Outcome
  <2>3. Reference!Depleted(l, o) = [r \in L |-> Reference!Remaining(l, o, r)]
    BY <1>11, Outcome
  <2> HIDE DEF L
  <2> QED BY <2>1, <2>2, <2>3
<1> QED BY <1>8, <1>12

\* The book an order leaves, side by side.
LEMMA PlacedSides ==
  ASSUME NEW b \in [Sides -> Levels], NEW o \in InHand
  PROVE  Reference!Placed(b, o) =
           [s \in Sides |->
              IF s = o.side
                THEN Reference!Added(b[s], o.price,
                                     Reference!Unfilled(b[Other(o.side)], o))
                ELSE Reference!Depleted(b[s], o)]
<1>1. /\ o.side \in Sides /\ Other(o.side) \in Sides /\ Other(o.side) # o.side
      /\ \A s \in Sides : s = o.side \/ s = Other(o.side)
  BY Opposite DEF InHand, Sides, Reference!Sides, Other, Reference!Other
<1>2. Reference!Placed(b, o) =
        [b EXCEPT ![o.side] = Reference!Added(@, o.price,
                                 Reference!Unfilled(b[Other(o.side)], o)),
                  ![Other(o.side)] = Reference!Depleted(@, o)]
  BY DEF Reference!Placed, Other
<1> QED BY <1>1, <1>2

\* An iteration of the loop leaves the outcome alone.
LEMMA MatchSettles == IndInv /\ Match => UNCHANGED Settled
<1> SUFFICES ASSUME IndInv, Match PROVE Settled' = Settled
  OBVIOUS
<1> DEFINE opp == Other(order.side)
           l == levels[opp]
<1>1. /\ opp \in Sides /\ opp # order.side /\ order.side \in Sides
      /\ l \in Levels /\ levels \in [Sides -> Levels] /\ order \in InHand
      /\ order.price \in Int
  BY Opposite, Types DEF IndInv, TypeOK, InHand
<1>2. PICK p \in DOMAIN l :
        /\ Matches(p)
        /\ order' = [order EXCEPT !.quantity = @ - Traded(l[p], order.quantity)]
        /\ levels' = [levels EXCEPT ![opp] =
             WithVolume(l, p, l[p] - Traded(l[p], order.quantity))]
  BY DEF Match
<1> DEFINE t == Traded(l[p], order.quantity)
           m == WithVolume(l, p, l[p] - t)
<1>3. order.quantity > 0 /\ p \in Crossed(l, order)
  BY <1>2 DEF Matches, Crossed, Crosses, Reference!Crosses
<1>4. Ahead(l, order, p) = {}
  BY <1>2 DEF Matches, Best, Ahead, Other
<1>5. /\ Reference!Unfilled(m, order') = Reference!Unfilled(l, order)
      /\ Reference!Depleted(m, order') = Reference!Depleted(l, order)
  BY <1>1, <1>2, <1>3, <1>4, OutcomeAfterTrade
<1>6. /\ order' \in InHand /\ levels' \in [Sides -> Levels]
      /\ order'.side = order.side /\ order'.price = order.price
  <2>1. IndInv'
    BY MatchStep
  <2>2. levels' \in [Sides -> Levels]
    BY <2>1, LevelsOfSides DEF IndInv, TypeOK
  <2> QED BY <1>1, <1>2, <2>1, <2>2 DEF IndInv, TypeOK, InHand
<1>7. levels'[opp] = m /\ levels'[order.side] = levels[order.side]
  BY <1>1, <1>2
<1>8. \A s \in Sides : s = order.side \/ s = opp
  BY <1>1 DEF Sides, Reference!Sides
<1>9. Settled = Reference!Placed(levels, order)
  BY DEF Settled, Match
<1>10. Settled' = Reference!Placed(levels', order')
  BY DEF Settled, Match
<1> DEFINE After(s) == IF s = order.side
                         THEN Reference!Added(levels[s], order.price,
                                              Reference!Unfilled(l, order))
                         ELSE Reference!Depleted(l, order)
<1>11. Settled = [s \in Sides |-> After(s)]
  BY <1>1, <1>8, <1>9, PlacedSides
<1>12. Settled' = [s \in Sides |-> After(s)]
  <2>1. Reference!Placed(levels', order') =
          [s \in Sides |->
             IF s = order'.side
               THEN Reference!Added(levels'[s], order'.price,
                      Reference!Unfilled(levels'[Other(order'.side)], order'))
               ELSE Reference!Depleted(levels'[s], order')]
    BY <1>6, PlacedSides
  <2> HIDE DEF m, l, opp
  <2>2. Other(order'.side) = opp
    BY <1>6 DEF opp
  <2> QED BY <1>5, <1>6, <1>7, <1>8, <1>10, <2>1, <2>2
<1> QED BY <1>11, <1>12

\* The order as it joins its side, and the end of the loop, leave what the
\* whole order was to leave.
LEMMA RestSettles == IndInv /\ Rest => UNCHANGED Settled
<1> SUFFICES ASSUME IndInv, Rest PROVE Settled' = Settled
  OBVIOUS
<1> DEFINE opp == Other(order.side)
           l == levels[opp]
<1>1. /\ opp \in Sides /\ opp # order.side /\ order.side \in Sides
      /\ l \in Levels /\ levels \in [Sides -> Levels] /\ order \in InHand
      /\ order.quantity \in Nat /\ order.quantity > 0
  BY Opposite, Types DEF IndInv, TypeOK, InHand, Rest
<1>2. Crossed(l, order) = {}
  <2>1. \A p \in DOMAIN l : ~Crosses(order.side, order.price, p)
    BY NothingLeftToCross DEF Rest, IndInv
  <2> QED BY <2>1 DEF Crossed, Crosses, Reference!Crosses
<1>3. /\ Reference!Unfilled(l, order) = order.quantity
      /\ Reference!Depleted(l, order) = l
  BY <1>1, <1>2, NothingCrossed
<1>4. /\ Settled = Reference!Placed(levels, order)
      /\ Settled' = levels'
  BY DEF Settled, Rest, LoopEnds
<1>5. levels' = [levels EXCEPT ![order.side] =
                   Reference!Added(@, order.price, order.quantity)]
  <2>1. \A n, k, v : n # 0 => Joined(v, k, n) = Reference!Added(v, k, n)
    BY DEF Joined, Reference!Added
  <2>2. order.quantity # 0
    BY <1>1
  <2> QED BY <2>1, <2>2 DEF Rest
<1>6. \A s \in Sides : s = order.side \/ s = opp
  BY <1>1 DEF Sides, Reference!Sides
<1> DEFINE After(s) == IF s = order.side
                         THEN Reference!Added(levels[s], order.price,
                                              Reference!Unfilled(l, order))
                         ELSE Reference!Depleted(levels[s], order)
<1>7. Settled = [s \in Sides |-> After(s)]
  BY <1>1, <1>4, PlacedSides
<1> HIDE DEF l, opp
<1>8. \A s \in Sides : levels'[s] = After(s)
  BY <1>1, <1>3, <1>5, <1>6 DEF l
<1>9. levels' = [s \in Sides |-> levels'[s]]
  BY <1>1, <1>5
<1> HIDE DEF After
<1> QED BY <1>4, <1>7, <1>8, <1>9

LEMMA FilledSettles == IndInv /\ Filled => UNCHANGED Settled
<1> SUFFICES ASSUME IndInv, Filled PROVE Settled' = Settled
  OBVIOUS
<1> DEFINE opp == Other(order.side)
           l == levels[opp]
<1>1. /\ opp \in Sides /\ opp # order.side /\ order.side \in Sides
      /\ l \in Levels /\ levels \in [Sides -> Levels] /\ order \in InHand
      /\ order.quantity = 0
  BY Opposite, Types DEF IndInv, TypeOK, InHand, Filled
<1>2. Reference!Unfilled(l, order) = 0 /\ Reference!Depleted(l, order) = l
  BY <1>1, NothingWanted
<1>3. /\ Settled = Reference!Placed(levels, order)
      /\ Settled' = levels
  BY DEF Settled, Filled, LoopEnds
<1>4. \A s \in Sides : s = order.side \/ s = opp
  BY <1>1 DEF Sides, Reference!Sides
<1> DEFINE After(s) == IF s = order.side
                         THEN Reference!Added(levels[s], order.price,
                                              Reference!Unfilled(l, order))
                         ELSE Reference!Depleted(levels[s], order)
<1>5. Settled = [s \in Sides |-> After(s)]
  BY <1>1, <1>3, PlacedSides
<1> HIDE DEF l, opp
<1>6. \A s \in Sides : levels[s] = After(s)
  BY <1>1, <1>2, <1>4 DEF l, Reference!Added
<1>7. levels = [s \in Sides |-> levels[s]]
  BY <1>1
<1> HIDE DEF After
<1> QED BY <1>3, <1>5, <1>6, <1>7

\* OrderBook means the same in both of its instances.
LEMMA SameOutcome ==
  ASSUME NEW b, NEW o
  PROVE  Atomic!Placed(b, o) = Reference!Placed(b, o)
<1>1. \A l, S : Atomic!VolumeOver(l, S) = Reference!VolumeOver(l, S)
  <2> SUFFICES ASSUME NEW l, NEW S
               PROVE  Atomic!VolumeOver(l, S) = Reference!VolumeOver(l, S)
    OBVIOUS
  <2> DEFINE it == CHOOSE g : g = [s \in SUBSET S |-> IF s = {} THEN 0
                                   ELSE l[Chosen(s)] + g[s \ {Chosen(s)}]]
  <2>1. Atomic!VolumeOver(l, S) = it[S]
    BY DEF Atomic!VolumeOver, Atomic!MapThenSumSet, Atomic!MapThenFoldSet, Chosen
  <2>2. Reference!VolumeOver(l, S) = it[S]
    BY DEF Reference!VolumeOver, Reference!MapThenSumSet,
           Reference!MapThenFoldSet, Chosen
  <2> QED BY <2>1, <2>2
<1>2. /\ \A s, p, q : Atomic!Better(s, p, q) = Reference!Better(s, p, q)
      /\ \A s, x, p : Atomic!Crosses(s, x, p) = Reference!Crosses(s, x, p)
      /\ \A s : Atomic!Other(s) = Reference!Other(s)
      /\ \A n : Atomic!Positive(n) = Reference!Positive(n)
  BY DEF Atomic!Better, Reference!Better, Atomic!Crosses, Reference!Crosses,
         Atomic!Other, Reference!Other, Atomic!Positive, Reference!Positive
<1>3. \A l : Atomic!Unfilled(l, o) = Reference!Unfilled(l, o)
  BY <1>1, <1>2 DEF Atomic!Unfilled, Reference!Unfilled
<1>4. \A l, p : Atomic!Remaining(l, o, p) = Reference!Remaining(l, o, p)
  BY <1>1, <1>2 DEF Atomic!Remaining, Reference!Remaining
<1>5. \A l : Atomic!Depleted(l, o) = Reference!Depleted(l, o)
  BY <1>4 DEF Atomic!Depleted, Reference!Depleted, Atomic!Keep, Reference!Keep
<1>6. \A l, p, n : Atomic!Added(l, p, n) = Reference!Added(l, p, n)
  BY DEF Atomic!Added, Reference!Added, Atomic!Volume, Reference!Volume
<1> QED BY <1>2, <1>3, <1>5, <1>6 DEF Atomic!Placed, Reference!Placed

\* For every set of prices and quantities and every sequence of orders the
\* book, as it will be when add_order returns, is changed by an order as a
\* whole and at once: the matching loop implements OrderBook.
THEOREM BookImplementsOrderBook == Spec => ImplementsOrderBook
<1>1. Init => Atomic!Init
  BY DEF Init, Atomic!Init, Settled, Sides, Reference!Sides, Atomic!Sides,
         Reference!NoLevels, Atomic!NoLevels
<1>2. IndInv /\ [Next]_vars => [Atomic!Next]_Settled
  <2> SUFFICES ASSUME IndInv, [Next]_vars PROVE [Atomic!Next]_Settled
    OBVIOUS
  <2>1. ASSUME NEW o \in Orders, AddOrder(o) PROVE Atomic!Next
    <3>1. Settled = levels /\ Settled' = Reference!Placed(levels, o)
      BY <2>1 DEF AddOrder, Settled
    <3>2. Atomic!Orders = Orders
      BY DEF Atomic!Orders, Orders, Reference!Orders, Atomic!Sides,
             Reference!Sides
    <3>3. Atomic!Placed(levels, o) = Reference!Placed(levels, o)
      BY SameOutcome
    <3> QED BY <3>1, <3>2, <3>3 DEF Atomic!Next
  <2>2. CASE Match
    BY <2>2, MatchSettles
  <2>3. CASE Rest
    BY <2>3, RestSettles
  <2>4. CASE Filled
    BY <2>4, FilledSettles
  <2>5. CASE UNCHANGED vars
    BY <2>5 DEF vars, Settled
  <2> QED BY <2>1, <2>2, <2>3, <2>4, <2>5 DEF Next
<1> QED BY <1>1, <1>2, Inductive, PTL DEF Spec, ImplementsOrderBook, Atomic!Spec
=============================================================================
