---------------------- MODULE SectorBacktesterProofs ----------------------
(***************************************************************************)
(* Proofs about SectorIndex and SectorBacktester, for any number of        *)
(* assets, sectors and periods, and any assignment of sectors.  The first  *)
(* part shows that the counting sort leaves the stable order of the assets *)
(* by sector.  The second draws from it that each place belongs to one     *)
(* asset and that a sector's places hold exactly its assets.  The third    *)
(* follows the numbers of a period from statement to statement.            *)
(***************************************************************************)
EXTENDS SectorBacktester, FiniteSetTheorems, TLAPS

\* The assets of a sector among the first n.
InSector(n, s) == {a \in 0 .. n - 1 : sector_assignments[a] = s}
Below(n, s) == Cardinality(InSector(n, s))
Earlier(s) == {a \in Assets : sector_assignments[a] < s}

IndexTypes ==
  /\ phase \in {"count", "sum", "place", "built"}
  /\ sector_assignments \in [Assets -> SectorIds]
  /\ sector_offsets_ \in [0 .. NumSectors -> Nat]
  /\ write_position \in [0 .. NumSectors -> Nat]
  /\ asset_to_sorted_ \in [Assets -> Nat]
  /\ i \in Nat

\* Counting, the offset after a sector is the number of its assets so far.
Counting ==
  phase = "count" =>
    /\ i <= NumAssets
    /\ sector_offsets_[0] = 0
    /\ \A s \in SectorIds : sector_offsets_[s + 1] = Below(i, s)

\* Summing, the offsets before the index are those of the sectors, the others
\* still the counts.
Summing ==
  phase = "sum" =>
    /\ i \in 1 .. NumSectors + 1
    /\ \A s \in 0 .. NumSectors : s < i => sector_offsets_[s] = Before(s)
    /\ \A s \in SectorIds : s + 1 >= i => sector_offsets_[s + 1] = Below(NumAssets, s)

\* Placing, a sector's position has moved on by its assets so far, and these
\* are in their places.
Offsets == \A s \in 0 .. NumSectors : sector_offsets_[s] = Before(s)
Placing ==
  phase \in {"place", "built"} =>
    /\ i <= NumAssets
    /\ phase = "built" => i = NumAssets
    /\ Offsets
    /\ phase = "place" => \A s \in SectorIds : write_position[s] = Before(s) + Below(i, s)
    /\ \A a \in Assets : a < i => asset_to_sorted_[a] = Rank(a)

IndexInv == IndexTypes /\ Counting /\ Summing /\ Placing
-----------------------------------------------------------------------------
\* The sets that are counted are finite.
LEMMA Finite ==
  /\ IsFiniteSet(Assets)
  /\ \A s : \A n \in Nat : IsFiniteSet(InSector(n, s)) /\ Below(n, s) \in Nat
  /\ \A s : IsFiniteSet(Earlier(s)) /\ Before(s) \in Nat
<1>1. IsFiniteSet(Assets)
  BY SectorAssumption, FS_Interval DEF Assets
<1>2. ASSUME NEW n \in Nat, NEW s PROVE IsFiniteSet(InSector(n, s)) /\ Below(n, s) \in Nat
  <2>1. IsFiniteSet(0 .. n - 1)
    BY FS_Interval
  <2>2. InSector(n, s) \in SUBSET (0 .. n - 1)
    BY DEF InSector
  <2> QED BY <2>1, <2>2, FS_Subset, FS_CardinalityType DEF Below
<1>3. ASSUME NEW s PROVE IsFiniteSet(Earlier(s)) /\ Before(s) \in Nat
  <2>1. Earlier(s) \in SUBSET Assets
    BY DEF Earlier
  <2>2. IsFiniteSet(Earlier(s))
    BY <1>1, <2>1, FS_Subset
  <2>3. Before(s) = Cardinality(Earlier(s))
    BY DEF Before, Earlier
  <2> QED BY <2>2, <2>3, FS_CardinalityType
<1> QED BY <1>1, <1>2, <1>3

\* One more asset is one more in its sector.
LEMMA OneMore ==
  ASSUME IndexTypes, NEW n \in Assets, NEW s \in SectorIds
  PROVE  /\ n \in Nat
         /\ sector_assignments[n] = s => Below(n + 1, s) = Below(n, s) + 1
         /\ sector_assignments[n] # s => Below(n + 1, s) = Below(n, s)
<1>0. n \in Nat
  BY SectorAssumption DEF Assets
<1>1. 0 .. (n + 1) - 1 = (0 .. n - 1) \cup {n}
  BY <1>0
<1>2. CASE sector_assignments[n] = s
  <2>1. InSector(n + 1, s) = InSector(n, s) \cup {n}
    BY <1>1, <1>2 DEF InSector
  <2>2. n \notin InSector(n, s)
    BY <1>0 DEF InSector
  <2> QED BY <1>0, <1>2, <2>1, <2>2, Finite, FS_AddElement DEF Below
<1>3. CASE sector_assignments[n] # s
  <2>1. InSector(n + 1, s) = InSector(n, s)
    BY <1>1, <1>3 DEF InSector
  <2> QED BY <1>0, <1>3, <2>1 DEF Below
<1> QED BY <1>0, <1>2, <1>3

\* No asset comes before the first sector.
LEMMA BeforeFirst == ASSUME IndexTypes PROVE Before(0) = 0
<1>1. {a \in Assets : sector_assignments[a] < 0} = {}
  BY SectorAssumption DEF IndexTypes, SectorIds
<1> QED BY <1>1, FS_EmptySet DEF Before

\* Before a sector come the assets of the one before it and those that come
\* before that.
LEMMA BeforeNext ==
  ASSUME IndexTypes, NEW s \in SectorIds
  PROVE  Before(s + 1) = Before(s) + Below(NumAssets, s)
<1>0. s \in Nat /\ NumAssets \in Nat
  BY SectorAssumption DEF SectorIds
<1>1. InSector(NumAssets, s) = {a \in Assets : sector_assignments[a] = s}
  BY DEF InSector, Assets
<1>2. \A a \in Assets : sector_assignments[a] \in Nat
  BY SectorAssumption DEF IndexTypes, SectorIds
<1>3. Earlier(s + 1) = Earlier(s) \cup InSector(NumAssets, s)
  BY <1>0, <1>1, <1>2 DEF Earlier
<1>4. Earlier(s) \cap InSector(NumAssets, s) = {}
  BY <1>0, <1>1, <1>2 DEF Earlier
<1>5. Cardinality(Earlier(s) \cap InSector(NumAssets, s)) = 0
  BY <1>4, FS_EmptySet
<1>6. Before(s) = Cardinality(Earlier(s)) /\ Before(s + 1) = Cardinality(Earlier(s + 1))
  BY DEF Before, Earlier
<1>7. /\ IsFiniteSet(Earlier(s)) /\ IsFiniteSet(InSector(NumAssets, s))
      /\ Before(s) \in Nat /\ Below(NumAssets, s) \in Nat
  BY <1>0, Finite
<1>8. Cardinality(Earlier(s + 1)) =
        Cardinality(Earlier(s)) + Cardinality(InSector(NumAssets, s)) - 0
  BY <1>3, <1>5, <1>7, FS_Union
<1> QED BY <1>6, <1>7, <1>8 DEF Below

\* The place of an asset.
LEMMA RankIs ==
  ASSUME NEW a \in Assets
  PROVE  Rank(a) = Before(sector_assignments[a]) + Below(a, sector_assignments[a])
BY DEF Rank, Below, InSector

\* As long as the assignment stays, the counts do.
LEMMA SameCounts ==
  ASSUME sector_assignments' = sector_assignments
  PROVE  /\ \A n, s : Below(n, s)' = Below(n, s)
         /\ \A s : Below(i, s)' = Below(i', s)
         /\ \A s : Before(s)' = Before(s)
         /\ \A a : Rank(a)' = Rank(a)
BY DEF Below, InSector, Before, Rank

\* The sector of an asset.
LEMMA SectorOf ==
  ASSUME IndexTypes, NEW a \in Assets
  PROVE  /\ sector_assignments[a] \in SectorIds
         /\ sector_assignments[a] \in 0 .. NumSectors
         /\ sector_assignments[a] + 1 \in 0 .. NumSectors
         /\ \A s \in SectorIds : s \in Nat /\ s + 1 \in 0 .. NumSectors
BY SectorAssumption DEF IndexTypes, SectorIds

\* The arrays as constructed.
LEMMA IndexBegins == IndexInit => IndexInv
<1> SUFFICES ASSUME IndexInit PROVE IndexInv
  OBVIOUS
<1>1. IndexTypes
  BY DEF IndexInit, IndexTypes
<1>2. \A s : Below(0, s) = 0
  <2>1. \A s : InSector(0, s) = {}
    BY DEF InSector
  <2> QED BY <2>1, FS_EmptySet DEF Below
<1>3. Counting
  BY <1>2, SectorAssumption DEF IndexInit, Counting, SectorIds
<1> QED BY <1>1, <1>3 DEF IndexInit, IndexInv, Summing, Placing

\* No step of the constructor changes the types.
LEMMA IndexTypesStep == IndexInv /\ [IndexNext]_indexVars => IndexTypes'
<1> SUFFICES ASSUME IndexInv, [IndexNext]_indexVars PROVE IndexTypes'
  OBVIOUS
<1> USE DEF IndexInv
<1>0. NumAssets \in Nat /\ NumSectors \in Nat
  BY SectorAssumption
<1>1. CASE Count
  <2>1. i \in Assets
    BY <1>0, <1>1 DEF Count, Assets, IndexTypes
  <2>2. sector_assignments[i] + 1 \in 0 .. NumSectors
    BY <2>1, SectorOf
  <2>3. sector_offsets_' \in [0 .. NumSectors -> Nat]
    BY <1>1, <2>2 DEF Count, CountSlot, IndexTypes
  <2> QED BY <1>1, <2>3 DEF Count, IndexTypes
<1>2. CASE Counted \/ Built
  BY <1>2 DEF Counted, Built, IndexTypes
<1>3. CASE Sum
  <2>1. i \in 0 .. NumSectors /\ i - 1 \in 0 .. NumSectors
    BY <1>0, <1>3 DEF Sum, Summing, IndexTypes
  <2>2. sector_offsets_[i] \in Nat /\ sector_offsets_[i - 1] \in Nat
    BY <2>1 DEF IndexTypes
  <2>3. sector_offsets_' \in [0 .. NumSectors -> Nat]
    BY <1>3, <2>2 DEF Sum, IndexTypes
  <2> QED BY <1>3, <2>3 DEF Sum, IndexTypes
<1>4. CASE Summed
  BY <1>4 DEF Summed, IndexTypes
<1>5. CASE Place
  <2>1. i \in Assets
    BY <1>0, <1>5 DEF Place, Assets, IndexTypes
  <2>2. write_position[sector_assignments[i]] \in Nat
    BY <2>1, SectorOf DEF IndexTypes
  <2>3. asset_to_sorted_' \in [Assets -> Nat]
    BY <1>5, <2>2 DEF Place, IndexTypes
  <2> DEFINE w == write_position[sector_assignments[i]] + 1
  <2>4. write_position' = [write_position EXCEPT ![sector_assignments[i]] = w]
    BY <1>5 DEF Place
  <2>5. w \in Nat /\ write_position \in [0 .. NumSectors -> Nat]
    BY <2>2 DEF IndexTypes
  <2>6. write_position' \in [0 .. NumSectors -> Nat]
    <3> HIDE DEF w
    <3> QED BY <2>4, <2>5
  <2> QED BY <1>5, <2>3, <2>6 DEF Place, IndexTypes
<1>6. CASE UNCHANGED indexVars
  BY <1>6 DEF indexVars, IndexTypes
<1> QED BY <1>1, <1>2, <1>3, <1>4, <1>5, <1>6 DEF IndexNext

\* Nor what the loops have done so far.
LEMMA IndexStep == IndexInv /\ [IndexNext]_indexVars => IndexInv'
<1> SUFFICES ASSUME IndexInv, [IndexNext]_indexVars
             PROVE  Counting' /\ Summing' /\ Placing'
  BY IndexTypesStep DEF IndexInv
<1> USE DEF IndexInv
<1>0. /\ NumAssets \in Nat /\ NumSectors \in Nat /\ i \in Nat
      /\ sector_offsets_ \in [0 .. NumSectors -> Nat]
      /\ write_position \in [0 .. NumSectors -> Nat]
      /\ asset_to_sorted_ \in [Assets -> Nat]
  BY SectorAssumption DEF IndexTypes
<1>a. sector_assignments' = sector_assignments
  BY DEF IndexNext, Count, Counted, Sum, Summed, Place, Built, indexVars
<1>b. /\ \A n, s : Below(n, s)' = Below(n, s)
      /\ \A s : Below(i, s)' = Below(i', s)
      /\ \A s : Before(s)' = Before(s)
      /\ \A a : Rank(a)' = Rank(a)
  BY <1>a, SameCounts
<1>1. CASE Count
  <2> DEFINE c == sector_assignments[i]
  <2>1. i \in Assets /\ phase = "count" /\ phase' = "count" /\ i' = i + 1
    BY <1>0, <1>1 DEF Count, Assets
  <2>2. c \in SectorIds /\ c \in Nat /\ c + 1 \in 0 .. NumSectors
    BY <2>1, SectorOf
  <2>3. sector_offsets_' = [sector_offsets_ EXCEPT ![c + 1] = @ + 1]
    BY <1>1 DEF Count, CountSlot
  <2>4. i' <= NumAssets
    BY <1>0, <1>1 DEF Count
  <2>5. sector_offsets_'[0] = 0
    BY <1>0, <2>1, <2>2, <2>3 DEF Counting
  <2>6. ASSUME NEW s \in SectorIds
        PROVE  sector_offsets_'[s + 1] = Below(i + 1, s)
    <3>1. s \in Nat /\ s + 1 \in 0 .. NumSectors
      BY <2>1, SectorOf
    <3>2. sector_offsets_[s + 1] = Below(i, s)
      BY <2>1 DEF Counting
    <3>3. CASE s = c
      <4>1. sector_offsets_'[s + 1] = sector_offsets_[s + 1] + 1
        BY <1>0, <2>3, <3>1, <3>3
      <4>2. Below(i + 1, s) = Below(i, s) + 1
        BY <2>1, <3>3, OneMore
      <4> QED BY <3>2, <4>1, <4>2
    <3>4. CASE s # c
      <4>1. s + 1 # c + 1
        BY <2>2, <3>1, <3>4
      <4> HIDE DEF c
      <4>3. sector_offsets_'[s + 1] = sector_offsets_[s + 1]
        BY <1>0, <2>3, <3>1, <4>1
      <4>2. Below(i + 1, s) = Below(i, s)
        BY <2>1, <3>4, OneMore DEF c
      <4> QED BY <3>2, <4>3, <4>2
    <3> QED BY <3>3, <3>4
  <2>7. \A s \in SectorIds : sector_offsets_'[s + 1] = Below(i, s)'
    BY <1>b, <2>1, <2>6
  <2> QED BY <2>1, <2>4, <2>5, <2>7 DEF Counting, Summing, Placing
<1>2. CASE Counted
  <2>1. /\ phase = "count" /\ phase' = "sum" /\ i = NumAssets /\ i' = 1
        /\ sector_offsets_' = sector_offsets_
    BY <1>2 DEF Counted
  <2>2. \A s \in SectorIds : sector_offsets_'[s + 1] = Below(NumAssets, s)'
    BY <1>b, <2>1 DEF Counting
  <2>3. \A s \in 0 .. NumSectors : s < i' => sector_offsets_'[s] = Before(s)'
    <3>1. \A s \in 0 .. NumSectors : s < i' => s = 0
      BY <2>1
    <3>2. sector_offsets_'[0] = Before(0)'
      BY <1>b, <2>1, BeforeFirst DEF Counting
    <3> QED BY <3>1, <3>2
  <2>4. i' \in 1 .. NumSectors + 1
    BY <1>0, <2>1
  <2> QED BY <2>1, <2>2, <2>3, <2>4 DEF Counting, Summing, Placing
<1>3. CASE Sum
  <2>1. /\ phase = "sum" /\ phase' = "sum" /\ i' = i + 1 /\ i \in 1 .. NumSectors
        /\ sector_offsets_' = [sector_offsets_ EXCEPT ![i] = @ + sector_offsets_[i - 1]]
    BY <1>0, <1>3 DEF Sum, Summing
  <2>2. i - 1 \in SectorIds /\ i - 1 \in 0 .. NumSectors /\ i - 1 < i /\ (i - 1) + 1 = i
    BY <1>0, <2>1 DEF SectorIds
  <2>3. sector_offsets_[i - 1] = Before(i - 1)
    BY <2>1, <2>2 DEF Summing
  <2>4. sector_offsets_[i] = Below(NumAssets, i - 1)
    <3>1. sector_offsets_[(i - 1) + 1] = Below(NumAssets, i - 1)
      BY <2>1, <2>2 DEF Summing
    <3> QED BY <2>2, <3>1
  <2>5. Before(i) = Before(i - 1) + Below(NumAssets, i - 1)
    BY <2>2, BeforeNext
  <2>6. Before(i - 1) \in Nat /\ Below(NumAssets, i - 1) \in Nat
    BY <1>0, Finite
  <2>7. sector_offsets_'[i] = Before(i)
    BY <1>0, <2>1, <2>3, <2>4, <2>5, <2>6
  <2>8. ASSUME NEW s \in 0 .. NumSectors, s < i'
        PROVE  sector_offsets_'[s] = Before(s)'
    <3>1. CASE s = i
      BY <1>b, <2>7, <3>1
    <3>2. CASE s # i
      <4>1. s < i
        BY <2>1, <2>8, <3>2
      <4>2. sector_offsets_[s] = Before(s)
        BY <2>1, <4>1 DEF Summing
      <4>3. sector_offsets_'[s] = sector_offsets_[s]
        BY <1>0, <2>1, <3>2
      <4> QED BY <1>b, <4>2, <4>3
    <3> QED BY <3>1, <3>2
  <2>9. ASSUME NEW s \in SectorIds, s + 1 >= i'
        PROVE  sector_offsets_'[s + 1] = Below(NumAssets, s)'
    <3>1. s \in Nat /\ s + 1 \in 0 .. NumSectors /\ s + 1 >= i /\ s + 1 # i
      BY <1>0, <2>1, <2>9 DEF SectorIds
    <3>2. sector_offsets_[s + 1] = Below(NumAssets, s)
      BY <2>1, <3>1 DEF Summing
    <3>3. sector_offsets_'[s + 1] = sector_offsets_[s + 1]
      BY <1>0, <2>1, <3>1
    <3> QED BY <1>b, <3>2, <3>3
  <2>10. i' \in 1 .. NumSectors + 1
    BY <1>0, <2>1
  <2> QED BY <2>1, <2>8, <2>9, <2>10 DEF Counting, Summing, Placing
<1>4. CASE Summed
  <2>1. /\ phase = "sum" /\ phase' = "place" /\ i = NumSectors + 1 /\ i' = 0
        /\ write_position' = sector_offsets_
        /\ sector_offsets_' = sector_offsets_
    BY <1>4 DEF Summed
  <2>2. \A s \in 0 .. NumSectors : sector_offsets_[s] = Before(s)
    BY <1>0, <2>1 DEF Summing
  <2>3. Offsets'
    BY <1>b, <2>1, <2>2 DEF Offsets
  <2>4. ASSUME NEW s \in SectorIds
        PROVE  write_position'[s] = Before(s)' + Below(i, s)'
    <3>1. s \in 0 .. NumSectors
      BY <1>0 DEF SectorIds
    <3>2. InSector(0, s) = {}
      BY DEF InSector
    <3>3. Below(0, s) = 0
      BY <3>2, FS_EmptySet DEF Below
    <3>4. Before(s) \in Nat
      BY Finite
    <3>5. Below(i, s)' = 0 /\ Before(s)' = Before(s)
      BY <1>b, <2>1, <3>3
    <3> QED BY <2>1, <2>2, <3>1, <3>4, <3>5
  <2>5. \A a \in Assets : ~(a < i')
    BY <2>1 DEF Assets
  <2> QED BY <1>0, <2>1, <2>3, <2>4, <2>5 DEF Counting, Summing, Placing
<1>5. CASE Place
  <2> DEFINE c == sector_assignments[i]
  <2>1. i \in Assets /\ phase = "place" /\ phase' = "place" /\ i' = i + 1
    BY <1>0, <1>5 DEF Place, Assets
  <2>2. c \in SectorIds /\ c \in Nat /\ c \in 0 .. NumSectors
    BY <2>1, SectorOf
  <2>3. /\ write_position' = [write_position EXCEPT ![c] = @ + 1]
        /\ asset_to_sorted_' = [asset_to_sorted_ EXCEPT ![i] = write_position[c]]
        /\ sector_offsets_' = sector_offsets_
    BY <1>5 DEF Place
  <2>4. i' <= NumAssets
    BY <1>0, <2>1 DEF Assets
  <2>5. \A s : Below(i, s) \in Nat /\ Before(s) \in Nat
    BY <1>0, Finite
  <2>6. ASSUME NEW s \in SectorIds
        PROVE  write_position'[s] = Before(s) + Below(i + 1, s)
    <3>1. write_position[s] = Before(s) + Below(i, s)
      BY <2>1 DEF Placing
    <3>2. s \in 0 .. NumSectors
      BY <1>0 DEF SectorIds
    <3>3. CASE s = c
      <4>1. write_position'[s] = write_position[s] + 1
        BY <1>0, <2>3, <3>2, <3>3
      <4>2. Below(i + 1, s) = Below(i, s) + 1
        BY <2>1, <3>3, OneMore
      <4> QED BY <2>5, <3>1, <4>1, <4>2
    <3>4. CASE s # c
      <4>1. write_position'[s] = write_position[s]
        BY <1>0, <2>3, <3>2, <3>4
      <4>2. Below(i + 1, s) = Below(i, s)
        BY <2>1, <3>4, OneMore
      <4> QED BY <3>1, <4>1, <4>2
    <3> QED BY <3>3, <3>4
  <2>7. ASSUME NEW s \in SectorIds
        PROVE  write_position'[s] = Before(s)' + Below(i, s)'
    BY <1>b, <2>1, <2>6
  <2>8. ASSUME NEW a \in Assets, a < i'
        PROVE  asset_to_sorted_'[a] = Rank(a)'
    <3>1. CASE a = i
      <4>1. asset_to_sorted_'[a] = write_position[c]
        BY <1>0, <2>1, <2>3, <3>1
      <4>2. write_position[c] = Before(c) + Below(i, c)
        BY <2>1, <2>2 DEF Placing
      <4>3. Rank(i) = Before(c) + Below(i, c)
        BY <2>1, RankIs
      <4> QED BY <1>b, <3>1, <4>1, <4>2, <4>3
    <3>2. CASE a # i
      <4>1. a < i
        BY <1>0, <2>1, <2>8, <3>2 DEF Assets
      <4>2. asset_to_sorted_'[a] = asset_to_sorted_[a]
        BY <1>0, <2>3, <3>2
      <4> QED BY <1>b, <2>1, <4>1, <4>2 DEF Placing
    <3> QED BY <3>1, <3>2
  <2>9. Offsets'
    BY <1>b, <2>1, <2>3 DEF Offsets, Placing
  <2> QED BY <2>1, <2>4, <2>7, <2>8, <2>9 DEF Counting, Summing, Placing
<1>6. CASE Built
  <2>1. /\ phase = "place" /\ phase' = "built" /\ i = NumAssets /\ i' = i
        /\ sector_offsets_' = sector_offsets_
        /\ asset_to_sorted_' = asset_to_sorted_
    BY <1>6 DEF Built
  <2>2. Offsets'
    BY <1>b, <2>1 DEF Offsets, Placing
  <2>3. \A a \in Assets : a < i' => asset_to_sorted_'[a] = Rank(a)'
    BY <1>b, <2>1 DEF Placing
  <2>4. i' <= NumAssets /\ i' = NumAssets
    BY <1>0, <2>1
  <2> QED BY <2>1, <2>2, <2>3, <2>4 DEF Counting, Summing, Placing
<1>7. CASE UNCHANGED indexVars
  <2>1. /\ phase' = phase /\ i' = i /\ sector_offsets_' = sector_offsets_
        /\ write_position' = write_position /\ asset_to_sorted_' = asset_to_sorted_
    BY <1>7 DEF indexVars
  <2>2. \A s : Below(i, s)' = Below(i, s)
    BY <1>b, <2>1
  <2>3. Counting'
    BY <1>b, <2>1, <2>2 DEF Counting
  <2>4. Summing'
    BY <1>b, <2>1, <2>2 DEF Summing
  <2>5. Placing'
    BY <1>b, <2>1, <2>2 DEF Placing, Offsets
  <2> QED BY <2>3, <2>4, <2>5
<1> QED BY <1>1, <1>2, <1>3, <1>4, <1>5, <1>6, <1>7 DEF IndexNext
-----------------------------------------------------------------------------
\* The places of a sector.
PlacesOf(s) == Before(s) .. Before(s + 1) - 1

\* The later the sector, the more assets come before it.
LEMMA BeforeMonotone ==
  ASSUME IndexTypes, NEW s \in Nat, NEW u \in Nat, s <= u
  PROVE  Before(s) <= Before(u)
<1>1. \A a \in Assets : sector_assignments[a] \in Nat
  BY SectorAssumption DEF IndexTypes, SectorIds
<1>2. Earlier(s) \in SUBSET Earlier(u)
  BY <1>1 DEF Earlier
<1>3. Cardinality(Earlier(s)) <= Cardinality(Earlier(u))
  BY <1>2, Finite, FS_Subset
<1> QED BY <1>3 DEF Before, Earlier

\* Before the end come all assets.
LEMMA BeforeEnd == ASSUME IndexTypes PROVE Before(NumSectors) = NumAssets
<1>1. \A a \in Assets : sector_assignments[a] < NumSectors
  BY SectorAssumption DEF IndexTypes, SectorIds
<1>2. {a \in Assets : sector_assignments[a] < NumSectors} = 0 .. NumAssets - 1
  BY <1>1 DEF Assets
<1>3. Cardinality(0 .. NumAssets - 1) = NumAssets
  <2>1. 0 \in Int /\ NumAssets - 1 \in Int
    BY SectorAssumption
  <2>2. Cardinality(0 .. NumAssets - 1)
          = IF 0 > NumAssets - 1 THEN 0 ELSE NumAssets - 1 - 0 + 1
    BY <2>1, FS_Interval
  <2> QED BY <2>2, SectorAssumption
<1> QED BY <1>2, <1>3 DEF Before

\* An asset is counted in its sector by all that come after it.
LEMMA BelowLater ==
  ASSUME IndexTypes, NEW a \in Assets, NEW n \in Nat, a < n
  PROVE  Below(a, sector_assignments[a]) < Below(n, sector_assignments[a])
<1> DEFINE c == sector_assignments[a]
<1>1. c \in SectorIds /\ a \in Nat
  BY SectorOf, OneMore
<1>2. Below(a + 1, c) = Below(a, c) + 1
  BY <1>1, OneMore
<1>3. InSector(a + 1, c) \in SUBSET InSector(n, c)
  <2>1. 0 .. (a + 1) - 1 \subseteq 0 .. n - 1
    BY <1>1
  <2> QED BY <2>1 DEF InSector
<1>4. Below(a + 1, c) <= Below(n, c)
  BY <1>3, Finite, FS_Subset DEF Below
<1>5. Below(a, c) \in Nat /\ Below(n, c) \in Nat
  BY <1>1, Finite
<1> QED BY <1>2, <1>4, <1>5

\* An asset's place is one of its sector's, and one of the array's.
LEMMA RankInSector ==
  ASSUME IndexTypes, NEW a \in Assets
  PROVE  Rank(a) \in PlacesOf(sector_assignments[a]) /\ Rank(a) \in Assets
<1> DEFINE c == sector_assignments[a]
<1>1. c \in SectorIds /\ c \in Nat /\ c + 1 \in Nat /\ c + 1 <= NumSectors
  BY SectorOf, SectorAssumption DEF SectorIds
<1>2. a \in Nat /\ NumAssets \in Nat /\ NumSectors \in Nat /\ a < NumAssets
  BY SectorAssumption DEF Assets
<1>3. Below(a, c) < Below(NumAssets, c)
  BY <1>2, BelowLater
<1>4. Rank(a) = Before(c) + Below(a, c)
  BY RankIs
<1>5. Before(c + 1) = Before(c) + Below(NumAssets, c)
  BY <1>1, BeforeNext
<1>6. Before(c + 1) <= NumAssets
  BY <1>1, <1>2, BeforeMonotone, BeforeEnd
<1>7. Before(c) \in Nat /\ Before(c + 1) \in Nat /\ Below(a, c) \in Nat
      /\ Below(NumAssets, c) \in Nat
  BY <1>2, Finite
<1>8. Rank(a) \in Nat /\ Rank(a) >= Before(c) /\ Rank(a) < Before(c + 1)
  BY <1>3, <1>4, <1>5, <1>7
<1> QED BY <1>2, <1>6, <1>7, <1>8 DEF PlacesOf, Assets

\* A place belongs to one sector.
LEMMA OneSector ==
  ASSUME IndexTypes, NEW s \in SectorIds, NEW u \in SectorIds, NEW k,
         k \in PlacesOf(s), k \in PlacesOf(u)
  PROVE  s = u
<1>1. s \in Nat /\ u \in Nat
  BY SectorAssumption DEF SectorIds
<1>2. ASSUME NEW v \in Nat, NEW w \in Nat, v < w, k \in PlacesOf(v), k \in PlacesOf(w)
      PROVE  FALSE
  <2>1. Before(v + 1) <= Before(w)
    BY <1>2, BeforeMonotone
  <2>2. Before(v) \in Nat /\ Before(v + 1) \in Nat /\ Before(w) \in Nat
        /\ Before(w + 1) \in Nat
    BY Finite
  <2>3. k \in Int /\ k < Before(v + 1) /\ k >= Before(w)
    BY <1>2, <2>2 DEF PlacesOf
  <2> QED BY <2>1, <2>2, <2>3
<1> QED BY <1>1, <1>2

\* No two assets have the same place.
LEMMA RankInjective ==
  ASSUME IndexTypes, NEW a \in Assets, NEW b \in Assets, Rank(a) = Rank(b)
  PROVE  a = b
<1>1. sector_assignments[a] = sector_assignments[b]
  BY RankInSector, OneSector, SectorOf
<1>2. a \in Nat /\ b \in Nat
  BY SectorAssumption DEF Assets
<1>3. Below(a, sector_assignments[a]) = Below(b, sector_assignments[a])
  <2>1. /\ Before(sector_assignments[a]) \in Nat
        /\ Below(a, sector_assignments[a]) \in Nat
        /\ Below(b, sector_assignments[a]) \in Nat
    BY <1>2, Finite
  <2>2. Rank(a) = Before(sector_assignments[a]) + Below(a, sector_assignments[a])
    BY RankIs
  <2>3. Rank(b) = Before(sector_assignments[a]) + Below(b, sector_assignments[a])
    BY <1>1, RankIs
  <2>4. Before(sector_assignments[a]) + Below(a, sector_assignments[a])
          = Before(sector_assignments[a]) + Below(b, sector_assignments[a])
    BY <2>2, <2>3
  <2> HIDE DEF Before, Below
  <2> QED BY <2>1, <2>4
<1>4. Below(a, sector_assignments[a]) \in Nat /\ Below(b, sector_assignments[b]) \in Nat
  BY <1>2, Finite
<1>5. ~(a < b)
  <2>1. a < b => Below(a, sector_assignments[a]) < Below(b, sector_assignments[a])
    BY <1>2, BelowLater
  <2> QED BY <1>3, <1>4, <2>1
<1>6. ~(b < a)
  <2>1. b < a => Below(b, sector_assignments[b]) < Below(a, sector_assignments[b])
    BY <1>2, BelowLater
  <2> QED BY <1>1, <1>3, <1>4, <2>1
<1> QED BY <1>2, <1>5, <1>6

\* A sector's assets fill its places: there are as many of both.
LEMMA RankOnto ==
  ASSUME IndexTypes, NEW s \in SectorIds, NEW k \in PlacesOf(s)
  PROVE  \E b \in Assets : sector_assignments[b] = s /\ Rank(b) = k
<1> DEFINE S == InSector(NumAssets, s)
           f == [b \in S |-> Rank(b)]
<1>0. s \in Nat /\ NumAssets \in Nat
  BY SectorAssumption DEF SectorIds
<1>1. S = {b \in Assets : sector_assignments[b] = s}
  BY DEF InSector, Assets
<1>2. f \in [S -> PlacesOf(s)]
  BY <1>1, RankInSector
<1>3. IsInjective(f)
  BY <1>1, RankInjective DEF IsInjective
<1>4. f \in Injection(S, PlacesOf(s))
  BY <1>2, <1>3 DEF Injection
<1>5. /\ Before(s) \in Nat /\ Before(s + 1) \in Nat /\ Cardinality(S) \in Nat
      /\ Before(s + 1) = Before(s) + Cardinality(S)
  BY <1>0, Finite, BeforeNext DEF Below
<1>6. /\ IsFiniteSet(PlacesOf(s))
      /\ Cardinality(PlacesOf(s)) = Cardinality(S)
  <2>1. Before(s) \in Int /\ Before(s + 1) - 1 \in Int
    BY <1>5
  <2>2. /\ IsFiniteSet(Before(s) .. Before(s + 1) - 1)
        /\ Cardinality(Before(s) .. Before(s + 1) - 1)
             = IF Before(s) > Before(s + 1) - 1 THEN 0
               ELSE Before(s + 1) - 1 - Before(s) + 1
    BY <2>1, FS_Interval
  <2> QED BY <1>5, <2>2 DEF PlacesOf
<1>7. f \in Surjection(S, PlacesOf(s))
  BY <1>4, <1>6, FS_Injection
<1>8. \E b \in S : f[b] = k
  BY <1>7 DEF Surjection
<1> QED BY <1>1, <1>8

\* When the index is built, it is the order by rank.
LEMMA BuiltIndex ==
  ASSUME IndexInv, phase = "built"
  PROVE  /\ \A a \in Assets : sorted_index(a) = Rank(a)
         /\ \A s \in SectorIds : sector_start(s) .. sector_end(s) - 1 = PlacesOf(s)
<1>1. \A a \in Assets : a < i
  BY SectorAssumption DEF IndexInv, Placing, Assets
<1>2. \A s \in SectorIds : s \in 0 .. NumSectors /\ s + 1 \in 0 .. NumSectors
  BY SectorAssumption DEF SectorIds
<1>3. \A a \in Assets : sorted_index(a) = Rank(a)
  BY <1>1 DEF IndexInv, Placing, sorted_index
<1>4. ASSUME NEW s \in SectorIds
      PROVE  sector_start(s) .. sector_end(s) - 1 = PlacesOf(s)
  BY <1>2 DEF IndexInv, Placing, Offsets, sector_start, sector_end, PlacesOf
<1> QED BY <1>3, <1>4

\* The index is the stable order.
LEMMA StableOrder == IndexInv => IndexIsStableOrder
<1> SUFFICES ASSUME IndexInv, phase = "built"
             PROVE  /\ \A s \in 0 .. NumSectors : sector_offsets_[s] = Before(s)
                    /\ \A a \in Assets : sorted_index(a) = Rank(a)
  BY DEF IndexIsStableOrder
<1>1. \A s \in 0 .. NumSectors : sector_offsets_[s] = Before(s)
  BY DEF IndexInv, Placing, Offsets
<1> QED BY <1>1, BuiltIndex

\* For any number of assets and sectors and every assignment, the counting
\* sort leaves the stable order of the assets by sector.
THEOREM IndexIsStable == IndexSpec => []IndexIsStableOrder
BY IndexBegins, IndexStep, StableOrder, PTL DEF IndexSpec
-----------------------------------------------------------------------------
\* The assets an asset is scored among, its score in a period, and its return.
Peers(a) == {b \in Assets : by_sector => sector_assignments[b] = sector_assignments[a]}
Score(a, p) == [of |-> Price(a, p), among |-> {Price(b, p) : b \in Peers(a)}]
Return(a, p) == [from |-> Price(a, p), to |-> Price(a, p + 1)]

\* How far the numbers of the period have come, statement by statement.
Moved == step # "move" => /\ by_sector => phase = "built"
                          /\ curr_prices_ = [a \in Assets |-> Price(a, t + 1)]
Branch == /\ step \in {"sort", "score sectors", "unsort"} => by_sector
          /\ step = "score" => ~by_sector
Sorted == step = "score sectors" =>
            \A a \in Assets : sorted_prices_[sorted_index(a)] = Price(a, t)
Scored == step = "unsort" =>
            \A a \in Assets : sorted_zscores_[sorted_index(a)] = Score(a, t)
Unsorted == step = "decide" => zscores_ = [a \in Assets |-> Score(a, t)]
Decided == step \in {"return", "pnl"} => signals_ = [a \in Assets |-> Score(a, t)]
Returned == step = "pnl" => returns_ = [a \in Assets |-> Return(a, t)]
Profits == \A p \in Closed, a \in Assets :
             pnl_series_[p][a] = <<Score(a, p), Return(a, p)>>

FlowTypes ==
  /\ t \in 0 .. NumPeriods
  /\ by_sector \in BOOLEAN
  /\ step \in {"move", "sort", "score sectors", "unsort", "score", "decide",
               "return", "pnl", "swap"}
  /\ prev_prices_ = [a \in Assets |-> Price(a, t)]
  /\ pnl_series_ = [p \in 0 .. NumPeriods - 1 |-> pnl_series_[p]]

Flow == /\ FlowTypes /\ Moved /\ Branch /\ Sorted /\ Scored /\ Unsorted
        /\ Decided /\ Returned /\ Profits
-----------------------------------------------------------------------------
\* Scattering puts the price of each asset at the asset's place.
LEMMA ScatteredAt ==
  ASSUME IndexInv, phase = "built", NEW dst, NEW src, NEW a \in Assets
  PROVE  Scattered(dst, src)[sorted_index(a)] = src[a]
<1>1. sorted_index(a) = Rank(a) /\ Rank(a) \in Assets
  BY BuiltIndex, RankInSector DEF IndexInv
<1>2. \E b \in Assets : sorted_index(b) = Rank(a)
  BY <1>1
<1> DEFINE b == CHOOSE b \in Assets : sorted_index(b) = Rank(a)
<1>3. b \in Assets /\ sorted_index(b) = Rank(a)
  BY <1>2
<1>4. b = a
  <2>1. Rank(b) = Rank(a)
    BY <1>3, BuiltIndex
  <2> QED BY <1>3, <2>1, RankInjective DEF IndexInv
<1>5. Scattered(dst, src)[Rank(a)] = src[b]
  BY <1>1, <1>2 DEF Scattered
<1> QED BY <1>1, <1>4, <1>5

\* The prices at the places of a sector are those of its assets.
LEMMA AmongSector ==
  ASSUME IndexInv, phase = "built", by_sector, NEW src, NEW p,
         \A b \in Assets : src[sorted_index(b)] = Price(b, p), NEW a \in Assets
  PROVE  Among(src, PlacesOf(sector_assignments[a])) = {Price(b, p) : b \in Peers(a)}
<1> DEFINE c == sector_assignments[a]
<1>1. c \in SectorIds
  BY SectorOf DEF IndexInv
<1>2. ASSUME NEW k \in PlacesOf(c)
      PROVE  \E b \in Peers(a) : src[k] = Price(b, p)
  <2>1. PICK b \in Assets : sector_assignments[b] = c /\ Rank(b) = k
    BY <1>1, RankOnto DEF IndexInv
  <2>2. src[k] = Price(b, p)
    BY <2>1, BuiltIndex
  <2> QED BY <2>1, <2>2 DEF Peers
<1>3. ASSUME NEW b \in Peers(a)
      PROVE  \E k \in PlacesOf(c) : src[k] = Price(b, p)
  <2>1. b \in Assets /\ sector_assignments[b] = c
    BY DEF Peers
  <2>2. Rank(b) \in PlacesOf(c)
    BY <2>1, RankInSector DEF IndexInv
  <2>3. src[Rank(b)] = Price(b, p)
    BY <2>1, BuiltIndex
  <2> QED BY <2>2, <2>3
<1> QED BY <1>2, <1>3 DEF Among

\* Scoring by sectors gives the score of each asset at the asset's place.
LEMMA ScoredAt ==
  ASSUME IndexInv, phase = "built", by_sector, Sorted, ScoreSectors,
         NEW a \in Assets
  PROVE  sorted_zscores_'[sorted_index(a)] = Score(a, t)
<1> DEFINE c == sector_assignments[a]
           k == Rank(a)
<1>1. c \in SectorIds /\ k \in PlacesOf(c) /\ k \in Assets /\ sorted_index(a) = k
  BY SectorOf, RankInSector, BuiltIndex DEF IndexInv
<1> DEFINE In(s) == k \in sector_start(s) .. sector_end(s) - 1
           u == CHOOSE s \in SectorIds : In(s)
<1>2. \A s \in SectorIds : In(s) <=> k \in PlacesOf(s)
  BY BuiltIndex
<1>3. \E s \in SectorIds : In(s)
  BY <1>1, <1>2
<1>4. u \in SectorIds /\ In(u)
  BY <1>3
<1>5. u = c
  <2>1. k \in PlacesOf(u)
    BY <1>2, <1>4
  <2> QED BY <1>1, <1>4, <2>1, OneSector DEF IndexInv
<1>6. sorted_zscores_'[k] =
        [of |-> sorted_prices_[k],
         among |-> Among(sorted_prices_, sector_start(u) .. sector_end(u) - 1)]
  BY <1>1, <1>3 DEF ScoreSectors
<1>7. sector_start(u) .. sector_end(u) - 1 = PlacesOf(c)
  BY <1>4, <1>5, BuiltIndex
<1>8. \A b \in Assets : sorted_prices_[sorted_index(b)] = Price(b, t)
  BY DEF Sorted, ScoreSectors, At
<1>9. Among(sorted_prices_, PlacesOf(c)) = {Price(b, t) : b \in Peers(a)}
  BY <1>8, AmongSector
<1> QED BY <1>1, <1>6, <1>7, <1>8, <1>9 DEF Score
-----------------------------------------------------------------------------
\* The backtester as constructed.
LEMMA FlowBegins == Init => IndexInv /\ Flow
<1> SUFFICES ASSUME Init PROVE IndexInv /\ Flow
  OBVIOUS
<1>1. IndexInv
  BY IndexBegins DEF Init
<1>2. FlowTypes
  BY PeriodsAssumption DEF Init, FlowTypes
<1>3. Closed = {}
  BY PeriodsAssumption DEF Init, Closed
<1> QED BY <1>1, <1>2, <1>3
        DEF Init, Flow, Moved, Branch, Sorted, Scored, Unsorted, Decided,
            Returned, Profits

\* A statement leaves the index alone, and which prices it is about.
LEMMA SameScores ==
  ASSUME sector_assignments' = sector_assignments, by_sector' = by_sector
  PROVE  \A a, p : Score(a, p)' = Score(a, p) /\ Return(a, p)' = Return(a, p)
BY DEF Score, Return, Peers, Price

\* What a statement that computes no profit leaves of the profits: the periods
\* closed stay so, and no others are.
LEMMA SameProfits ==
  ASSUME Flow, sector_assignments' = sector_assignments, by_sector' = by_sector,
         pnl_series_' = pnl_series_, Closed' = Closed
  PROVE  Profits'
<1>1. \A a, p : Score(a, p)' = Score(a, p) /\ Return(a, p)' = Return(a, p)
  BY SameScores
<1> QED BY <1>1 DEF Flow, Profits

\* The constructor of the index runs before the loop begins.
LEMMA FlowBuild == ASSUME IndexInv, Flow, BuildIndex PROVE Flow'
<1>1. phase # "built"
  BY DEF BuildIndex, IndexNext, Count, Counted, Sum, Summed, Place, Built
<1>2. /\ UNCHANGED <<by_sector, t, step, prices, buffers, pnl_series_>>
      /\ sector_assignments' = sector_assignments /\ by_sector
  BY DEF BuildIndex, IndexNext, Count, Counted, Sum, Summed, Place, Built
<1>3. step = "move" /\ step' = "move"
  BY <1>1, <1>2 DEF Flow, Moved
<1>4. Closed' = Closed
  BY <1>2 DEF Closed
<1>5. Profits'
  BY <1>2, <1>4, SameProfits
<1>6. FlowTypes'
  BY <1>2 DEF Flow, FlowTypes, prices, Price
<1> QED BY <1>3, <1>5, <1>6
        DEF Flow, Moved, Branch, Sorted, Scored, Unsorted, Decided, Returned

\* What all statements have in common.
LEMMA Statement ==
  ASSUME Flow, NEW s, NEW n, At(s, n)
  PROVE  /\ t \in 0 .. NumPeriods - 1 /\ t \in Nat
         /\ step = s /\ step' = n
         /\ by_sector => phase = "built"
         /\ UNCHANGED <<sector_assignments, sector_offsets_, asset_to_sorted_,
                        phase, by_sector>>
         /\ \A a : sorted_index(a)' = sorted_index(a)
         /\ \A a, p : Score(a, p)' = Score(a, p) /\ Return(a, p)' = Return(a, p)
<1>1. /\ step = s /\ step' = n /\ (by_sector => phase = "built")
      /\ UNCHANGED <<sector_assignments, sector_offsets_, asset_to_sorted_,
                     phase, by_sector>>
      /\ t < NumPeriods
  BY DEF At, indexVars
<1>2. t \in 0 .. NumPeriods - 1 /\ t \in Nat
  <2>1. t \in 0 .. NumPeriods
    BY DEF Flow, FlowTypes
  <2> QED BY <1>1, <2>1, PeriodsAssumption
<1>3. \A a : sorted_index(a)' = sorted_index(a)
  BY <1>1 DEF sorted_index
<1> QED BY <1>1, <1>2, <1>3, SameScores

\* A statement inside the loop body that computes no profit.
LEMMA SameClosed ==
  ASSUME t' = t, step # "swap", step' # "swap"
  PROVE  Closed' = Closed
BY DEF Closed
-----------------------------------------------------------------------------
\* The statements, one by one: prices move.
LEMMA FlowMove == ASSUME IndexInv, Flow, MovePrices PROVE Flow'
<1> DEFINE n == IF by_sector THEN "sort" ELSE "score"
<1>1. At("move", n) /\ UNCHANGED <<t, prev_prices_, buffers, pnl_series_>>
  BY DEF MovePrices
<1>2. /\ step = "move" /\ step' = n /\ by_sector' = by_sector
      /\ by_sector => phase' = "built"
      /\ t \in Nat /\ sector_assignments' = sector_assignments
  BY <1>1, Statement
<1>3. by_sector \in BOOLEAN /\ prev_prices_ = [a \in Assets |-> Price(a, t)]
  BY DEF Flow, FlowTypes
<1>4. curr_prices_' = [a \in Assets |-> Price(a, t + 1)]
  BY <1>3 DEF MovePrices, Price
<1>5. step' \in {"sort", "score"} /\ (step' = "sort" <=> by_sector)
  BY <1>2, <1>3
<1>6. Profits'
  BY <1>1, <1>2, <1>5, SameClosed, SameProfits
<1>7. FlowTypes'
  BY <1>1, <1>2, <1>5 DEF Flow, FlowTypes, Price
<1>8. Moved' /\ Branch'
  BY <1>1, <1>2, <1>4, <1>5 DEF Moved, Branch, Price
<1> QED BY <1>5, <1>6, <1>7, <1>8
        DEF Flow, Sorted, Scored, Unsorted, Decided, Returned

\* A statement of the rest of the body leaves what the earlier ones have done.
LEMMA FlowOn ==
  ASSUME Flow, NEW s, NEW n, At(s, n), s # "move", s # "swap",
         n \in {"score sectors", "unsort", "decide", "return", "pnl"},
         n \in {"score sectors", "unsort"} => by_sector,
         t' = t, prices' = prices, pnl_series_' = pnl_series_
  PROVE  FlowTypes' /\ Moved' /\ Branch' /\ Profits'
<1>1. /\ step = s /\ step' = n /\ by_sector' = by_sector
      /\ by_sector => phase = "built" /\ phase' = "built"
      /\ t \in Nat /\ sector_assignments' = sector_assignments
  BY Statement
<1>2. prev_prices_' = prev_prices_ /\ curr_prices_' = curr_prices_
  BY DEF prices
<1>3. Profits'
  BY <1>1, SameClosed, SameProfits
<1>4. FlowTypes'
  BY <1>1, <1>2 DEF Flow, FlowTypes, Price
<1>5. Moved'
  BY <1>1, <1>2 DEF Flow, Moved, Price
<1>6. Branch'
  BY <1>1 DEF Branch
<1> QED BY <1>3, <1>4, <1>5, <1>6

\* Each price goes to its asset's place.
LEMMA FlowSort == ASSUME IndexInv, Flow, SortToSectorOrder PROVE Flow'
<1>1. At("sort", "score sectors") /\ t' = t /\ prices' = prices
      /\ pnl_series_' = pnl_series_
  BY DEF SortToSectorOrder, prices
<1>2. by_sector /\ phase = "built" /\ step' = "score sectors"
  BY <1>1, Statement DEF Flow, Branch
<1>3. FlowTypes' /\ Moved' /\ Branch' /\ Profits'
  BY <1>1, <1>2, FlowOn
<1>4. prev_prices_ = [a \in Assets |-> Price(a, t)]
  BY DEF Flow, FlowTypes
<1>5. ASSUME NEW a \in Assets
      PROVE  sorted_prices_'[sorted_index(a)'] = Price(a, t')
  <2>1. sorted_prices_' = Scattered(sorted_prices_, prev_prices_)
    BY DEF SortToSectorOrder, SignalPrices
  <2>2. sorted_prices_'[sorted_index(a)] = prev_prices_[a]
    BY <1>2, <2>1, ScatteredAt
  <2>3. sorted_index(a)' = sorted_index(a)
    BY <1>1, Statement
  <2> QED BY <1>1, <1>4, <2>2, <2>3
<1>6. Sorted'
  BY <1>5 DEF Sorted, Price
<1> QED BY <1>2, <1>3, <1>6 DEF Flow, Scored, Unsorted, Decided, Returned

\* Each sector's places are scored by themselves.
LEMMA FlowScoreSectors == ASSUME IndexInv, Flow, ScoreSectors PROVE Flow'
<1>1. At("score sectors", "unsort") /\ t' = t /\ prices' = prices
      /\ pnl_series_' = pnl_series_
  BY DEF ScoreSectors, prices
<1>2. by_sector /\ phase = "built" /\ step' = "unsort"
  BY <1>1, Statement DEF Flow, Branch
<1>3. FlowTypes' /\ Moved' /\ Branch' /\ Profits'
  BY <1>1, <1>2, FlowOn
<1>4. ASSUME NEW a \in Assets
      PROVE  (sorted_zscores_[sorted_index(a)])' = Score(a, t)'
  <2>1. sorted_zscores_'[sorted_index(a)] = Score(a, t)
    BY <1>2, ScoredAt DEF Flow
  <2>2. sorted_index(a)' = sorted_index(a)
    BY <1>1, Statement
  <2>3. Score(a, t)' = Score(a, t)
    <3>1. sector_assignments' = sector_assignments /\ by_sector' = by_sector
      BY <1>1, Statement
    <3> QED BY <1>1, <3>1 DEF Score, Peers, Price
  <2> QED BY <2>1, <2>2, <2>3
<1>5. Scored'
  BY <1>4 DEF Scored
<1> QED BY <1>2, <1>3, <1>5 DEF Flow, Sorted, Unsorted, Decided, Returned

\* Each score goes back to its asset.
LEMMA FlowUnsort == ASSUME IndexInv, Flow, UnsortFromSectorOrder PROVE Flow'
<1>1. At("unsort", "decide") /\ t' = t /\ prices' = prices
      /\ pnl_series_' = pnl_series_
  BY DEF UnsortFromSectorOrder, prices
<1>2. /\ step = "unsort" /\ step' = "decide"
      /\ sector_assignments' = sector_assignments /\ by_sector' = by_sector
  BY <1>1, Statement
<1>3. FlowTypes' /\ Moved' /\ Branch' /\ Profits'
  BY <1>1, FlowOn
<1>4. zscores_' = [a \in Assets |-> Score(a, t)]
  BY <1>2 DEF UnsortFromSectorOrder, Flow, Scored
<1>5. Unsorted'
  BY <1>1, <1>2, <1>4 DEF Unsorted, Score, Peers, Price
<1> QED BY <1>2, <1>3, <1>5 DEF Flow, Sorted, Scored, Decided, Returned

\* All assets are scored together.
LEMMA FlowScoreAll == ASSUME IndexInv, Flow, ScoreAll PROVE Flow'
<1>1. At("score", "decide") /\ t' = t /\ prices' = prices
      /\ pnl_series_' = pnl_series_
  BY DEF ScoreAll, prices
<1>2. /\ step = "score" /\ step' = "decide" /\ ~by_sector
      /\ sector_assignments' = sector_assignments /\ by_sector' = by_sector
  BY <1>1, Statement DEF Flow, Branch
<1>3. FlowTypes' /\ Moved' /\ Branch' /\ Profits'
  BY <1>1, FlowOn
<1>4. prev_prices_ = [a \in Assets |-> Price(a, t)]
  BY DEF Flow, FlowTypes
<1>5. Among(prev_prices_, Assets) = {Price(b, t) : b \in Assets}
  BY <1>4 DEF Among
<1>6. \A a : Peers(a) = Assets
  BY <1>2 DEF Peers
<1>7. zscores_' = [a \in Assets |-> Score(a, t)]
  BY <1>4, <1>5, <1>6 DEF ScoreAll, SignalPrices, Score
<1>8. Unsorted'
  BY <1>1, <1>2, <1>7 DEF Unsorted, Score, Peers, Price
<1> QED BY <1>2, <1>3, <1>8 DEF Flow, Sorted, Scored, Decided, Returned

\* The signals are read off the scores.
LEMMA FlowDecide == ASSUME IndexInv, Flow, Decide PROVE Flow'
<1>1. At("decide", "return") /\ t' = t /\ prices' = prices
      /\ pnl_series_' = pnl_series_
  BY DEF Decide, prices
<1>2. /\ step = "decide" /\ step' = "return"
      /\ sector_assignments' = sector_assignments /\ by_sector' = by_sector
  BY <1>1, Statement
<1>3. FlowTypes' /\ Moved' /\ Branch' /\ Profits'
  BY <1>1, FlowOn
<1>4. signals_' = [a \in Assets |-> Score(a, t)]
  BY <1>2 DEF Decide, Flow, Unsorted
<1>5. Decided'
  BY <1>1, <1>2, <1>4 DEF Decided, Score, Peers, Price
<1> QED BY <1>2, <1>3, <1>5 DEF Flow, Sorted, Scored, Unsorted, Returned

\* The returns are computed from both prices.
LEMMA FlowReturns == ASSUME IndexInv, Flow, CalculateReturns PROVE Flow'
<1>1. At("return", "pnl") /\ t' = t /\ prices' = prices
      /\ pnl_series_' = pnl_series_ /\ signals_' = signals_
  BY DEF CalculateReturns, prices
<1>2. /\ step = "return" /\ step' = "pnl"
      /\ sector_assignments' = sector_assignments /\ by_sector' = by_sector
  BY <1>1, Statement
<1>3. FlowTypes' /\ Moved' /\ Branch' /\ Profits'
  BY <1>1, FlowOn
<1>4. signals_' = [a \in Assets |-> Score(a, t)]
  BY <1>1, <1>2 DEF Flow, Decided
<1>5. Decided'
  BY <1>1, <1>2, <1>4 DEF Decided, Score, Peers, Price
<1>6. /\ prev_prices_ = [a \in Assets |-> Price(a, t)]
      /\ curr_prices_ = [a \in Assets |-> Price(a, t + 1)]
  BY <1>2 DEF Flow, FlowTypes, Moved
<1>7. returns_' = [a \in Assets |-> Return(a, t)]
  BY <1>6 DEF CalculateReturns, Return
<1>8. Returned'
  BY <1>1, <1>7 DEF Returned, Return, Price
<1> QED BY <1>2, <1>3, <1>5, <1>8 DEF Flow, Sorted, Scored, Unsorted

\* The period's profit is computed, and the period closed.
LEMMA FlowPnl == ASSUME IndexInv, Flow, CalculatePnl PROVE Flow'
<1>1. At("pnl", "swap") /\ t' = t /\ prices' = prices
  BY DEF CalculatePnl, prices
<1>2. /\ t \in 0 .. NumPeriods - 1 /\ t \in Nat
      /\ step = "pnl" /\ step' = "swap"
      /\ (by_sector => phase = "built") /\ phase' = phase /\ by_sector' = by_sector
      /\ \A a, p : Score(a, p)' = Score(a, p) /\ Return(a, p)' = Return(a, p)
  BY <1>1, Statement
<1>3. prev_prices_' = prev_prices_ /\ curr_prices_' = curr_prices_
  BY <1>1 DEF prices
<1> DEFINE profit == [a \in Assets |-> <<signals_[a], returns_[a]>>]
<1>4. pnl_series_' = [pnl_series_ EXCEPT ![t] = profit]
  BY DEF CalculatePnl
<1>5. pnl_series_ = [p \in 0 .. NumPeriods - 1 |-> pnl_series_[p]]
  BY DEF Flow, FlowTypes
<1>6. pnl_series_'[t] = profit
  BY <1>2, <1>4, <1>5
<1>7. \A p \in 0 .. NumPeriods - 1 : p # t => pnl_series_'[p] = pnl_series_[p]
  BY <1>4, <1>5
<1>8. pnl_series_' = [p \in 0 .. NumPeriods - 1 |-> pnl_series_'[p]]
  BY <1>4, <1>5
<1>9. FlowTypes'
  BY <1>1, <1>2, <1>3, <1>8 DEF Flow, FlowTypes, Price
<1>10. Moved'
  BY <1>1, <1>2, <1>3 DEF Flow, Moved, Price
<1>11. \A p \in Closed' : p = t \/ p \in Closed
  BY <1>1, <1>2 DEF Closed
<1>12. ASSUME NEW p \in Closed', NEW a \in Assets
       PROVE  pnl_series_'[p][a] = <<Score(a, p), Return(a, p)>>
  <2>1. CASE p = t
    <3>1. signals_[a] = Score(a, t) /\ returns_[a] = Return(a, t)
      BY <1>2 DEF Flow, Decided, Returned
    <3> QED BY <1>6, <2>1, <3>1
  <2>2. CASE p # t
    <3>1. p \in Closed /\ p \in 0 .. NumPeriods - 1
      BY <1>11, <2>2 DEF Closed
    <3>2. pnl_series_[p][a] = <<Score(a, p), Return(a, p)>>
      BY <3>1 DEF Flow, Profits
    <3> QED BY <1>7, <2>2, <3>1, <3>2
  <2> QED BY <2>1, <2>2
<1>13. Profits'
  BY <1>2, <1>12 DEF Profits
<1> QED BY <1>2, <1>9, <1>10, <1>13
        DEF Flow, Branch, Sorted, Scored, Unsorted, Decided, Returned

\* The price buffers are swapped, and the next period begins.
LEMMA FlowSwap == ASSUME IndexInv, Flow, Swap PROVE Flow'
<1>1. At("swap", "move") /\ t' = t + 1 /\ pnl_series_' = pnl_series_
      /\ prev_prices_' = curr_prices_
  BY DEF Swap, Swapped
<1>2. /\ t \in 0 .. NumPeriods - 1 /\ t \in Nat
      /\ step = "swap" /\ step' = "move" /\ by_sector' = by_sector
      /\ sector_assignments' = sector_assignments
  BY <1>1, Statement
<1>3. t + 1 \in 0 .. NumPeriods
  BY <1>2, PeriodsAssumption
<1>4. curr_prices_ = [a \in Assets |-> Price(a, t + 1)]
  BY <1>2 DEF Flow, Moved
<1>5. FlowTypes'
  BY <1>1, <1>2, <1>3, <1>4 DEF Flow, FlowTypes, Price
<1>6. Closed' = Closed
  BY <1>1, <1>2 DEF Closed
<1>7. Profits'
  BY <1>1, <1>2, <1>6, SameProfits
<1> QED BY <1>2, <1>5, <1>7
        DEF Flow, Moved, Branch, Sorted, Scored, Unsorted, Decided, Returned

\* A step that changes nothing.
LEMMA FlowStutters == ASSUME Flow, UNCHANGED vars PROVE Flow'
<1>1. /\ t' = t /\ step' = step /\ by_sector' = by_sector /\ phase' = phase
      /\ sector_assignments' = sector_assignments
      /\ asset_to_sorted_' = asset_to_sorted_
      /\ prev_prices_' = prev_prices_ /\ curr_prices_' = curr_prices_
      /\ sorted_prices_' = sorted_prices_ /\ sorted_zscores_' = sorted_zscores_
      /\ zscores_' = zscores_ /\ signals_' = signals_ /\ returns_' = returns_
      /\ pnl_series_' = pnl_series_
  BY DEF vars, indexVars, prices, buffers
<1>2. \A a : Peers(a)' = Peers(a)
  BY <1>1 DEF Peers
<1>3. Closed' = Closed
  BY <1>1 DEF Closed
<1>4. Profits'
  BY <1>1, <1>3, SameProfits
<1>5. FlowTypes' /\ Moved' /\ Branch'
  BY <1>1 DEF Flow, FlowTypes, Moved, Branch, Price
<1>6. Sorted'
  BY <1>1 DEF Flow, Sorted, sorted_index, Price
<1>7. Scored'
  BY <1>1, <1>2 DEF Flow, Scored, sorted_index, Score, Price
<1>8. Unsorted'
  BY <1>1, <1>2 DEF Flow, Unsorted, Score, Price
<1>9. Decided'
  BY <1>1, <1>2 DEF Flow, Decided, Score, Price
<1>10. Returned'
  BY <1>1 DEF Flow, Returned, Return, Price
<1> QED BY <1>4, <1>5, <1>6, <1>7, <1>8, <1>9, <1>10 DEF Flow

\* The invariant of the backtester is inductive.
LEMMA FlowStep == IndexInv /\ Flow /\ [Next]_vars => (IndexInv /\ Flow)'
<1> SUFFICES ASSUME IndexInv, Flow, [Next]_vars PROVE IndexInv' /\ Flow'
  OBVIOUS
<1>1. [IndexNext]_indexVars
  BY DEF Next, vars, BuildIndex, At, MovePrices, SortToSectorOrder, ScoreSectors,
         UnsortFromSectorOrder, ScoreAll, Decide, CalculateReturns, CalculatePnl,
         Swap
<1>2. IndexInv'
  BY <1>1, IndexStep
<1>3. Flow'
  BY FlowBuild, FlowMove, FlowSort, FlowScoreSectors, FlowUnsort, FlowScoreAll,
     FlowDecide, FlowReturns, FlowPnl, FlowSwap, FlowStutters DEF Next
<1> QED BY <1>2, <1>3
-----------------------------------------------------------------------------
\* The constructor of the sector backtester builds the stable order, whatever
\* the loop that follows it does.
THEOREM BacktestIndexIsStable == Spec => []IndexIsStableOrder
BY FlowBegins, FlowStep, StableOrder, PTL DEF Spec

\* What a period's profit is made of, in the terms of the invariant.
LEMMA ProfitOf ==
  ASSUME Flow, NEW p \in Closed, NEW a \in Assets
  PROVE  pnl_series_[p][a][1] = Score(a, p) /\ pnl_series_[p][a][2] = Return(a, p)
BY DEF Flow, Profits

\* In every backtest, of any size and with any sectors, a period's profit
\* multiplies signals computed from the prices at the period's beginning with
\* the returns from its beginning to its end.
THEOREM SignalsDoNotLookAhead == Spec => []NoLookAhead
<1>1. IndexInv /\ Flow => NoLookAhead
  <2> SUFFICES ASSUME Flow, NEW p \in Closed, NEW a \in Assets
               PROVE  /\ pnl_series_[p][a][1].of = Price(a, p)
                      /\ \A price \in pnl_series_[p][a][1].among : price.period = p
                      /\ pnl_series_[p][a][2] = [from |-> Price(a, p), to |-> Price(a, p + 1)]
    BY DEF NoLookAhead
  <2>1. Score(a, p).of = Price(a, p)
    BY DEF Score
  <2>2. \A price \in Score(a, p).among : price.period = p
    BY DEF Score, Price
  <2> QED BY <2>1, <2>2, ProfitOf DEF Return
<1> QED BY <1>1, FlowBegins, FlowStep, PTL DEF Spec

\* In every backtest, of any size and with any sectors, an asset is scored
\* among its sector's assets, all of them and no others: sorting into sector
\* order, scoring there and sorting back lose no asset and confuse no two.
THEOREM ScoresAreSectorNeutral == Spec => []SectorNeutral
<1>1. IndexInv /\ Flow => SectorNeutral
  <2> SUFFICES ASSUME Flow, NEW p \in Closed, NEW a \in Assets
               PROVE  {price.asset : price \in pnl_series_[p][a][1].among} = Peers(a)
    BY DEF SectorNeutral, Peers
  <2>1. Score(a, p).among = {Price(b, p) : b \in Peers(a)}
    BY DEF Score
  <2>2. \A b : Price(b, p).asset = b
    BY DEF Price
  <2>3. {price.asset : price \in {Price(b, p) : b \in Peers(a)}} = Peers(a)
    BY <2>2
  <2> QED BY <2>1, <2>3, ProfitOf
<1> QED BY <1>1, FlowBegins, FlowStep, PTL DEF Spec
=============================================================================
