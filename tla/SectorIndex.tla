---------------------------- MODULE SectorIndex ----------------------------
(***************************************************************************)
(* The constructor of SectorIndex: a counting sort of the assets by sector *)
(* in three loops, an iteration per step.  It leaves the places at which   *)
(* the sectors begin and the place of each asset in sector order.          *)
(***************************************************************************)
EXTENDS Integers, FiniteSets

CONSTANTS NumAssets, NumSectors

ASSUME SectorAssumption == NumAssets \in Nat /\ NumSectors \in Nat

Assets == 0 .. NumAssets - 1
SectorIds == 0 .. NumSectors - 1

VARIABLES
  sector_assignments,  \* the argument: the sector of each asset
  sector_offsets_,
  write_position,
  asset_to_sorted_,
  i,                   \* the index of the loop
  phase                \* the loop: count, sum, place; or built

indexVars == <<sector_assignments, sector_offsets_, write_position,
               asset_to_sorted_, i, phase>>
-----------------------------------------------------------------------------
\* Slips: mutated forms of the definitions below, used to show that a
\* property notices them.

OwnSlot(s) == s
-----------------------------------------------------------------------------
IndexInit == /\ sector_assignments \in [Assets -> SectorIds]
             /\ sector_offsets_ = [s \in 0 .. NumSectors |-> 0]
             /\ write_position = [s \in 0 .. NumSectors |-> 0]
             /\ asset_to_sorted_ = [a \in Assets |-> 0]
             /\ i = 0
             /\ phase = "count"

\* A sector's assets are counted in the offset of the next one.
CountSlot(s) == s + 1

Count == /\ phase = "count" /\ i < NumAssets
         /\ sector_offsets_' =
              [sector_offsets_ EXCEPT ![CountSlot(sector_assignments[i])] = @ + 1]
         /\ i' = i + 1
         /\ UNCHANGED <<sector_assignments, write_position, asset_to_sorted_,
                        phase>>

Counted == /\ phase = "count" /\ i = NumAssets
           /\ phase' = "sum"
           /\ i' = 1
           /\ UNCHANGED <<sector_assignments, sector_offsets_, write_position,
                          asset_to_sorted_>>

Sum == /\ phase = "sum" /\ i <= NumSectors
       /\ sector_offsets_' = [sector_offsets_ EXCEPT ![i] = @ + sector_offsets_[i - 1]]
       /\ i' = i + 1
       /\ UNCHANGED <<sector_assignments, write_position, asset_to_sorted_,
                      phase>>

Summed == /\ phase = "sum" /\ i = NumSectors + 1
          /\ write_position' = sector_offsets_
          /\ phase' = "place"
          /\ i' = 0
          /\ UNCHANGED <<sector_assignments, sector_offsets_, asset_to_sorted_>>

Place == /\ phase = "place" /\ i < NumAssets
         /\ LET s == sector_assignments[i] IN
              /\ asset_to_sorted_' = [asset_to_sorted_ EXCEPT ![i] = write_position[s]]
              /\ write_position' = [write_position EXCEPT ![s] = @ + 1]
         /\ i' = i + 1
         /\ UNCHANGED <<sector_assignments, sector_offsets_, phase>>

Built == /\ phase = "place" /\ i = NumAssets
         /\ phase' = "built"
         /\ UNCHANGED <<sector_assignments, sector_offsets_, write_position,
                        asset_to_sorted_, i>>

IndexNext == Count \/ Counted \/ Sum \/ Summed \/ Place \/ Built

IndexSpec == IndexInit /\ [][IndexNext]_indexVars

sector_start(s) == sector_offsets_[s]
sector_end(s) == sector_offsets_[s + 1]
sorted_index(a) == asset_to_sorted_[a]
-----------------------------------------------------------------------------
\* How many assets come before a sector, and before an asset of it, when the
\* assets are sorted by sector and otherwise keep their order.
Before(s) == Cardinality({a \in Assets : sector_assignments[a] < s})
Rank(a) == Before(sector_assignments[a])
             + Cardinality({b \in 0 .. a - 1 :
                              sector_assignments[b] = sector_assignments[a]})

\* The index is the stable order of the assets by sector: every asset has a
\* place of its own within its sector's range.
IndexIsStableOrder ==
  phase = "built" => /\ \A s \in 0 .. NumSectors : sector_offsets_[s] = Before(s)
                     /\ \A a \in Assets : sorted_index(a) = Rank(a)
=============================================================================
