------------------------------ MODULE AvxMath ------------------------------
(***************************************************************************)
(* The loops of the AVX kernels: a kernel takes the elements of its arrays *)
(* Lanes at a time while that many are left, and the rest one by one.  A   *)
(* reduction (mean, standard deviation, dot product, sum) gathers in one   *)
(* accumulator per lane, adds the accumulators up and goes on in a scalar; *)
(* a mapping (return, product, z-score, trading signal) writes results.    *)
(*                                                                         *)
(* What is computed from an element, and the rounding of floats, is left   *)
(* out.  An element is its index, a sum the set of the elements in it.     *)
(***************************************************************************)
EXTENDS Integers

CONSTANTS Lanes,    \* the elements of a vector register
          MaxSize   \* bound on the length of the arrays

ASSUME LanesAssumption == /\ Lanes \in Nat \ {0}
                          /\ MaxSize \in Nat

VARIABLES
  site,      \* where a kernel is called
  kernel,    \* what is called
  reads,     \* the addresses, in elements, of the arrays it reads
  writes,    \* and of the array it writes, if it does
  size,      \* the number of elements
  i,         \* the index
  pc,        \* where the kernel is
  lanes,     \* the accumulators: the elements each lane has added up
  total,     \* the elements in the scalar sum, or whose results are written
  twice      \* history: the elements added or written more than once

arrays == <<site, kernel, reads, writes, size>>
vars == <<arrays, i, pc, lanes, total, twice>>

\* The reductions and mappings of avx_math.hpp, in their two versions, the
\* strategy (a mapping with unaligned loads) and sum_avx2 (a reduction with
\* aligned ones).  z-scores have a case of their own for a deviation of 0.
Kernels == [reduces : BOOLEAN, aligned : BOOLEAN, flat : BOOLEAN]

\* Who calls them: most callers pass whole arrays of their own, the sector
\* signal the places of a sector in such arrays.  Where the z-scores of
\* calculate_zscores_avx go is up to its caller.
Sites == {"own arrays", "calculate_zscores_avx", "SectorNeutralSignal",
          "ZScoreStrategy"}

Addresses == 0 .. MaxSize
Registers == 0 .. Lanes - 1
-----------------------------------------------------------------------------
\* Slips: mutated forms of the definitions below, used to show that a
\* property notices them.

FitsPastEnd == i < size
TailFromStart == 0
FirstLanes == UNION {lanes[l] : l \in Registers \ {0}}
OneFurther == i + 1
AlsoSectors == {"own arrays", "calculate_zscores_avx", "SectorNeutralSignal"}
-----------------------------------------------------------------------------
\* Where AlignedAllocator may put an array of n elements: nowhere (nullptr)
\* when there are none, else at a multiple of a register.  Without memory it
\* throws, and there is no array to call a kernel with.
allocate(n) == IF n = 0 THEN {0} ELSE {a \in Addresses : a % Lanes = 0}

\* The sites that call the aligned versions.
CallAligned == {"own arrays", "calculate_zscores_avx"}

\* Where element number start of an array may be, n elements before its end.
PlacesAt(start, n) == {a + start : a \in allocate(start + n)}

\* main_live passes an array of its own to calculate_zscores_avx, the test of
\* the signal engine a plain float[], which is wherever the compiler puts it.
WrittenAt(start) == IF site = "calculate_zscores_avx" THEN Addresses
                                                      ELSE PlacesAt(start, size)

Init == /\ site \in Sites
        /\ kernel \in Kernels
        /\ kernel.aligned <=> site \in CallAligned
        /\ kernel.reduces => site \in {"own arrays", "SectorNeutralSignal"}
        /\ kernel.flat => ~kernel.reduces /\ site # "ZScoreStrategy"
        /\ size \in 0 .. MaxSize
        /\ \E start \in 0 .. MaxSize - size :
             /\ site # "SectorNeutralSignal" => start = 0
             /\ \E a, b \in PlacesAt(start, size) : reads = {a, b}
             /\ \/ kernel.reduces /\ writes = {}
                \/ ~kernel.reduces /\ \E a \in WrittenAt(start) : writes = {a}
        /\ i = 0
        /\ pc = "enter"
        /\ lanes = [l \in Registers |-> {}]
        /\ total = {}
        /\ twice = {}

Empty == /\ pc = "enter"
         /\ size = 0
         /\ pc' = "done"
         /\ UNCHANGED <<arrays, i, lanes, total, twice>>

\* A standard deviation of 0: every score is 0.
Fill == /\ pc = "enter"
        /\ size > 0
        /\ kernel.flat
        /\ total' = 0 .. size - 1
        /\ pc' = "done"
        /\ UNCHANGED <<arrays, i, lanes, twice>>

Enter == /\ pc = "enter"
         /\ size > 0
         /\ ~kernel.flat
         /\ pc' = "chunks"
         /\ UNCHANGED <<arrays, i, lanes, total, twice>>

Fits == i + Lanes <= size
NextChunk == i + Lanes

Chunk == i .. i + Lanes - 1

\* An aligned load or store of a register that is not at a multiple of one is
\* undefined.  As built it stops the program, unless the compiler has used an
\* instruction that takes any address: then the kernel goes on.
Misaligned == kernel.aligned /\ \E a \in reads \cup writes : (a + i) % Lanes # 0

Fault == /\ pc = "chunks"
         /\ Fits
         /\ Misaligned
         /\ pc' = "fault"
         /\ UNCHANGED <<arrays, i, lanes, total, twice>>

ReduceChunk == /\ pc = "chunks" /\ kernel.reduces
               /\ Fits
               /\ lanes' = [l \in Registers |-> lanes[l] \cup {i + l}]
               /\ twice' = twice \cup {j \in Chunk : j \in lanes[j - i]}
               /\ i' = NextChunk
               /\ UNCHANGED <<arrays, pc, total>>

MapChunk == /\ pc = "chunks" /\ ~kernel.reduces
            /\ Fits
            /\ total' = total \cup Chunk
            /\ twice' = twice \cup (total \cap Chunk)
            /\ i' = NextChunk
            /\ UNCHANGED <<arrays, pc, lanes>>

\* temp[] holds the accumulators; all of them are added up.
HorizontalSum == UNION {lanes[l] : l \in Registers}
Overlap == {j \in HorizontalSum :
              \E k, l \in Registers : k # l /\ j \in lanes[k] \cap lanes[l]}

TailStart == i

EndOfChunks == /\ pc = "chunks"
               /\ ~Fits
               /\ pc' = "tail"
               /\ i' = TailStart
               /\ total' = IF kernel.reduces THEN HorizontalSum ELSE total
               /\ twice' = IF kernel.reduces THEN twice \cup Overlap ELSE twice
               /\ UNCHANGED <<arrays, lanes>>

TailElement == /\ pc = "tail"
               /\ i < size
               /\ total' = total \cup {i}
               /\ twice' = twice \cup (total \cap {i})
               /\ i' = i + 1
               /\ UNCHANGED <<arrays, pc, lanes>>

Return == /\ pc = "tail"
          /\ i >= size
          /\ pc' = "done"
          /\ UNCHANGED <<arrays, i, lanes, total, twice>>

Next == \/ Empty \/ Fill \/ Enter \/ ReduceChunk \/ MapChunk \/ Fault
        \/ EndOfChunks \/ TailElement \/ Return

Spec == Init /\ [][Next]_vars
-----------------------------------------------------------------------------
\* Every variable has its type.
TypeOK == /\ site \in Sites /\ kernel \in Kernels
          /\ reads \in SUBSET Nat /\ writes \in SUBSET Nat
          /\ size \in 0 .. MaxSize /\ i \in 0 .. size
          /\ pc \in {"enter", "chunks", "tail", "done", "fault"}
          /\ lanes \in [Registers -> SUBSET Nat]
          /\ total \in SUBSET Nat
          /\ twice \in SUBSET Nat

\* For every length, a multiple of Lanes or not, shorter than one register or
\* not: each element is in the result once, and none beyond the array is.
EachElementOnce == pc = "done" => total = 0 .. size - 1 /\ twice = {}

\* The caller of calculate_zscores_avx passed an array that is not aligned.
PassedMisaligned == site = "calculate_zscores_avx"
                    /\ \E a \in writes : a % Lanes # 0

\* "Aligned version - requires 32-byte aligned pointers" (avx_math.hpp:119), and
\* nothing checks it: in every chunk a register access is misaligned exactly
\* if the array for the z-scores was passed so.  No array of the program's own
\* ever is, and no sector, wherever it begins.
FaultsAtPassedArrayOnly ==
  /\ pc = "chunks" /\ Fits => (Misaligned <=> PassedMisaligned)
  /\ pc = "fault" => PassedMisaligned
=============================================================================
