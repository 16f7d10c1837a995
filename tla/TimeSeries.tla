----------------------------- MODULE TimeSeries -----------------------------
(***************************************************************************)
(* TimeSeries: a ring of the last capacity_ prices.  get_mean adds up the  *)
(* first size() elements of the array one by one; get_mean_simd calls the  *)
(* kernel sum_avx2 of AvxMath, and divides what it returns.                *)
(***************************************************************************)
EXTENDS AvxMath, FiniteSetsExt

CONSTANTS capacity_,  \* the argument of the constructor
          Prices

\* The constructor throws for a capacity of 0.
ASSUME SeriesAssumption == capacity_ \in 1 .. MaxSize /\ Prices \subseteq Int

VARIABLES
  data, head_, is_full_,
  mean,    \* what the last call of a mean divided: a sum and a number
  newest   \* history: the price last added, 0 before the first

members == <<data, head_, is_full_>>
seriesVars == <<members, mean, newest>>

Places == 0 .. capacity_ - 1
-----------------------------------------------------------------------------
\* Slips: mutated forms of the definitions below, used to show that a
\* property notices them.

PastEnd(h) == h > capacity_
StaysFull == is_full_
WholeArray == capacity_
-----------------------------------------------------------------------------
\* sum_avx2: a reduction with aligned loads.
sum_avx2 == [reduces |-> TRUE, aligned |-> TRUE, flat |-> FALSE]

\* No kernel is at work, and the array is where the constructor put it.
Idle == /\ site = "own arrays" /\ kernel = sum_avx2
        /\ \E a \in allocate(capacity_) : reads = {a}
        /\ writes = {}
        /\ size = 0 /\ i = 0
        /\ pc = "done"
        /\ lanes = [l \in Registers |-> {}] /\ total = {} /\ twice = {}

\* Either a program with a series, or another caller of a kernel.
SeriesInit == /\ Idle \/ Init
              /\ data = [k \in Places |-> 0]
              /\ head_ = 0
              /\ is_full_ = FALSE
              /\ mean = <<0, 0>>
              /\ newest = 0

AtEnd(h) == h = capacity_

add_tick(price) ==
  /\ Idle
  /\ data' = [data EXCEPT ![head_] = price]
  /\ head_' = IF AtEnd(head_ + 1) THEN 0 ELSE head_ + 1
  /\ is_full_' = (is_full_ \/ AtEnd(head_ + 1))
  /\ newest' = price
  /\ UNCHANGED <<mean, vars>>

series_size == IF is_full_ THEN capacity_ ELSE head_

\* Without a price both means are 0 at once.
SumOf(elements) == MapThenSumSet(LAMBDA k : data[k], elements)

get_mean == /\ Idle
            /\ mean' = <<SumOf(0 .. series_size - 1), series_size>>
            /\ UNCHANGED <<members, newest, vars>>

SimdLength == series_size

CallKernel == /\ Idle
              /\ series_size # 0
              /\ size' = SimdLength
              /\ pc' = "enter"
              /\ UNCHANGED <<seriesVars, site, kernel, reads, writes, i, lanes, total,
                              twice>>

InKernel == Next /\ UNCHANGED seriesVars

\* The kernel returns to get_mean_simd: an empty series has not called it.
DivideSum == /\ series_size # 0 /\ size # 0
             /\ pc = "done"
             /\ mean' = <<SumOf(total), series_size>>
             /\ size' = 0 /\ i' = 0
             /\ lanes' = [l \in Registers |-> {}]
             /\ total' = {} /\ twice' = {}
             /\ UNCHANGED <<members, newest, site, kernel, reads, writes, pc>>

FullAfterClear == FALSE

clear == /\ Idle
         /\ head_' = 0
         /\ is_full_' = FullAfterClear
         /\ UNCHANGED <<data, mean, newest, vars>>

SeriesNext == \/ \E p \in Prices : add_tick(p)
              \/ get_mean \/ CallKernel \/ InKernel \/ DivideSum \/ clear

SeriesSpec == SeriesInit /\ [][SeriesNext]_<<seriesVars, vars>>
-----------------------------------------------------------------------------
\* The series is a window over the prices added since it was cleared: the
\* place that is written next holds the oldest price once the ring is full,
\* and no price from before a clear() enters a mean, by either sum.
Oldest == IF is_full_ THEN head_ ELSE 0

Window == INSTANCE SlidingWindow WITH
            Capacity <- capacity_,
            window <- [n \in 1 .. series_size |->
                         data[(Oldest + n - 1) % capacity_]]

ImplementsWindow == Window!Spec
=============================================================================
