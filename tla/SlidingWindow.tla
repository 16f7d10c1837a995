--------------------------- MODULE SlidingWindow ---------------------------
(***************************************************************************)
(* What a time series promises: it keeps the most recent prices, up to its *)
(* capacity, and gives their mean.                                         *)
(***************************************************************************)
EXTENDS Integers, Sequences, Functions

CONSTANTS Prices, Capacity

VARIABLES window,  \* the prices kept, oldest first
          mean,    \* the last mean: the sum of the prices and their number
          newest   \* the price last added

Init == window = <<>> /\ mean = <<0, 0>> /\ newest = 0

Add(p) ==
  /\ window' = IF Len(window) < Capacity THEN Append(window, p)
                                         ELSE Append(Tail(window), p)
  /\ newest' = p
  /\ UNCHANGED mean

Clear == window' = <<>> /\ UNCHANGED <<mean, newest>>

Mean == /\ mean' = <<FoldFunction(+, 0, window), Len(window)>>
        /\ UNCHANGED <<window, newest>>

Next == (\E p \in Prices : Add(p)) \/ Clear \/ Mean

Spec == Init /\ [][Next]_<<window, mean, newest>>
=============================================================================
