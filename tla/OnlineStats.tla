---------------------------- MODULE OnlineStats ----------------------------
(***************************************************************************)
(* OnlineStats: mean and variance of a stream of values, kept up to date   *)
(* by Welford's recurrence without the values.                             *)
(***************************************************************************)
EXTENDS Rationals, Sequences, Functions

VARIABLES
  count_, mean_,
  m2_,       \* the sum of the squared distances from the mean
  samples    \* history: the values added

stats == <<count_, mean_, m2_, samples>>
-----------------------------------------------------------------------------
\* Slips: mutated forms of the definitions below, used to show that a
\* property notices them.

OldDistance(value) == Minus(value, mean_)
DividesByCount == IF count_ > 1 THEN Over(m2_, count_) ELSE Nought
-----------------------------------------------------------------------------
StatsInit == count_ = 0 /\ mean_ = Nought /\ m2_ = Nought /\ samples = <<>>

\* The second factor takes the mean as it has just been updated.
Distance(value) == Minus(value, mean_')

Add(value) == LET delta == Minus(value, mean_) IN
              /\ count_' = count_ + 1
              /\ mean_' = Plus(mean_, Over(delta, count_'))
              /\ m2_' = Plus(m2_, Times(delta, Distance(value)))
              /\ samples' = Append(samples, value)

Variance == IF count_ > 0 THEN Over(m2_, count_) ELSE Nought
SampleVariance == IF count_ > 1 THEN Over(m2_, count_ - 1) ELSE Nought
-----------------------------------------------------------------------------
\* The textbook definitions, over a sequence of values that is not empty.
Total(values) == FoldFunction(Plus, Nought, values)
MeanOf(values) == Over(Total(values), Len(values))
Squares(values) ==
  Total([k \in 1 .. Len(values) |->
           LET d == Minus(values[k], MeanOf(values)) IN Times(d, d)])

\* After any number of values the recurrence agrees with the definitions:
\* mean, variance of the population and of a sample, which are 0 where they
\* are not defined.
StatsAreExact ==
  LET n == Len(samples) IN
  /\ count_ = n
  /\ n = 0 => mean_ = Nought /\ Variance = Nought
  /\ n > 0 => mean_ = MeanOf(samples) /\ Variance = Over(Squares(samples), n)
  /\ SampleVariance = IF n > 1 THEN Over(Squares(samples), n - 1) ELSE Nought
=============================================================================
