-------------------------- MODULE SectorBacktester --------------------------
(***************************************************************************)
(* The loop of a backtest: in each period prices move, scores are computed *)
(* from the previous prices, signals from the scores, returns from both    *)
(* prices and a profit from signals and returns; then the price buffers    *)
(* are swapped.  BacktesterSector scores each sector by itself, in sector  *)
(* order; BacktesterGlobal scores all assets together.                     *)
(*                                                                         *)
(* The model follows where the numbers come from.  A price is the asset    *)
(* and the period it is of; a score is a price and the set of the prices   *)
(* it is compared with; a signal is the score it is read off.              *)
(***************************************************************************)
EXTENDS SectorIndex

CONSTANT NumPeriods

ASSUME PeriodsAssumption == NumPeriods \in Nat

VARIABLES
  by_sector,       \* which backtester it is
  t, step,         \* the period, and the next statement of the loop
  prev_prices_, curr_prices_,
  sorted_prices_, sorted_zscores_,
  zscores_, signals_, returns_,
  pnl_series_      \* per period, the terms of the sum for each asset

buffers == <<sorted_prices_, sorted_zscores_, zscores_, signals_, returns_>>
prices == <<prev_prices_, curr_prices_>>
vars == <<indexVars, by_sector, t, step, prices, buffers, pnl_series_>>

Price(a, p) == [asset |-> a, period |-> p]
NoPrice == Price(-1, -1)
NoScore == [of |-> NoPrice, among |-> {}]
NoReturn == [from |-> NoPrice, to |-> NoPrice]
-----------------------------------------------------------------------------
\* Slips: mutated forms of the definitions below, used to show that a
\* property notices them.

Gathered(dst, src) == [k \in Assets |-> src[sorted_index(k)]]
ScoredPrices == curr_prices_
-----------------------------------------------------------------------------
Init == /\ IndexInit
        /\ by_sector \in BOOLEAN
        /\ t = 0 /\ step = "move"
        /\ prev_prices_ = [a \in Assets |-> Price(a, 0)]
        /\ curr_prices_ = [a \in Assets |-> NoPrice]
        /\ sorted_prices_ = [a \in Assets |-> NoPrice]
        /\ sorted_zscores_ = [a \in Assets |-> NoScore]
        /\ zscores_ = [a \in Assets |-> NoScore]
        /\ signals_ = [a \in Assets |-> NoScore]
        /\ returns_ = [a \in Assets |-> NoReturn]
        /\ pnl_series_ = [p \in 0 .. NumPeriods - 1 |-> [a \in Assets |-> <<>>]]

\* A statement of the loop body, and the one after it.
At(statement, next) == /\ by_sector => phase = "built"
                       /\ t < NumPeriods
                       /\ step = statement
                       /\ step' = next
                       /\ UNCHANGED <<indexVars, by_sector>>

MovePrices ==
  /\ At("move", IF by_sector THEN "sort" ELSE "score")
  /\ curr_prices_' = [a \in Assets |->
                        Price(prev_prices_[a].asset, prev_prices_[a].period + 1)]
  /\ UNCHANGED <<t, prev_prices_, buffers, pnl_series_>>

\* What the signals are computed from.
SignalPrices == prev_prices_

\* dst[sorted_index(i)] = src[i] for each i
Scattered(dst, src) ==
  [k \in Assets |-> IF \E a \in Assets : sorted_index(a) = k
                      THEN src[CHOOSE a \in Assets : sorted_index(a) = k]
                      ELSE dst[k]]

SortToSectorOrder ==
  /\ At("sort", "score sectors")
  /\ sorted_prices_' = Scattered(sorted_prices_, SignalPrices)
  /\ UNCHANGED <<t, prices, sorted_zscores_, zscores_, signals_, returns_,
                 pnl_series_>>

Among(src, S) == {src[k] : k \in S}

ScoreSectors ==
  /\ At("score sectors", "unsort")
  /\ sorted_zscores_' =
       [k \in Assets |->
          IF \E s \in SectorIds : k \in sector_start(s) .. sector_end(s) - 1
            THEN LET s == CHOOSE s \in SectorIds :
                            k \in sector_start(s) .. sector_end(s) - 1
                 IN  [of |-> sorted_prices_[k],
                      among |-> Among(sorted_prices_,
                                      sector_start(s) .. sector_end(s) - 1)]
            ELSE sorted_zscores_[k]]
  /\ UNCHANGED <<t, prices, sorted_prices_, zscores_, signals_, returns_,
                 pnl_series_>>

UnsortFromSectorOrder ==
  /\ At("unsort", "decide")
  /\ zscores_' = [a \in Assets |-> sorted_zscores_[sorted_index(a)]]
  /\ UNCHANGED <<t, prices, sorted_prices_, sorted_zscores_, signals_, returns_,
                 pnl_series_>>

ScoreAll ==
  /\ At("score", "decide")
  /\ zscores_' = [a \in Assets |-> [of |-> SignalPrices[a],
                                    among |-> Among(SignalPrices, Assets)]]
  /\ UNCHANGED <<t, prices, sorted_prices_, sorted_zscores_, signals_, returns_,
                 pnl_series_>>

Decide == /\ At("decide", "return")
          /\ signals_' = zscores_
          /\ UNCHANGED <<t, prices, sorted_prices_, sorted_zscores_, zscores_,
                         returns_, pnl_series_>>

CalculateReturns ==
  /\ At("return", "pnl")
  /\ returns_' = [a \in Assets |->
                    [from |-> prev_prices_[a], to |-> curr_prices_[a]]]
  /\ UNCHANGED <<t, prices, sorted_prices_, sorted_zscores_, zscores_, signals_,
                 pnl_series_>>

CalculatePnl ==
  /\ At("pnl", "swap")
  /\ pnl_series_' = [pnl_series_ EXCEPT ![t] =
                       [a \in Assets |-> <<signals_[a], returns_[a]>>]]
  /\ UNCHANGED <<t, prices, buffers>>

Swapped == /\ prev_prices_' = curr_prices_
           /\ curr_prices_' = prev_prices_

Swap == /\ At("swap", "move")
        /\ Swapped
        /\ t' = t + 1
        /\ UNCHANGED <<buffers, pnl_series_>>

\* The constructor of BacktesterSector.
BuildIndex == /\ by_sector
              /\ IndexNext
              /\ UNCHANGED <<by_sector, t, step, prices, buffers, pnl_series_>>

Next == \/ BuildIndex
        \/ MovePrices \/ SortToSectorOrder \/ ScoreSectors
        \/ UnsortFromSectorOrder \/ ScoreAll \/ Decide \/ CalculateReturns
        \/ CalculatePnl \/ Swap

Spec == Init /\ [][Next]_vars
-----------------------------------------------------------------------------
\* The periods whose profit has been computed.
Closed == {p \in 0 .. NumPeriods - 1 : p < t \/ (p = t /\ step = "swap")}

\* The profit of a period multiplies, asset by asset, a signal made from the
\* prices at the period's beginning with the return from its beginning to its
\* end: no signal looks ahead, or has been left over from an earlier period.
NoLookAhead ==
  \A p \in Closed, a \in Assets :
    LET signal == pnl_series_[p][a][1]
        return == pnl_series_[p][a][2]
    IN  /\ signal.of = Price(a, p)
        /\ \A price \in signal.among : price.period = p
        /\ return = [from |-> Price(a, p), to |-> Price(a, p + 1)]

\* Each asset is scored among the assets of its sector, all of them and no
\* others, although sector order is not the order of the assets; or among all
\* assets, by the global backtester.
SectorNeutral ==
  \A p \in Closed, a \in Assets :
    {price.asset : price \in pnl_series_[p][a][1].among}
      = {b \in Assets : by_sector => sector_assignments[b] = sector_assignments[a]}
=============================================================================
