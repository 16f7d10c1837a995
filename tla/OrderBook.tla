----------------------------- MODULE OrderBook -----------------------------
(***************************************************************************)
(* What a limit order book promises: an order trades, as a whole and at    *)
(* once, with the opposite levels it crosses, best price first, and what   *)
(* is left of it rests on its own side.  The reference definition that the *)
(* matching loop of LimitOrderBook is compared with.                       *)
(***************************************************************************)
EXTENDS Integers, FiniteSetsExt

CONSTANTS Prices, Quantities   \* of the orders

Sides == {"BUY", "SELL"}
Orders == [side : Sides, quantity : Quantities, price : Prices]
Other(side) == IF side = "BUY" THEN "SELL" ELSE "BUY"

\* Price p is better than q for the orders resting on a side, and an order of
\* a side and price trades with an opposite level at p.
Better(side, p, q) == IF side = "BUY" THEN p > q ELSE p < q
Crosses(side, price, p) == IF side = "BUY" THEN price >= p ELSE price <= p

\* Levels map the prices of a side to their volumes.
NoLevels == [p \in {} |-> 0]
Volume(levels, p) == IF p \in DOMAIN levels THEN levels[p] ELSE 0
VolumeOver(levels, S) == MapThenSumSet(LAMBDA p : levels[p], S)
Keep(levels, S) == [p \in S |-> levels[p]]
-----------------------------------------------------------------------------
Positive(n) == IF n > 0 THEN n ELSE 0

\* What an order leaves of the opposite levels: those that are better come
\* first, and a level gives what they left of the order to fill.
Remaining(levels, o, p) ==
  LET ahead == {q \in DOMAIN levels : Better(Other(o.side), q, p)}
  IN  IF Crosses(o.side, o.price, p)
        THEN Positive(levels[p] - Positive(o.quantity - VolumeOver(levels, ahead)))
        ELSE levels[p]

Depleted(levels, o) ==
  LET left == [p \in DOMAIN levels |-> Remaining(levels, o, p)]
  IN  Keep(left, {p \in DOMAIN levels : left[p] > 0})

\* What of an order finds nothing to trade with.
Unfilled(levels, o) ==
  Positive(o.quantity -
    VolumeOver(levels, {p \in DOMAIN levels : Crosses(o.side, o.price, p)}))

Added(levels, p, n) ==
  IF n = 0 THEN levels
           ELSE [q \in DOMAIN levels \cup {p} |->
                   Volume(levels, q) + IF q = p THEN n ELSE 0]

\* The book once an order has been placed.
Placed(b, o) ==
  [b EXCEPT ![o.side] = Added(@, o.price, Unfilled(b[Other(o.side)], o)),
            ![Other(o.side)] = Depleted(@, o)]
-----------------------------------------------------------------------------
VARIABLE book   \* the levels of each side

Init == book = [s \in Sides |-> NoLevels]

Next == \E o \in Orders : book' = Placed(book, o)

Spec == Init /\ [][Next]_book
=============================================================================
