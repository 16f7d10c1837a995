--------------------------- MODULE LimitOrderBook ---------------------------
(***************************************************************************)
(* The limit order book: add_order matches an order in a loop, one level   *)
(* of the opposite side per iteration, and adds what is left of it to its  *)
(* own side.  The two branches of add_order are mirror images, written     *)
(* here once for a side and its opposite.                                  *)
(***************************************************************************)
EXTENDS Integers, FiniteSetsExt

CONSTANTS PriceLimit,  \* the greatest price an int holds
          Prices,      \* prices of the orders
          Quantities,  \* quantities of the orders; 0 is accepted and ignored
          MaxVolume    \* bound on the volume resting in the book, so that
                       \* no volume exceeds an int

ASSUME BookAssumption == /\ PriceLimit \in Nat
                         /\ Prices \subseteq -PriceLimit .. PriceLimit
                         /\ Quantities \subseteq Nat
                         /\ MaxVolume \in Nat

VARIABLES
  levels,   \* bids and asks: the volume at each price, by side
  pc,       \* where add_order is: idle, or in its loop
  order,    \* its argument, quantity going down as it trades
  net       \* history: quantity bought less quantity sold, of all orders

vars == <<levels, pc, order, net>>

Reference == INSTANCE OrderBook WITH book <- levels

Sides == Reference!Sides
Orders == Reference!Orders
Other(side) == Reference!Other(side)
-----------------------------------------------------------------------------
\* Slips: mutated forms of the definitions below, used to show that a
\* property notices them.

WorstLevel(side, p) ==
  /\ p \in DOMAIN levels[side]
  /\ \A q \in DOMAIN levels[side] : ~Reference!Better(side, p, q)
StrictlyCrosses(side, price, p) == IF side = "BUY" THEN price > p ELSE price < p
KeepsEmptyLevel(lvls, p, v) == [lvls EXCEPT ![p] = v]
Replaces(lvls, p, n) == [q \in DOMAIN lvls \cup {p} |->
                           IF q = p THEN n ELSE lvls[q]]
WholeLevel(volume, quantity) == volume
-----------------------------------------------------------------------------
\* asks.begin() and bids.begin(): the maps are ordered best price first.
Best(side, p) ==
  /\ p \in DOMAIN levels[side]
  /\ \A q \in DOMAIN levels[side] : ~Reference!Better(side, q, p)

Crosses(side, price, p) == IF side = "BUY" THEN price >= p ELSE price <= p

Traded(volume, quantity) == IF volume < quantity THEN volume ELSE quantity

\* A level whose volume has changed; erased when nothing is left.
WithVolume(lvls, p, v) ==
  IF v = 0 THEN Reference!Keep(lvls, DOMAIN lvls \ {p})
           ELSE [lvls EXCEPT ![p] = v]

\* bids[price] += quantity: a new level starts at 0.
Joined(lvls, p, n) ==
  [q \in DOMAIN lvls \cup {p} |->
     Reference!Volume(lvls, q) + IF q = p THEN n ELSE 0]

Resting(side) == Reference!VolumeOver(levels[side], DOMAIN levels[side])
-----------------------------------------------------------------------------
NoOrder == [side |-> "BUY", quantity |-> 0, price |-> 0]

Init == /\ levels = [s \in Sides |-> Reference!NoLevels]
        /\ pc = "idle"
        /\ order = NoOrder
        /\ net = 0

AddOrder(o) == /\ pc = "idle"
               /\ Resting("BUY") + Resting("SELL") + o.quantity <= MaxVolume
               /\ pc' = "loop"
               /\ order' = o
               /\ net' = IF o.side = "BUY" THEN net + o.quantity
                                           ELSE net - o.quantity
               /\ UNCHANGED levels

\* The loop condition, given the best opposite level.
Matches(p) == /\ order.quantity > 0
              /\ Best(Other(order.side), p)
              /\ Crosses(order.side, order.price, p)

Match == /\ pc = "loop"
         /\ \E p \in DOMAIN levels[Other(order.side)] :
              LET opposite == levels[Other(order.side)]
                  traded == Traded(opposite[p], order.quantity)
              IN  /\ Matches(p)
                  /\ order' = [order EXCEPT !.quantity = @ - traded]
                  /\ levels' = [levels EXCEPT ![Other(order.side)] =
                                  WithVolume(opposite, p, opposite[p] - traded)]
         /\ UNCHANGED <<pc, net>>

LoopEnds == /\ pc = "loop"
            /\ \A p \in DOMAIN levels[Other(order.side)] : ~Matches(p)

Rest == /\ LoopEnds
        /\ order.quantity > 0
        /\ levels' = [levels EXCEPT ![order.side] =
                        Joined(@, order.price, order.quantity)]
        /\ order' = NoOrder
        /\ pc' = "idle"
        /\ UNCHANGED net

Filled == /\ LoopEnds
          /\ order.quantity = 0
          /\ order' = NoOrder
          /\ pc' = "idle"
          /\ UNCHANGED <<levels, net>>

Next == (\E o \in Orders : AddOrder(o)) \/ Match \/ Rest \/ Filled

Spec == Init /\ [][Next]_vars

\* add_order runs until it returns; nobody has to call it.
FairSpec == Spec /\ WF_vars(Match \/ Rest \/ Filled)
-----------------------------------------------------------------------------
\* Every variable has its type, and a level that exists has volume.
TypeOK == /\ levels = [s \in Sides |-> levels[s]]
          /\ \A s \in Sides : /\ DOMAIN levels[s] \subseteq Prices
                              /\ levels[s] \in [DOMAIN levels[s] -> Nat \ {0}]
          /\ pc \in {"idle", "loop"}
          /\ order \in [side : Sides, quantity : Nat, price : Int]
          /\ pc = "loop" => order.price \in Prices
          /\ net \in Int

\* No bid meets an ask, in the middle of add_order either: an order rests
\* only when the loop has traded away every level it crosses.
Uncrossed == \A b \in DOMAIN levels["BUY"], a \in DOMAIN levels["SELL"] : b < a

\* What has been bought less what has been sold is what rests on the buy side
\* less what rests on the sell side, the order in hand counted in: a trade
\* takes the same from both, and no quantity appears or disappears.
Balanced ==
  net = Resting("BUY") - Resting("SELL")
          + IF order.side = "BUY" THEN order.quantity ELSE -order.quantity

\* The book as it will be when add_order returns: every iteration leaves it
\* alone, so the loop does what placing the order at once would.
Settled == IF pc = "loop" THEN Reference!Placed(levels, order) ELSE levels

Atomic == INSTANCE OrderBook WITH book <- Settled

ImplementsOrderBook == Atomic!Spec

\* add_order returns: each iteration uses up the order or a level.
AddOrderReturns == pc = "loop" ~> pc = "idle"
=============================================================================
