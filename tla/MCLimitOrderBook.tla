-------------------------- MODULE MCLimitOrderBook --------------------------
(***************************************************************************)
(* Model values for checking LimitOrderBook.                               *)
(***************************************************************************)
EXTENDS LimitOrderBook

ThreePrices == 1 .. 3
SmallQuantities == 0 .. 3
=============================================================================
