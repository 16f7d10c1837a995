---------------------------- MODULE MCMarketFeed ----------------------------
(***************************************************************************)
(* Model values for checking MarketFeed.                                   *)
(***************************************************************************)
EXTENDS MarketFeed

\* A store without assets, whose producer returns at once, and one with two.
NoneOrTwo == {0, 2}
OneAsset == {1}
=============================================================================
