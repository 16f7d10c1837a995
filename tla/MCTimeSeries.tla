---------------------------- MODULE MCTimeSeries ----------------------------
(***************************************************************************)
(* Values for checking TimeSeries.                                         *)
(***************************************************************************)
EXTENDS TimeSeries

\* Their sums tell how often each price is in the window.
PowersOfTen == {1, 10}
=============================================================================
