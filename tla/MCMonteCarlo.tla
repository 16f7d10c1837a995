---------------------------- MODULE MCMonteCarlo ----------------------------
(***************************************************************************)
(* Values for checking MonteCarlo: the price at expiry is above, at or     *)
(* below the strike.                                                       *)
(***************************************************************************)
EXTENDS MonteCarlo

Half == [num |-> 1, den |-> 2]
UpOrDown == {-1, 1}
Samples == {-3, 0, 1, 7}
=============================================================================
