----------------------------- MODULE MCLiveLoop -----------------------------
(***************************************************************************)
(* Model values for checking SnapshotStore under the live loop.            *)
(***************************************************************************)
EXTENDS LiveLoop

\* Updates for the assets of the store and for one it does not have.
Ids == 0 .. Capacity
Prices == 0 .. 1
=============================================================================
