-------------------------- MODULE MCLockFreeQueue --------------------------
(***************************************************************************)
(* Model values for checking LockFreeQueue and QueueDepth, its extension   *)
(* by a sampling thread.                                                   *)
(***************************************************************************)
EXTENDS QueueDepth

Items == {1, 2}
=============================================================================
