------------------------- MODULE MCThreadSafeQueue -------------------------
(***************************************************************************)
(* Model values for checking ThreadSafeQueue.                              *)
(***************************************************************************)
EXTENDS ThreadSafeQueue, TLC

Symmetry == Permutations(Threads)
=============================================================================
