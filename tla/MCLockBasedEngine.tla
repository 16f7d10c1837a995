------------------------- MODULE MCLockBasedEngine -------------------------
(***************************************************************************)
(* Model values for checking LockBasedEngine.                              *)
(***************************************************************************)
EXTENDS LockBasedEngine

ASSUME EngineAssumption

AllThreads == {Producer, Consumer, Main}
Ticks == 0 .. MaxTicks
=============================================================================
