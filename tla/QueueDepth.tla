----------------------------- MODULE QueueDepth -----------------------------
(***************************************************************************)
(* A third thread that samples the depth of a LockFreeQueue while producer *)
(* and consumer use it, as main_feed.cpp does every 10 ms: size() loads    *)
(* head_, then tail_, and subtracts.  Nothing stops the queue in between.  *)
(* The loads are relaxed; on x86 they return what memory holds.            *)
(***************************************************************************)
EXTENDS LockFreeQueue

VARIABLES
  spc,      \* where the sampler is: idle, or between the loads of size()
  shead,    \* its local variable head
  depth,    \* what the last size() returned
  before,   \* history: items in the queue when it loaded head_
  pops,     \* history: pops finished since then, counted up to Size + 1
  longest   \* history: the most items in the queue since then

samplerVars == <<spc, shead, depth>>
historyVars == <<before, pops, longest>>
depthVars == <<vars, samplerVars, historyVars>>

-----------------------------------------------------------------------------
\* Slips: mutated forms of the definitions below, used to show that a
\* property notices them.

LinearDistance(head, tail) == IF head >= tail THEN head - tail ELSE tail - head
WrappedTooFar(head, tail) ==
  IF head >= tail THEN head - tail ELSE BufferSize + 1 - tail + head
-----------------------------------------------------------------------------
Distance(head, tail) == IF head >= tail THEN head - tail
                                        ELSE BufferSize - tail + head

\* capacity()
Capacity == BufferSize - 1

Length == Dist(tail_, head_)

DepthInit == /\ Init
             /\ spc = "idle" /\ shead = 0 /\ depth = 0
             /\ before = 0 /\ pops = 0 /\ longest = 0

SizeLoadsHead == /\ spc = "idle"
                 /\ spc' = "tail"
                 /\ shead' = head_
                 /\ before' = Length
                 /\ pops' = 0
                 /\ longest' = Length
                 /\ UNCHANGED <<vars, depth>>

SizeLoadsTail == /\ spc = "tail"
                 /\ spc' = "idle"
                 /\ depth' = Distance(shead, tail_)
                 /\ UNCHANGED <<vars, shead, historyVars>>

\* A step of the queue, and what the history makes of it.
QueueStep == /\ Next
             /\ UNCHANGED samplerVars
             /\ IF spc = "idle"
                  THEN UNCHANGED historyVars
                  ELSE /\ before' = before
                       /\ pops' = IF tail_' # tail_ /\ pops <= Size
                                    THEN pops + 1 ELSE pops
                       /\ longest' = IF Length' > longest THEN Length' ELSE longest

DepthNext == SizeLoadsHead \/ SizeLoadsTail \/ QueueStep

DepthSpec == DepthInit /\ [][DepthNext]_depthVars

\* The sampler delays nobody: the queue's fairness is all that is assumed.
FairDepthSpec == DepthSpec /\ Fairness
-----------------------------------------------------------------------------
\* Every variable of the sampler has its type.
DepthTypeOK == /\ spc \in {"idle", "tail"}
               /\ shead \in Slots
               /\ {depth, longest} \subseteq Nat
               /\ before \in 0 .. Size
               /\ pops \in 0 .. Size + 1

\* size() never leaves 0 .. capacity(), however the loads fall: main_feed.cpp
\* divides by the capacity to print a percentage.
DepthInRange == depth <= Capacity

\* Unless more items were popped between the two loads than there were at the
\* first, size() is the number of those items that are still in the queue.
ExactUnlessOvertaken ==
  spc = "idle" /\ pops <= before => depth = before - pops

\* PERFORMANCE.md reads a maximum depth of 100% as the producer filling the
\* queue: a depth that size() returns is one the queue reached meanwhile.
DepthWasReached == spc = "idle" => depth <= longest
=============================================================================
