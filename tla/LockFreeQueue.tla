--------------------------- MODULE LockFreeQueue ---------------------------
(***************************************************************************)
(* The single-producer single-consumer ring buffer LockFreeQueue<T>, at    *)
(* the level of its memory operations under the C++ memory model.          *)
(*                                                                         *)
(* head_ is stored by the producer alone and tail_ by the consumer alone;  *)
(* each thread loads the other's index with acquire and stores its own     *)
(* with release.  An acquire load need not return the newest value, so the *)
(* model keeps, for each index, the newest value and the one that has      *)
(* become visible to the other thread (headVis, tailVis), and lets the     *)
(* second catch up with the first, one store at a time.                    *)
(*                                                                         *)
(* The slots are plain memory.  Two accesses to a slot, one of them a      *)
(* write, must be ordered by happens-before; the model records that order. *)
(* consKnows is the set of slots whose last write happens-before what the  *)
(* consumer does next, and headMsg[h] the set of slots whose last write    *)
(* happens-before the store of h in head_, which is what a load of h       *)
(* brings over.  prodKnows and tailMsg are the same for the consumer's     *)
(* reads.  An access to a slot that is not known is a data race.           *)
(***************************************************************************)
EXTENDS Integers, Sequences

CONSTANTS Size,     \* the argument of the constructor: items the queue holds
          Values,   \* the items
          NoValue   \* a default-constructed T, or no item

ASSUME QueueAssumption == /\ Size \in Nat
                          /\ NoValue \notin Values

VARIABLES
  buffer_,    \* the slots
  head_,      \* next slot to write: newest store of the producer
  tail_,      \* next slot to read: newest store of the consumer
  headVis,    \* the store to head_ that the consumer's loads return
  tailVis,    \* the store to tail_ that the producer's loads return
  headMsg,    \* slots whose last write is released by a store to head_
  tailMsg,    \* slots whose last read is released by a store to tail_
  consKnows,  \* slots whose last write the consumer is synchronized with
  prodKnows,  \* slots whose last read the producer is synchronized with
  ppc,        \* where the producer is in push
  pitem,      \* the argument of push
  cpc,        \* where the consumer is in pop
  citem,      \* the local variable item of pop
  popped      \* what the last pop that found an item returned

prodVars == <<ppc, pitem>>
consVars == <<cpc, citem, popped>>
indexVars == <<head_, tail_, headVis, tailVis>>
orderVars == <<headMsg, tailMsg, consKnows, prodKnows>>
vars == <<buffer_, indexVars, orderVars, prodVars, consVars>>

\* buffer_ has one slot more than the queue holds items.
BufferSize == Size + 1
Slots == 0 .. Size

-----------------------------------------------------------------------------
\* Slips: mutated forms of the definitions below, used to show that a
\* property notices them.

SuccNoWrap(i) == i + 1
NeverFull == FALSE
FullAtLastSlot == head_ = Size
EmptyAtLastItem == (tail_ + 1) % BufferSize = headVis
RelaxedStore == {}

-----------------------------------------------------------------------------
Succ(i) == (i + 1) % BufferSize

\* The tests of push and pop, on the index each loads from the other thread.
Full  == Succ(head_) = tailVis
Empty == tail_ = headVis

\* What a release store publishes: everything sequenced before it.
HeadRelease == Slots
TailRelease == Slots

\* s leaves a set of slots when its last access is no longer a known one.
Forget(msgs, s) == [i \in Slots |-> msgs[i] \ {s}]

Init == /\ buffer_ = [s \in Slots |-> NoValue]
        /\ head_ = 0 /\ headVis = 0
        /\ tail_ = 0 /\ tailVis = 0
        /\ headMsg = [s \in Slots |-> Slots]
        /\ tailMsg = [s \in Slots |-> Slots]
        /\ consKnows = Slots
        /\ prodKnows = Slots
        /\ ppc = "idle" /\ pitem = NoValue
        /\ cpc = "idle" /\ citem = NoValue /\ popped = NoValue

-----------------------------------------------------------------------------
\* push: load both indices and test, write the slot, publish the new head.

LoadTail == prodKnows' = prodKnows \cup tailMsg[tailVis]

PushFull == /\ ppc = "idle"
            /\ Full
            /\ LoadTail
            /\ UNCHANGED <<buffer_, indexVars, headMsg, tailMsg, consKnows,
                           prodVars, consVars>>

PushBegin(v) == /\ ppc = "idle"
                /\ ~Full
                /\ LoadTail
                /\ ppc' = "write"
                /\ pitem' = v
                /\ UNCHANGED <<buffer_, indexVars, headMsg, tailMsg,
                               consKnows, consVars>>

PushWrite == /\ ppc = "write"
             /\ buffer_' = [buffer_ EXCEPT ![head_] = pitem]
             /\ consKnows' = consKnows \ {head_}
             /\ headMsg' = Forget(headMsg, head_)
             /\ ppc' = "publish"
             /\ UNCHANGED <<indexVars, tailMsg, prodKnows, pitem, consVars>>

PushPublish == /\ ppc = "publish"
               /\ head_' = Succ(head_)
               /\ headMsg' = [headMsg EXCEPT ![Succ(head_)] = HeadRelease]
               /\ ppc' = "idle"
               /\ pitem' = NoValue
               /\ UNCHANGED <<buffer_, tail_, headVis, tailVis, tailMsg,
                              consKnows, prodKnows, consVars>>

-----------------------------------------------------------------------------
\* pop: load both indices and test, read the slot, publish the new tail.

LoadHead == consKnows' = consKnows \cup headMsg[headVis]

PopEmpty == /\ cpc = "idle"
            /\ Empty
            /\ LoadHead
            /\ UNCHANGED <<buffer_, indexVars, headMsg, tailMsg, prodKnows,
                           prodVars, consVars>>

PopBegin == /\ cpc = "idle"
            /\ ~Empty
            /\ LoadHead
            /\ cpc' = "read"
            /\ UNCHANGED <<buffer_, indexVars, headMsg, tailMsg, prodKnows,
                           prodVars, citem, popped>>

PopRead == /\ cpc = "read"
           /\ citem' = buffer_[tail_]
           /\ prodKnows' = prodKnows \ {tail_}
           /\ tailMsg' = Forget(tailMsg, tail_)
           /\ cpc' = "publish"
           /\ UNCHANGED <<buffer_, indexVars, headMsg, consKnows, prodVars,
                          popped>>

PopPublish == /\ cpc = "publish"
              /\ tail_' = Succ(tail_)
              /\ tailMsg' = [tailMsg EXCEPT ![Succ(tail_)] = TailRelease]
              /\ cpc' = "idle"
              /\ popped' = citem
              /\ citem' = NoValue
              /\ UNCHANGED <<buffer_, head_, headVis, tailVis, headMsg,
                             consKnows, prodKnows, prodVars>>

-----------------------------------------------------------------------------
\* The memory system: a store becomes visible to the other thread.

HeadVisible == /\ headVis # head_
               /\ headVis' = Succ(headVis)
               /\ UNCHANGED <<buffer_, head_, tail_, tailVis, orderVars,
                              prodVars, consVars>>

TailVisible == /\ tailVis # tail_
               /\ tailVis' = Succ(tailVis)
               /\ UNCHANGED <<buffer_, head_, tail_, headVis, orderVars,
                              prodVars, consVars>>

Produce == PushFull \/ (\E v \in Values : PushBegin(v)) \/ PushWrite \/ PushPublish
Consume == PopEmpty \/ PopBegin \/ PopRead \/ PopPublish
Propagate == HeadVisible \/ TailVisible

Next == Produce \/ Consume \/ Propagate

Spec == Init /\ [][Next]_vars

\* Both threads are scheduled, a started call runs on, the consumer polls
\* (both consumer loops of the repository do nothing else), and a store
\* becomes visible in finite time.  Nothing obliges the producer to push.
Fairness == /\ WF_vars(PushWrite) /\ WF_vars(PushPublish)
            /\ WF_vars(Consume)
            /\ WF_vars(HeadVisible) /\ WF_vars(TailVisible)

FairSpec == Spec /\ Fairness
-----------------------------------------------------------------------------
\* The slots from a up to, but not including, b: how many there are, whether
\* s is one of them, and the i-th of them.

Dist(a, b) == IF b >= a THEN b - a ELSE b - a + BufferSize
Between(s, a, b) == Dist(a, s) < Dist(a, b)
NthSlot(a, i) == (a + i - 1) % BufferSize

\* Every variable has its type.
TypeOK == /\ buffer_ \in [Slots -> Values \cup {NoValue}]
          /\ head_ \in Slots /\ headVis \in Slots
          /\ tail_ \in Slots /\ tailVis \in Slots
          /\ headMsg \in [Slots -> SUBSET Slots]
          /\ tailMsg \in [Slots -> SUBSET Slots]
          /\ consKnows \subseteq Slots
          /\ prodKnows \subseteq Slots
          /\ ppc \in {"idle", "write", "publish"}
          /\ cpc \in {"idle", "read", "publish"}
          /\ pitem \in Values \cup {NoValue}
          /\ citem \in Values \cup {NoValue}
          /\ popped \in Values \cup {NoValue}

\* The producer never writes a slot whose last read could still be going on,
\* and the consumer never reads a slot whose last write it need not see: the
\* acquire/release pairs on head_ and tail_ order every two accesses to a
\* slot of push and pop ("consumer won't read this slot until head is
\* published", "signals producer that slot is now free").
NoDataRace == /\ ppc = "write" => head_ \in prodKnows
              /\ cpc = "read"  => tail_ \in consKnows

\* The queue is a bounded FIFO channel of Size items: push appends, at the
\* moment it stores head_, unless the queue holds Size items, and pop
\* returns, at the moment it stores tail_, the oldest item, each item once.
contents == [i \in 1 .. Dist(tail_, head_) |-> buffer_[NthSlot(tail_, i)]]

Channel == INSTANCE Fifo WITH Capacity <- Size, received <- popped

ImplementsFifo == Channel!Spec

\* An item in the queue is popped, however long the stores to head_ take to
\* reach the consumer: from every slot at which items wait, tail_ moves on.
ItemsArePopped == \A s \in Slots : (tail_ = s /\ head_ # s) ~> (tail_ # s)

\* A producer that retries a refused push is not refused forever: again and
\* again its load of tail_ shows a free slot (Size > 0).
FullPasses == []<>~Full
=============================================================================
