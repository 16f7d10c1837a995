------------------------ MODULE LockFreeQueueProofs ------------------------
(***************************************************************************)
(* Proofs about LockFreeQueue: for every size and every set of items the   *)
(* queue is free of data races and implements a bounded FIFO channel.      *)
(***************************************************************************)
EXTENDS QueueDepth, SequenceTheorems, TLAPS

(***************************************************************************)
(* The inductive invariant.  Seen from tailVis, the oldest index either    *)
(* thread can still load, the four indices come in the order               *)
(* tailVis, tail_, headVis, head_ and span less than one turn, so none of  *)
(* them is ever mistaken for itself a turn later.                          *)
(***************************************************************************)
IndexOrder == /\ Dist(tailVis, tail_) <= Dist(tailVis, headVis)
              /\ Dist(tailVis, headVis) <= Dist(tailVis, head_)
              /\ ppc # "idle" => Succ(head_) # tailVis
              /\ cpc # "idle" => tail_ # headVis

\* A store to head_ the consumer can still load has released the write of
\* every slot it offers; a store to tail_ the producer can still load has
\* released the read of every slot it frees.
WritesReleased ==
  \A h, s \in Slots :
    /\ Dist(tailVis, headVis) <= Dist(tailVis, h)
    /\ Dist(tailVis, h) <= Dist(tailVis, head_)
    /\ Between(s, tail_, h)
    => s \in headMsg[h]

ReadsReleased ==
  \A t, s \in Slots :
    /\ Dist(tailVis, t) <= Dist(tailVis, tail_)
    /\ ~Between(s, t, head_)
    => s \in tailMsg[t]

\* What the local variables of push and pop say of the slots.
InHand == /\ ppc # "idle" => pitem \in Values
          /\ ppc = "publish" => buffer_[head_] = pitem
          /\ cpc = "publish" => citem = buffer_[tail_]

IndInv == /\ TypeOK /\ IndexOrder
          /\ WritesReleased /\ ReadsReleased
          /\ NoDataRace /\ InHand
-----------------------------------------------------------------------------
(***************************************************************************)
(* Index arithmetic.                                                       *)
(***************************************************************************)

\* Advancing an index: the next slot, or the first one after the last.
LEMMA SuccSlot ==
  ASSUME NEW i \in Slots
  PROVE  /\ Succ(i) = IF i = Size THEN 0 ELSE i + 1
         /\ Succ(i) \in Slots
<1>1. CASE i = Size
  <2>1. (Size + 1) % (Size + 1) = 0
    BY QueueAssumption
  <2> QED BY <1>1, <2>1, QueueAssumption DEF Succ, Slots, BufferSize
<1>2. CASE i # Size
  <2>1. i + 1 \in 0 .. Size
    BY <1>2, QueueAssumption DEF Slots
  <2>2. (i + 1) % (Size + 1) = i + 1
    BY <2>1, QueueAssumption
  <2> QED BY <1>2, <2>1, <2>2 DEF Succ, Slots, BufferSize
<1> QED BY <1>1, <1>2

\* A distance is less than a turn, and tells the slots apart.
LEMMA DistRange ==
  ASSUME NEW a \in Slots, NEW b \in Slots
  PROVE  /\ Dist(a, b) \in 0 .. Size
         /\ Dist(a, b) = 0 <=> a = b
BY QueueAssumption DEF Dist, Slots, BufferSize

\* From one slot, different slots are at different distances.
LEMMA DistInjective ==
  ASSUME NEW a \in Slots, NEW b \in Slots, NEW c \in Slots,
         Dist(a, b) = Dist(a, c)
  PROVE  b = c
BY QueueAssumption DEF Dist, Slots, BufferSize

\* Distances add up along the ring, from a through b to c.
LEMMA DistShift ==
  ASSUME NEW a \in Slots, NEW b \in Slots, NEW c \in Slots
  PROVE  Dist(b, c) = IF Dist(a, b) <= Dist(a, c)
                        THEN Dist(a, c) - Dist(a, b)
                        ELSE Dist(a, c) - Dist(a, b) + Size + 1
BY QueueAssumption DEF Dist, Slots, BufferSize

\* Advancing the end of a distance lengthens it, advancing its start
\* shortens it.
LEMMA DistSucc ==
  ASSUME NEW a \in Slots, NEW b \in Slots
  PROVE  /\ Succ(b) # a => Dist(a, Succ(b)) = Dist(a, b) + 1
         /\ a # b => Dist(Succ(a), b) = Dist(a, b) - 1
BY QueueAssumption, SuccSlot DEF Dist, Slots, BufferSize

\* From the slot after a slot it is a whole turn, less one, back to it.
LEMMA DistTurn ==
  ASSUME NEW a \in Slots, NEW b \in Slots
  PROVE  /\ Dist(Succ(a), a) = Size
         /\ Succ(b) = a => Dist(a, b) = Size
<1>1. \A i \in Slots : Dist(Succ(i), i) = Size
  <2> SUFFICES ASSUME NEW i \in Slots PROVE Dist(Succ(i), i) = Size
    OBVIOUS
  <2>1. Succ(i) = IF i = Size THEN 0 ELSE i + 1
    BY SuccSlot
  <2> QED BY <2>1, QueueAssumption DEF Dist, Slots, BufferSize
<1> QED BY <1>1

-----------------------------------------------------------------------------
(***************************************************************************)
(* IndInv is inductive.                                                    *)
(***************************************************************************)

\* A queue just constructed satisfies the invariant.
LEMMA InitInductive == Init => IndInv
<1> SUFFICES ASSUME Init PROVE IndInv
  OBVIOUS
<1> USE QueueAssumption
<1>1. TypeOK
  BY DEF Init, TypeOK, Slots
<1>2. IndexOrder
  BY DEF Init, IndexOrder, Dist
<1>3. WritesReleased /\ ReadsReleased
  BY DEF Init, WritesReleased, ReadsReleased, Slots
<1>4. NoDataRace /\ InHand
  BY DEF Init, NoDataRace, InHand
<1> QED BY <1>1, <1>2, <1>3, <1>4 DEF IndInv

\* No step of push, pop or the memory system leaves a variable's type.
LEMMA StepTypeOK == TypeOK /\ InHand /\ [Next]_vars => TypeOK'
<1> SUFFICES ASSUME TypeOK, InHand, [Next]_vars PROVE TypeOK'
  OBVIOUS
<1>1. CASE PushFull
  BY <1>1 DEF PushFull, LoadTail, indexVars, prodVars, consVars, TypeOK, InHand
<1>2. ASSUME NEW v \in Values, PushBegin(v) PROVE TypeOK'
  BY <1>2 DEF PushBegin, LoadTail, indexVars, consVars, TypeOK, InHand
<1>3. CASE PushWrite
  BY <1>3 DEF PushWrite, Forget, indexVars, consVars, TypeOK, InHand
<1>4. CASE PushPublish
  BY <1>4, SuccSlot DEF PushPublish, HeadRelease, consVars, TypeOK, InHand
<1>5. CASE PopEmpty
  BY <1>5 DEF PopEmpty, LoadHead, indexVars, prodVars, consVars, TypeOK, InHand
<1>6. CASE PopBegin
  BY <1>6 DEF PopBegin, LoadHead, indexVars, prodVars, TypeOK, InHand
<1>7. CASE PopRead
  BY <1>7 DEF PopRead, Forget, indexVars, prodVars, TypeOK, InHand
<1>8. CASE PopPublish
  BY <1>8, SuccSlot DEF PopPublish, TailRelease, prodVars, TypeOK, InHand
<1>9. CASE HeadVisible
  BY <1>9, SuccSlot DEF HeadVisible, orderVars, prodVars, consVars, TypeOK, InHand
<1>10. CASE TailVisible
  BY <1>10, SuccSlot DEF TailVisible, orderVars, prodVars, consVars, TypeOK, InHand
<1>11. CASE UNCHANGED vars
  BY <1>11 DEF vars, indexVars, orderVars, prodVars, consVars, TypeOK, InHand
<1> QED BY <1>1, <1>2, <1>3, <1>4, <1>5, <1>6, <1>7, <1>8, <1>9, <1>10, <1>11
        DEF Next, Produce, Consume, Propagate

\* The four indices keep their order: each action advances at most one, and
\* its guard keeps it behind the next.
LEMMA StepIndexOrder == TypeOK /\ IndexOrder /\ [Next]_vars => IndexOrder'
<1> SUFFICES ASSUME TypeOK, IndexOrder, [Next]_vars PROVE IndexOrder'
  OBVIOUS
<1>1. CASE PushFull
  BY <1>1 DEF PushFull, LoadTail, indexVars, prodVars, consVars, IndexOrder, Dist
<1>2. ASSUME NEW v \in Values, PushBegin(v) PROVE IndexOrder'
  BY <1>2 DEF PushBegin, LoadTail, indexVars, consVars, IndexOrder, Full
<1>3. CASE PushWrite
  BY <1>3 DEF PushWrite, Forget, indexVars, consVars, IndexOrder, Dist
<1>4. CASE PushPublish
  <2>1. Dist(tailVis, Succ(head_)) = Dist(tailVis, head_) + 1
    BY <1>4, DistSucc DEF PushPublish, HeadRelease, consVars, TypeOK, IndexOrder
  <2> QED BY <1>4, <2>1, DistRange DEF PushPublish, HeadRelease, consVars, TypeOK, IndexOrder
<1>5. CASE PopEmpty
  BY <1>5 DEF PopEmpty, LoadHead, indexVars, prodVars, consVars, IndexOrder, Dist
<1>6. CASE PopBegin
  BY <1>6 DEF PopBegin, LoadHead, indexVars, prodVars, IndexOrder, Empty
<1>7. CASE PopRead
  BY <1>7 DEF PopRead, Forget, indexVars, prodVars, IndexOrder, Dist
<1>8. CASE PopPublish
  <2>1. Dist(tailVis, tail_) < Dist(tailVis, headVis)
    BY <1>8, DistRange, DistInjective DEF PopPublish, TailRelease, prodVars, TypeOK, IndexOrder
  <2>2. Succ(tail_) # tailVis
    BY <2>1, DistRange, DistTurn, QueueAssumption DEF TypeOK
  <2>3. Dist(tailVis, Succ(tail_)) = Dist(tailVis, tail_) + 1
    BY <2>2, DistSucc DEF TypeOK
  <2> QED BY <1>8, <2>1, <2>3, DistRange DEF PopPublish, TailRelease, prodVars, TypeOK, IndexOrder
<1>9. CASE HeadVisible
  <2>1. Dist(tailVis, headVis) < Dist(tailVis, head_)
    BY <1>9, DistRange, DistInjective DEF HeadVisible, orderVars, prodVars, consVars, TypeOK, IndexOrder
  <2>2. Succ(headVis) # tailVis
    BY <2>1, DistRange, DistTurn, QueueAssumption DEF TypeOK
  <2>3. Dist(tailVis, Succ(headVis)) = Dist(tailVis, headVis) + 1
    BY <2>2, DistSucc DEF TypeOK
  <2>4. cpc # "idle" => tail_ # Succ(headVis)
    BY <2>3, DistRange DEF TypeOK, IndexOrder
  <2> QED BY <1>9, <2>1, <2>3, <2>4, DistRange DEF HeadVisible, orderVars, prodVars, consVars, TypeOK, IndexOrder
<1>10. CASE TailVisible
  <2>1. /\ tailVis # tail_ /\ tailVis # headVis /\ tailVis # head_
    BY <1>10, DistRange DEF TailVisible, orderVars, prodVars, consVars, TypeOK, IndexOrder
  <2>2. /\ Dist(Succ(tailVis), tail_) = Dist(tailVis, tail_) - 1
        /\ Dist(Succ(tailVis), headVis) = Dist(tailVis, headVis) - 1
        /\ Dist(Succ(tailVis), head_) = Dist(tailVis, head_) - 1
    BY <2>1, DistSucc DEF TypeOK
  <2>3. Succ(head_) # Succ(tailVis)
    BY <2>1, SuccSlot, QueueAssumption DEF TypeOK, Slots
  <2> QED BY <1>10, <2>2, <2>3, DistRange DEF TailVisible, orderVars, prodVars, consVars, TypeOK, IndexOrder
<1>11. CASE UNCHANGED vars
  BY <1>11 DEF vars, indexVars, orderVars, prodVars, consVars, IndexOrder, Dist
<1> QED BY <1>1, <1>2, <1>3, <1>4, <1>5, <1>6, <1>7, <1>8, <1>9, <1>10, <1>11
        DEF Next, Produce, Consume, Propagate

\* A slot being popped holds an item: the producer is not at it.
LEMMA SlotsInUse ==
  ASSUME TypeOK, IndexOrder, cpc # "idle"
  PROVE  /\ Dist(tailVis, tail_) < Dist(tailVis, headVis)
         /\ Dist(tailVis, tail_) < Dist(tailVis, head_)
         /\ tail_ # head_
BY DistRange, DistInjective DEF TypeOK, IndexOrder

\* The same distances after tailVis has moved on.
LEMMA SlotsAfterTailVisible ==
  ASSUME TypeOK, IndexOrder, tailVis # tail_, NEW h \in Slots,
         Dist(Succ(tailVis), h) <= Dist(Succ(tailVis), head_)
  PROVE  /\ Dist(Succ(tailVis), h) = Dist(tailVis, h) - 1
         /\ Dist(Succ(tailVis), headVis) = Dist(tailVis, headVis) - 1
         /\ Dist(Succ(tailVis), tail_) = Dist(tailVis, tail_) - 1
         /\ Dist(Succ(tailVis), head_) = Dist(tailVis, head_) - 1
<1>1. tailVis # headVis /\ tailVis # head_
  BY DistRange DEF TypeOK, IndexOrder
<1>2. Dist(Succ(tailVis), head_) = Dist(tailVis, head_) - 1
  BY <1>1, DistSucc DEF TypeOK
<1>3. h # tailVis
  <2>1. Dist(Succ(tailVis), tailVis) = Size
    BY DistTurn DEF TypeOK
  <2> QED BY <1>2, <2>1, DistRange, QueueAssumption DEF TypeOK
<1> QED BY <1>1, <1>2, <1>3, DistSucc DEF TypeOK

\* Every head the consumer can load keeps releasing the writes of the slots
\* it offers.
LEMMA StepWritesReleased ==
  TypeOK /\ IndexOrder /\ WritesReleased /\ [Next]_vars => WritesReleased'
<1> SUFFICES ASSUME TypeOK, IndexOrder, WritesReleased, [Next]_vars,
                    NEW h \in Slots, NEW s \in Slots,
                    (Dist(tailVis, headVis) <= Dist(tailVis, h))',
                    (Dist(tailVis, h) <= Dist(tailVis, head_))',
                    Between(s, tail_, h)'
             PROVE  s \in headMsg'[h]
  BY DEF WritesReleased
<1>0. ASSUME Dist(tailVis, headVis) <= Dist(tailVis, h),
             Dist(tailVis, h) <= Dist(tailVis, head_),
             Between(s, tail_, h)
      PROVE  s \in headMsg[h]
  BY <1>0 DEF WritesReleased
<1>1. CASE PushFull
  BY <1>1, <1>0 DEF PushFull, LoadTail, indexVars, prodVars, consVars, Between, Dist
<1>2. ASSUME NEW v \in Values, PushBegin(v) PROVE s \in headMsg'[h]
  BY <1>2, <1>0 DEF PushBegin, LoadTail, indexVars, consVars, Between, Dist
<1>3. CASE PushWrite
  <2>1. s \in headMsg[h]
    BY <1>3, <1>0 DEF PushWrite, Forget, indexVars, consVars, Between, Dist
  <2>2. Dist(tail_, h) <= Dist(tail_, head_)
    <3>1. /\ Dist(tailVis, headVis) <= Dist(tailVis, h)
          /\ Dist(tailVis, h) <= Dist(tailVis, head_)
      BY <1>3 DEF PushWrite, indexVars, consVars, Dist
    <3>2. Dist(tailVis, tail_) <= Dist(tailVis, headVis)
      BY DEF IndexOrder
    <3>3. /\ Dist(tailVis, tail_) \in 0 .. Size
          /\ Dist(tailVis, headVis) \in 0 .. Size
          /\ Dist(tailVis, head_) \in 0 .. Size
          /\ Dist(tailVis, h) \in 0 .. Size
      BY DistRange DEF TypeOK
    <3>4. Dist(tail_, h) = Dist(tailVis, h) - Dist(tailVis, tail_)
      BY <3>1, <3>2, <3>3, DistShift DEF TypeOK
    <3>5. Dist(tail_, head_) = Dist(tailVis, head_) - Dist(tailVis, tail_)
      BY <3>1, <3>2, <3>3, DistShift DEF TypeOK
    <3> QED BY <3>1, <3>3, <3>4, <3>5, QueueAssumption
  <2>3. s # head_
    BY <1>3, <2>2, DistRange DEF PushWrite, Forget, indexVars, consVars, TypeOK, Between, Dist
  <2> QED BY <1>3, <2>1, <2>3 DEF PushWrite, Forget, indexVars, consVars, TypeOK
<1>4. CASE PushPublish
  <2>1. CASE h = Succ(head_)
    BY <1>4, <2>1 DEF PushPublish, HeadRelease, consVars, TypeOK
  <2>2. CASE h # Succ(head_)
    <3>1. Dist(tailVis, Succ(head_)) = Dist(tailVis, head_) + 1
      BY <1>4, DistSucc DEF PushPublish, HeadRelease, consVars, TypeOK, IndexOrder
    <3>2. Dist(tailVis, h) <= Dist(tailVis, Succ(head_))
      BY <1>4 DEF PushPublish, HeadRelease, consVars, Dist
    <3>3. Dist(tailVis, h) # Dist(tailVis, Succ(head_))
      BY <2>2, SuccSlot, DistInjective DEF TypeOK
    <3>4. Dist(tailVis, h) <= Dist(tailVis, head_)
      BY <3>1, <3>2, <3>3, DistRange DEF TypeOK
    <3>5. s \in headMsg[h]
      BY <1>4, <1>0, <3>4 DEF PushPublish, HeadRelease, consVars, Between, Dist
    <3> QED BY <1>4, <2>2, <3>5 DEF PushPublish, HeadRelease, consVars, TypeOK
  <2> QED BY <2>1, <2>2
<1>5. CASE PopEmpty
  BY <1>5, <1>0 DEF PopEmpty, LoadHead, indexVars, prodVars, consVars, Between, Dist
<1>6. CASE PopBegin
  BY <1>6, <1>0 DEF PopBegin, LoadHead, indexVars, prodVars, Between, Dist
<1>7. CASE PopRead
  BY <1>7, <1>0 DEF PopRead, Forget, indexVars, prodVars, Between, Dist
<1>8. CASE PopPublish
  <2>1. Dist(tailVis, headVis) <= Dist(tailVis, h) /\ Dist(tailVis, h) <= Dist(tailVis, head_)
    BY <1>8 DEF PopPublish, TailRelease, prodVars, Dist
  <2>2. tail_ # h
    BY <1>8, <2>1, SlotsInUse, DistRange DEF PopPublish, TailRelease, prodVars, TypeOK
  <2>3. Dist(Succ(tail_), h) = Dist(tail_, h) - 1
    BY <2>2, DistSucc DEF TypeOK
  <2>4. Dist(Succ(tail_), s) < Dist(Succ(tail_), h)
    BY <1>8 DEF PopPublish, TailRelease, prodVars, Between, Dist
  <2>5. s # tail_ => Dist(Succ(tail_), s) = Dist(tail_, s) - 1
    BY DistSucc DEF TypeOK
  <2>6. Dist(tail_, s) < Dist(tail_, h)
    BY <2>2, <2>3, <2>4, <2>5, DistRange DEF TypeOK
  <2> QED BY <1>8, <1>0, <2>1, <2>6 DEF PopPublish, TailRelease, prodVars, Between
<1>9. CASE HeadVisible
  <2>1. Dist(tailVis, headVis) < Dist(tailVis, head_)
    BY <1>9, DistRange, DistInjective DEF HeadVisible, orderVars, prodVars, consVars, TypeOK, IndexOrder
  <2>2. Succ(headVis) # tailVis
    BY <2>1, DistRange, DistTurn, QueueAssumption DEF TypeOK
  <2>3. Dist(tailVis, Succ(headVis)) = Dist(tailVis, headVis) + 1
    BY <2>2, DistSucc DEF TypeOK
  <2>4. Dist(tailVis, Succ(headVis)) <= Dist(tailVis, h)
    BY <1>9 DEF HeadVisible, orderVars, prodVars, consVars, Dist
  <2>5. Dist(tailVis, headVis) <= Dist(tailVis, h)
    BY <2>3, <2>4, DistRange DEF TypeOK
  <2> QED BY <1>9, <1>0, <2>5 DEF HeadVisible, orderVars, prodVars, consVars, Between, Dist
<1>10. CASE TailVisible
  <2>1. /\ Dist(Succ(tailVis), headVis) <= Dist(Succ(tailVis), h)
        /\ Dist(Succ(tailVis), h) <= Dist(Succ(tailVis), head_)
    BY <1>10 DEF TailVisible, orderVars, prodVars, consVars, Dist
  <2>2. /\ Dist(tailVis, headVis) <= Dist(tailVis, h)
        /\ Dist(tailVis, h) <= Dist(tailVis, head_)
    BY <1>10, <2>1, SlotsAfterTailVisible, DistRange DEF TailVisible, orderVars, prodVars, consVars, TypeOK
  <2> QED BY <1>10, <1>0, <2>2 DEF TailVisible, orderVars, prodVars, consVars, Between, Dist
<1>11. CASE UNCHANGED vars
  BY <1>11, <1>0 DEF vars, indexVars, orderVars, prodVars, consVars, Between, Dist
<1> QED BY <1>1, <1>2, <1>3, <1>4, <1>5, <1>6, <1>7, <1>8, <1>9, <1>10, <1>11
        DEF Next, Produce, Consume, Propagate

\* Every tail the producer can load keeps releasing the reads of the slots
\* it frees.
LEMMA StepReadsReleased ==
  TypeOK /\ IndexOrder /\ ReadsReleased /\ [Next]_vars => ReadsReleased'
<1> SUFFICES ASSUME TypeOK, IndexOrder, ReadsReleased, [Next]_vars,
                    NEW t \in Slots, NEW s \in Slots,
                    (Dist(tailVis, t) <= Dist(tailVis, tail_))',
                    (~Between(s, t, head_))'
             PROVE  s \in tailMsg'[t]
  BY DEF ReadsReleased
<1>0. ASSUME Dist(tailVis, t) <= Dist(tailVis, tail_), ~Between(s, t, head_)
      PROVE  s \in tailMsg[t]
  BY <1>0 DEF ReadsReleased
<1>1. CASE PushFull
  BY <1>1, <1>0 DEF PushFull, LoadTail, indexVars, prodVars, consVars, Between, Dist
<1>2. ASSUME NEW v \in Values, PushBegin(v) PROVE s \in tailMsg'[t]
  BY <1>2, <1>0 DEF PushBegin, LoadTail, indexVars, consVars, Between, Dist
<1>3. CASE PushWrite
  BY <1>3, <1>0 DEF PushWrite, Forget, indexVars, consVars, Between, Dist
<1>4. CASE PushPublish
  <2>1. Dist(tailVis, t) <= Dist(tailVis, head_)
    BY <1>4, DistRange DEF PushPublish, HeadRelease, consVars, TypeOK, IndexOrder, Dist
  <2>2. Dist(tailVis, Succ(head_)) = Dist(tailVis, head_) + 1
    BY <1>4, DistSucc DEF PushPublish, HeadRelease, consVars, TypeOK, IndexOrder
  <2>3. Succ(head_) # t
    BY <2>1, <2>2, DistRange DEF TypeOK
  <2>4. Dist(t, Succ(head_)) = Dist(t, head_) + 1
    BY <2>3, DistSucc DEF TypeOK
  <2>5. ~(Dist(t, s) < Dist(t, Succ(head_)))
    BY <1>4 DEF PushPublish, HeadRelease, consVars, Between, Dist
  <2>6. ~(Dist(t, s) < Dist(t, head_))
    BY <2>4, <2>5, DistRange DEF TypeOK
  <2> QED BY <1>4, <1>0, <2>6 DEF PushPublish, HeadRelease, consVars, Between, Dist
<1>5. CASE PopEmpty
  BY <1>5, <1>0 DEF PopEmpty, LoadHead, indexVars, prodVars, consVars, Between, Dist
<1>6. CASE PopBegin
  BY <1>6, <1>0 DEF PopBegin, LoadHead, indexVars, prodVars, Between, Dist
<1>7. CASE PopRead
  <2>1. s \in tailMsg[t]
    BY <1>7, <1>0 DEF PopRead, Forget, indexVars, prodVars, Between, Dist
  <2>2. Dist(t, tail_) < Dist(t, head_)
    BY <1>7, SlotsInUse, DistShift, DistRange DEF PopRead, Forget, indexVars, prodVars, TypeOK, IndexOrder, Dist
  <2>3. s # tail_
    BY <1>7, <2>2 DEF PopRead, Forget, indexVars, prodVars, Between, Dist
  <2> QED BY <1>7, <2>1, <2>3 DEF PopRead, Forget, indexVars, prodVars, TypeOK
<1>8. CASE PopPublish
  <2>1. CASE t = Succ(tail_)
    BY <1>8, <2>1 DEF PopPublish, TailRelease, prodVars, TypeOK
  <2>2. CASE t # Succ(tail_)
    <3>1. Dist(tailVis, tail_) < Dist(tailVis, headVis)
      BY <1>8, SlotsInUse DEF PopPublish, TailRelease, prodVars
    <3>2. Succ(tail_) # tailVis
      BY <3>1, DistRange, DistTurn, QueueAssumption DEF TypeOK
    <3>3. Dist(tailVis, Succ(tail_)) = Dist(tailVis, tail_) + 1
      BY <3>2, DistSucc DEF TypeOK
    <3>4. Dist(tailVis, t) <= Dist(tailVis, Succ(tail_))
      BY <1>8 DEF PopPublish, TailRelease, prodVars, Dist
    <3>5. Dist(tailVis, t) # Dist(tailVis, Succ(tail_))
      BY <2>2, SuccSlot, DistInjective DEF TypeOK
    <3>6. Dist(tailVis, t) <= Dist(tailVis, tail_)
      BY <3>3, <3>4, <3>5, DistRange DEF TypeOK
    <3>7. s \in tailMsg[t]
      BY <1>8, <1>0, <3>6 DEF PopPublish, TailRelease, prodVars, Between, Dist
    <3> QED BY <1>8, <2>2, <3>7 DEF PopPublish, TailRelease, prodVars, TypeOK
  <2> QED BY <2>1, <2>2
<1>9. CASE HeadVisible
  BY <1>9, <1>0 DEF HeadVisible, orderVars, prodVars, consVars, Between, Dist
<1>10. CASE TailVisible
  <2>1. Dist(Succ(tailVis), t) <= Dist(Succ(tailVis), tail_)
    BY <1>10 DEF TailVisible, orderVars, prodVars, consVars, Dist
  <2>2. Dist(Succ(tailVis), t) <= Dist(Succ(tailVis), head_)
    <3>1. tailVis # head_
      BY <1>10, DistRange DEF TailVisible, orderVars, prodVars, consVars, TypeOK, IndexOrder
    <3>2. /\ Dist(Succ(tailVis), tail_) = Dist(tailVis, tail_) - 1
          /\ Dist(Succ(tailVis), head_) = Dist(tailVis, head_) - 1
      BY <1>10, <3>1, DistSucc DEF TailVisible, orderVars, prodVars, consVars, TypeOK
    <3> QED BY <2>1, <3>2, DistRange, SuccSlot DEF TypeOK, IndexOrder
  <2>3. Dist(tailVis, t) <= Dist(tailVis, tail_)
    BY <1>10, <2>1, <2>2, SlotsAfterTailVisible, DistRange DEF TailVisible, orderVars, prodVars, consVars, TypeOK
  <2> QED BY <1>10, <1>0, <2>3 DEF TailVisible, orderVars, prodVars, consVars, Between, Dist
<1>11. CASE UNCHANGED vars
  BY <1>11, <1>0 DEF vars, indexVars, orderVars, prodVars, consVars, Between, Dist
<1> QED BY <1>1, <1>2, <1>3, <1>4, <1>5, <1>6, <1>7, <1>8, <1>9, <1>10, <1>11
        DEF Next, Produce, Consume, Propagate

\* An acquire load that passes the test of push or pop brings over the slot
\* the call is about to access, and the other thread leaves that slot alone.
LEMMA StepNoDataRace ==
  IndInv /\ [Next]_vars => NoDataRace'
<1> SUFFICES ASSUME IndInv, [Next]_vars PROVE NoDataRace'
  OBVIOUS
<1> USE DEF IndInv
<1>1. CASE PushFull
  BY <1>1 DEF PushFull, LoadTail, indexVars, prodVars, consVars, NoDataRace
<1>2. ASSUME NEW v \in Values, PushBegin(v) PROVE NoDataRace'
  <2>1. head_ \in tailMsg[tailVis]
    BY DistRange DEF ReadsReleased, TypeOK, Between
  <2> QED BY <1>2, <2>1 DEF PushBegin, LoadTail, indexVars, consVars, NoDataRace
<1>3. CASE PushWrite
  BY <1>3, SlotsInUse DEF PushWrite, Forget, indexVars, consVars, NoDataRace
<1>4. CASE PushPublish
  BY <1>4 DEF PushPublish, HeadRelease, consVars, NoDataRace
<1>5. CASE PopEmpty
  BY <1>5 DEF PopEmpty, LoadHead, indexVars, prodVars, consVars, NoDataRace
<1>6. CASE PopBegin
  <2>1. tail_ \in headMsg[headVis]
    BY <1>6, DistRange DEF PopBegin, LoadHead, indexVars, prodVars, Empty, WritesReleased, TypeOK, IndexOrder, Between
  <2> QED BY <1>6, <2>1 DEF PopBegin, LoadHead, indexVars, prodVars, NoDataRace
<1>7. CASE PopRead
  BY <1>7, SlotsInUse DEF PopRead, Forget, indexVars, prodVars, NoDataRace
<1>8. CASE PopPublish
  BY <1>8 DEF PopPublish, TailRelease, prodVars, NoDataRace
<1>9. CASE HeadVisible
  BY <1>9 DEF HeadVisible, orderVars, prodVars, consVars, NoDataRace
<1>10. CASE TailVisible
  BY <1>10 DEF TailVisible, orderVars, prodVars, consVars, NoDataRace
<1>11. CASE UNCHANGED vars
  BY <1>11 DEF vars, indexVars, orderVars, prodVars, consVars, NoDataRace
<1> QED BY <1>1, <1>2, <1>3, <1>4, <1>5, <1>6, <1>7, <1>8, <1>9, <1>10, <1>11
        DEF Next, Produce, Consume, Propagate

\* What push and pop hold in hand stays what is in their slot.
LEMMA StepInHand ==
  TypeOK /\ IndexOrder /\ InHand /\ [Next]_vars => InHand'
<1> SUFFICES ASSUME TypeOK, IndexOrder, InHand, [Next]_vars PROVE InHand'
  OBVIOUS
<1>1. CASE PushFull
  BY <1>1 DEF PushFull, LoadTail, indexVars, prodVars, consVars, InHand, TypeOK
<1>2. ASSUME NEW v \in Values, PushBegin(v) PROVE InHand'
  BY <1>2 DEF PushBegin, LoadTail, indexVars, consVars, InHand, TypeOK
<1>3. CASE PushWrite
  BY <1>3, SlotsInUse DEF PushWrite, Forget, indexVars, consVars, InHand, TypeOK
<1>4. CASE PushPublish
  BY <1>4 DEF PushPublish, HeadRelease, consVars, InHand, TypeOK
<1>5. CASE PopEmpty
  BY <1>5 DEF PopEmpty, LoadHead, indexVars, prodVars, consVars, InHand, TypeOK
<1>6. CASE PopBegin
  BY <1>6 DEF PopBegin, LoadHead, indexVars, prodVars, InHand, TypeOK
<1>7. CASE PopRead
  BY <1>7 DEF PopRead, Forget, indexVars, prodVars, InHand, TypeOK
<1>8. CASE PopPublish
  BY <1>8 DEF PopPublish, TailRelease, prodVars, InHand, TypeOK
<1>9. CASE HeadVisible
  BY <1>9 DEF HeadVisible, orderVars, prodVars, consVars, InHand, TypeOK
<1>10. CASE TailVisible
  BY <1>10 DEF TailVisible, orderVars, prodVars, consVars, InHand, TypeOK
<1>11. CASE UNCHANGED vars
  BY <1>11 DEF vars, indexVars, orderVars, prodVars, consVars, InHand, TypeOK
<1> QED BY <1>1, <1>2, <1>3, <1>4, <1>5, <1>6, <1>7, <1>8, <1>9, <1>10, <1>11
        DEF Next, Produce, Consume, Propagate

-----------------------------------------------------------------------------
\* The invariant holds in every reachable state, for every size and item set.
THEOREM Inductive == Spec => []IndInv
<1>1. IndInv /\ [Next]_vars => IndInv'
  BY StepTypeOK, StepIndexOrder, StepWritesReleased, StepReadsReleased,
     StepNoDataRace, StepInHand DEF IndInv
<1> QED BY InitInductive, <1>1, PTL DEF Spec

\* For every size and set of items the state of the queue is well typed.
THEOREM TypeCorrect == Spec => []TypeOK
BY Inductive, PTL DEF IndInv

\* For every size and set of items, whatever the interleaving of the two
\* threads and however late stores become visible, no access of push to a
\* slot races with an access of pop.
THEOREM DataRaceFree == Spec => []NoDataRace
BY Inductive, PTL DEF IndInv

-----------------------------------------------------------------------------
(***************************************************************************)
(* The queue implements the channel: push takes effect when it stores      *)
(* head_, pop when it stores tail_, and every other step is invisible.     *)
(***************************************************************************)

\* The slot of the i-th oldest item.
LEMMA NthSlotAt ==
  ASSUME NEW a \in Slots, NEW i \in 1 .. Size + 1
  PROVE  /\ NthSlot(a, i) \in Slots
         /\ Dist(a, NthSlot(a, i)) = i - 1
<1>1. CASE a + i - 1 <= Size
  <2>1. (a + i - 1) % (Size + 1) = a + i - 1
    BY <1>1, QueueAssumption DEF Slots
  <2> QED BY <1>1, <2>1, QueueAssumption DEF NthSlot, Slots, BufferSize, Dist
<1>2. CASE ~(a + i - 1 <= Size)
  <2>1. (a + i - 1) % (Size + 1) = a + i - 1 - (Size + 1)
    BY <1>2, QueueAssumption DEF Slots
  <2> QED BY <1>2, <2>1, QueueAssumption DEF NthSlot, Slots, BufferSize, Dist
<1> QED BY <1>1, <1>2

\* The contents of the queue form a sequence of at most Size items.
LEMMA ContentsType ==
  ASSUME TypeOK
  PROVE  /\ contents \in Seq(Values \cup {NoValue})
         /\ Len(contents) = Dist(tail_, head_)
         /\ Dist(tail_, head_) \in 0 .. Size
         /\ \A i \in 1 .. Dist(tail_, head_) :
              contents[i] = buffer_[NthSlot(tail_, i)]
<1>1. Dist(tail_, head_) \in 0 .. Size
  BY DistRange DEF TypeOK
<1>2. \A i \in 1 .. Dist(tail_, head_) :
        buffer_[NthSlot(tail_, i)] \in Values \cup {NoValue}
  BY <1>1, NthSlotAt, QueueAssumption DEF TypeOK
<1> QED BY <1>1, <1>2, QueueAssumption DEF contents

\* A step that leaves the indices and the slots in use alone is invisible.
LEMMA SameContents ==
  ASSUME TypeOK, UNCHANGED <<head_, tail_, popped>>,
         buffer_' = buffer_ \/ PushWrite
  PROVE  UNCHANGED Channel!vars
<1>1. Dist(tail_, head_) \in 0 .. Size
  BY DistRange DEF TypeOK
<1>2. ASSUME NEW i \in 1 .. Dist(tail_, head_)
      PROVE  buffer_'[NthSlot(tail_, i)] =
               buffer_[NthSlot(tail_, i)]
  <2>1. NthSlot(tail_, i) \in Slots
    BY <1>1, NthSlotAt, QueueAssumption DEF TypeOK
  <2>2. NthSlot(tail_, i) # head_
    BY <1>1, NthSlotAt, QueueAssumption DEF TypeOK
  <2> QED BY <2>1, <2>2 DEF PushWrite, TypeOK
<1>3. contents' = contents
  BY <1>2 DEF contents, Dist
<1> QED BY <1>3 DEF Channel!vars

\* The release store of push appends its argument to the contents.
LEMMA PushIsPut ==
  ASSUME IndInv, PushPublish
  PROVE  Channel!Put(pitem)
<1> USE QueueAssumption DEF IndInv
<1> DEFINE n == Dist(tail_, head_)
           V == Values \cup {NoValue}
<1>1. /\ contents \in Seq(V) /\ Len(contents) = n
      /\ n \in 0 .. Size
      /\ \A i \in 1 .. n : contents[i] = buffer_[NthSlot(tail_, i)]
  BY ContentsType
<1>2. Succ(head_) # tail_
  <2>1. Dist(tailVis, Succ(head_)) = Dist(tailVis, head_) + 1
    BY DistSucc DEF PushPublish, TypeOK, IndexOrder
  <2> QED BY <2>1, DistRange DEF TypeOK, IndexOrder
<1>3. Dist(tail_, Succ(head_)) = n + 1
  BY <1>2, DistSucc DEF TypeOK
<1>4. n < Size
  BY <1>1, <1>3, SuccSlot, DistRange DEF TypeOK
<1>5. head_ = NthSlot(tail_, n + 1)
  <2> HIDE DEF n
  <2>1. n \in Nat /\ n + 1 \in 1 .. Size + 1
    BY <1>1
  <2>2. /\ NthSlot(tail_, n + 1) \in Slots
        /\ Dist(tail_, NthSlot(tail_, n + 1)) = n + 1 - 1
    BY <2>1, NthSlotAt DEF TypeOK
  <2>3. Dist(tail_, NthSlot(tail_, n + 1)) = n
    BY <1>1, <2>2
  <2> USE DEF n
  <2> QED BY <2>2, <2>3, DistInjective DEF TypeOK
<1>6. contents' = [i \in 1 .. n + 1 |-> buffer_[NthSlot(tail_, i)]]
  BY <1>3 DEF contents, PushPublish, Dist
<1>7. buffer_[NthSlot(tail_, n + 1)] = pitem /\ pitem \in V
  BY <1>5 DEF PushPublish, InHand, TypeOK
<1>8. contents' = Append(contents, pitem)
  <2> HIDE DEF n, V
  <2>1. /\ Append(contents, pitem) \in Seq(V)
        /\ Len(Append(contents, pitem)) = n + 1
        /\ \A i \in 1 .. n : Append(contents, pitem)[i] = contents[i]
        /\ Append(contents, pitem)[n + 1] = pitem
    BY <1>1, <1>7, AppendProperties
  <2>2. ASSUME NEW i \in 1 .. n + 1
        PROVE  buffer_[NthSlot(tail_, i)] = Append(contents, pitem)[i]
    BY <1>1, <1>7, <2>1
  <2>3. /\ n + 1 \in Nat
        /\ \A i \in 1 .. n + 1 : buffer_[NthSlot(tail_, i)] \in V
    BY <1>1, <1>7, <2>1, <2>2, ElementOfSeq
  <2>4. contents' \in Seq(V) /\ Len(contents') = n + 1
    BY <1>6, <2>3
  <2>5. \A i \in 1 .. n + 1 : contents'[i] = Append(contents, pitem)[i]
    BY <1>6, <2>2
  <2> QED BY <2>1, <2>4, <2>5, SeqEqual
<1> QED BY <1>1, <1>4, <1>8 DEF Channel!Put, PushPublish, consVars

\* The release store of pop takes the oldest item off the contents, and that
\* is the item pop returns.
LEMMA PopIsGet ==
  ASSUME IndInv, PopPublish
  PROVE  Channel!Get
<1> USE QueueAssumption DEF IndInv
<1> DEFINE n == Dist(tail_, head_)
           V == Values \cup {NoValue}
<1>1. /\ contents \in Seq(V) /\ Len(contents) = n
      /\ n \in 0 .. Size
      /\ \A i \in 1 .. n : contents[i] = buffer_[NthSlot(tail_, i)]
  BY ContentsType
<1>2. n > 0 /\ contents # <<>>
  <2>1. n > 0
    BY DistRange, SlotsInUse DEF TypeOK, PopPublish
  <2> QED BY <1>1, <2>1, EmptySeq
<1>3. Dist(Succ(tail_), head_) = n - 1
  BY <1>1, SlotsInUse, DistSucc DEF TypeOK, PopPublish
<1>4. ASSUME NEW i \in 1 .. n - 1
      PROVE  NthSlot(Succ(tail_), i) = NthSlot(tail_, i + 1)
  <2>1. i \in 1 .. Size + 1 /\ i + 1 \in 1 .. Size + 1
    BY <1>1
  <2>2. /\ NthSlot(Succ(tail_), i) \in Slots
        /\ Dist(Succ(tail_), NthSlot(Succ(tail_), i)) = i - 1
    BY <2>1, NthSlotAt, SuccSlot DEF TypeOK
  <2>3. /\ NthSlot(tail_, i + 1) \in Slots
        /\ Dist(tail_, NthSlot(tail_, i + 1)) = i + 1 - 1
    BY <2>1, NthSlotAt DEF TypeOK
  <2>4. tail_ # NthSlot(tail_, i + 1)
    BY <2>1, <2>3, DistRange DEF TypeOK
  <2>5. Dist(Succ(tail_), NthSlot(tail_, i + 1)) = i - 1
    BY <2>1, <2>3, <2>4, DistSucc DEF TypeOK
  <2> QED BY <2>2, <2>3, <2>5, SuccSlot, DistInjective DEF TypeOK
<1>5. contents' = [i \in 1 .. n - 1 |-> buffer_[NthSlot(Succ(tail_), i)]]
  BY <1>3 DEF contents, PopPublish, Dist
<1>6. contents' = Tail(contents)
  <2> HIDE DEF n, V
  <2>1. /\ Tail(contents) \in Seq(V)
        /\ Len(Tail(contents)) = n - 1
        /\ \A i \in 1 .. n - 1 : Tail(contents)[i] = contents[i + 1]
    BY <1>1, <1>2, HeadTailProperties
  <2>2. ASSUME NEW i \in 1 .. n - 1
        PROVE  buffer_[NthSlot(Succ(tail_), i)] = Tail(contents)[i]
    <3>1. i + 1 \in 1 .. n
      BY <1>1
    <3> QED BY <1>1, <1>4, <2>1, <3>1
  <2>3. /\ n - 1 \in Nat
        /\ \A i \in 1 .. n - 1 : buffer_[NthSlot(Succ(tail_), i)] \in V
    BY <1>1, <1>2, <2>1, <2>2, ElementOfSeq
  <2>4. contents' \in Seq(V) /\ Len(contents') = n - 1
    BY <1>5, <2>3
  <2>5. \A i \in 1 .. n - 1 : contents'[i] = Tail(contents)[i]
    BY <1>5, <2>2
  <2> QED BY <2>1, <2>4, <2>5, SeqEqual
<1>7. tail_ = NthSlot(tail_, 1)
  <2>1. 1 \in 1 .. Size + 1
    OBVIOUS
  <2>2. /\ NthSlot(tail_, 1) \in Slots
        /\ Dist(tail_, NthSlot(tail_, 1)) = 1 - 1
    BY <2>1, NthSlotAt DEF TypeOK
  <2> QED BY <2>2, DistRange DEF TypeOK
<1>8. popped' = contents[1]
  BY <1>1, <1>2, <1>7 DEF PopPublish, InHand
<1> QED BY <1>2, <1>6, <1>8 DEF Channel!Get

\* A queue just constructed is an empty channel.
LEMMA InitIsEmpty == Init => Channel!Init
BY DEF Init, Channel!Init, contents, Dist

\* For every size and set of items the queue is a bounded FIFO channel: each
\* step of push, pop and the memory system is one put, one get, or nothing a
\* caller can see.
THEOREM QueueImplementsFifo == Spec => ImplementsFifo
<1>1. IndInv /\ [Next]_vars => [Channel!Next]_(Channel!vars)
  <2> SUFFICES ASSUME IndInv, [Next]_vars PROVE [Channel!Next]_(Channel!vars)
    OBVIOUS
  <2>1. CASE PushPublish
    BY <2>1, PushIsPut DEF Channel!Next, IndInv, InHand, PushPublish
  <2>2. CASE PopPublish
    BY <2>2, PopIsGet DEF Channel!Next
  <2>3. CASE PushFull \/ PopEmpty \/ PopBegin \/ PopRead \/ HeadVisible \/ TailVisible
    BY <2>3, SameContents DEF IndInv, PushFull, PopEmpty, PopBegin, PopRead,
       HeadVisible, TailVisible, indexVars, consVars
  <2>4. CASE PushWrite \/ \E v \in Values : PushBegin(v)
    BY <2>4, SameContents DEF IndInv, PushWrite, PushBegin, indexVars, consVars
  <2>5. CASE UNCHANGED vars
    BY <2>5, SameContents DEF IndInv, vars, indexVars, consVars
  <2> QED BY <2>1, <2>2, <2>3, <2>4, <2>5 DEF Next, Produce, Consume, Propagate
<1> QED BY InitIsEmpty, Inductive, <1>1, PTL DEF Spec, ImplementsFifo, Channel!Spec

-----------------------------------------------------------------------------
(***************************************************************************)
(* The sampler of QueueDepth beside the queue, for every size.             *)
(***************************************************************************)

\* While the sampler is between its loads, the items it saw and that are not
\* popped yet lie between tail_ and the head it loaded.
SampleInv ==
  /\ DepthTypeOK
  /\ DepthInRange
  /\ spc = "tail" /\ pops <= before => Dist(tail_, shead) = before - pops
  /\ ExactUnlessOvertaken

-----------------------------------------------------------------------------
\* Whatever size() loads, it subtracts to the distance between the slots.
LEMMA DistanceIsDist ==
  ASSUME NEW h \in Slots, NEW t \in Slots
  PROVE  Distance(h, t) = Dist(t, h)
BY QueueAssumption DEF Distance, Dist, Slots, BufferSize

\* Sampling does not touch the queue: the sampled queue is a queue.
LEMMA SamplerIsHarmless == DepthSpec => Spec
<1>1. DepthInit => Init
  BY DEF DepthInit
<1>2. [DepthNext]_depthVars => [Next]_vars
  BY DEF DepthNext, SizeLoadsHead, SizeLoadsTail, QueueStep, depthVars
<1> QED BY <1>1, <1>2, PTL DEF DepthSpec, Spec

\* A step of the queue that moves tail_ is the end of a pop, and the queue
\* was not empty.
LEMMA OnlyPopsMoveTail ==
  ASSUME IndInv, Next
  PROVE  \/ tail_' = tail_
         \/ tail_' = Succ(tail_) /\ tail_ # head_
<1>1. CASE PopPublish
  BY <1>1, SlotsInUse DEF PopPublish, IndInv
<1>2. CASE ~PopPublish
  BY <1>2 DEF Next, Produce, Consume, Propagate, PushFull, PushBegin,
     PushWrite, PushPublish, PopEmpty, PopBegin, PopRead, HeadVisible,
     TailVisible, indexVars
<1> QED BY <1>1, <1>2

\* No step breaks the invariant of the sampler.
LEMMA SampleStep ==
  IndInv /\ IndInv' /\ SampleInv /\ [DepthNext]_depthVars => SampleInv'
<1> SUFFICES ASSUME IndInv, IndInv', SampleInv, [DepthNext]_depthVars
             PROVE  SampleInv'
  OBVIOUS
<1> USE QueueAssumption
<1>0. /\ tail_ \in Slots /\ head_ \in Slots /\ shead \in Slots
      /\ tail_' \in Slots /\ head_' \in Slots
  BY DEF IndInv, TypeOK, SampleInv, DepthTypeOK
<1>1. CASE SizeLoadsHead
  <2>1. Length \in 0 .. Size
    BY <1>0, DistRange DEF Length
  <2> QED BY <1>0, <1>1, <2>1
          DEF SizeLoadsHead, SampleInv, DepthTypeOK, DepthInRange,
              ExactUnlessOvertaken, Length, vars, indexVars
<1>2. CASE SizeLoadsTail
  <2>1. Distance(shead, tail_) = Dist(tail_, shead)
    BY <1>0, DistanceIsDist
  <2>2. Dist(tail_, shead) \in 0 .. Size
    BY <1>0, DistRange
  <2> QED BY <1>2, <2>1, <2>2
          DEF SizeLoadsTail, SampleInv, DepthTypeOK, DepthInRange, Capacity,
              BufferSize, ExactUnlessOvertaken, historyVars
<1>3. CASE QueueStep
  <2>1. CASE spc = "idle"
    BY <1>3, <2>1 DEF QueueStep, SampleInv, DepthTypeOK, DepthInRange,
       ExactUnlessOvertaken, samplerVars, historyVars
  <2>2. CASE spc = "tail"
    <3>1. Length' \in Nat
      BY <1>0, DistRange DEF Length
    <3>2. DepthTypeOK' /\ DepthInRange' /\ ExactUnlessOvertaken'
      BY <1>3, <2>2, <3>1 DEF QueueStep, SampleInv, DepthTypeOK, DepthInRange,
         ExactUnlessOvertaken, samplerVars
    <3>3. CASE tail_' = tail_
      <4>1. pops' = pops /\ before' = before /\ shead' = shead
        BY <1>3, <2>2, <3>3 DEF QueueStep, samplerVars
      <4>2. Dist(tail_, shead)' = Dist(tail_, shead)
        BY <3>3, <4>1 DEF Dist
      <4>3. (spc = "tail" /\ pops <= before => Dist(tail_, shead) = before - pops)'
        BY <2>2, <4>1, <4>2 DEF SampleInv
      <4> QED BY <3>2, <4>3 DEF SampleInv
    <3>4. CASE tail_' = Succ(tail_) /\ tail_' # tail_
      <4>1. ASSUME pops' <= before'
            PROVE  pops <= before /\ pops' = pops + 1
        BY <1>3, <2>2, <3>4, <4>1
           DEF QueueStep, SampleInv, DepthTypeOK, Capacity, BufferSize
      <4>2. ASSUME pops' <= before'
            PROVE  Dist(tail_, shead) = before - pops /\ pops < before
        BY <1>3, <2>2, <4>1, <4>2 DEF QueueStep, SampleInv, DepthTypeOK
      <4>3. ASSUME pops' <= before'
            PROVE  Dist(Succ(tail_), shead) = before - pops - 1
        BY <1>0, <4>2, <4>3, DistRange, DistSucc DEF SampleInv, DepthTypeOK
      <4> QED BY <1>3, <2>2, <3>2, <3>4, <4>1, <4>3
              DEF QueueStep, SampleInv, DepthTypeOK, samplerVars, Dist
    <3> QED BY <1>3, <3>3, <3>4, OnlyPopsMoveTail DEF QueueStep
  <2> QED BY <2>1, <2>2 DEF SampleInv, DepthTypeOK
<1>4. CASE UNCHANGED depthVars
  BY <1>4 DEF depthVars, vars, indexVars, samplerVars, historyVars, SampleInv,
     DepthTypeOK, DepthInRange, ExactUnlessOvertaken, Dist
<1> QED BY <1>1, <1>2, <1>3, <1>4 DEF DepthNext

-----------------------------------------------------------------------------
\* The invariant of the sampler holds in every reachable state.
THEOREM SampleInductive == DepthSpec => []SampleInv
<1>1. DepthInit => SampleInv
  BY QueueAssumption DEF DepthInit, SampleInv, DepthTypeOK, DepthInRange,
     ExactUnlessOvertaken, Slots, Capacity, BufferSize
<1>2. DepthSpec => []IndInv
  BY SamplerIsHarmless, Inductive, PTL
<1> QED BY <1>1, <1>2, SampleStep, PTL DEF DepthSpec

\* For every size of the queue, size() returns at most capacity().
THEOREM DepthBounded == DepthSpec => []DepthInRange
BY SampleInductive, PTL DEF SampleInv

\* For every size of the queue, a size() during which no more items are popped
\* than it saw returns the number of the others.
THEOREM DepthExact == DepthSpec => []ExactUnlessOvertaken
BY SampleInductive, PTL DEF SampleInv
=============================================================================
