----------------------- MODULE ThreadSafeQueueProofs -----------------------
(***************************************************************************)
(* Proofs about ThreadSafeQueue and LockBasedEngine.  For any number of    *)
(* threads and any items: the mutex is respected, no pop meets an empty    *)
(* queue, and no item is left to a sleeping thread.  For the program with  *)
(* its three threads, and any number of ticks: the ticks are processed in  *)
(* the order of their making.                                              *)
(***************************************************************************)
EXTENDS LockBasedEngine, FiniteSetTheorems, SequenceTheorems, TLAPS

\* What the place of a thread says about the function it is in.
InCall ==
  \A t \in Threads :
    /\ qpc[t] \in {"blocked", "relock"} => call[t] = "wait_and_pop"
    /\ qpc[t] = "take" => call[t] \in {"wait_and_pop", "try_pop"}
    /\ call[t] = "push" => value[t] \in Values

IndInv == QueueTypeOK /\ InCall /\ NoPopOfEmpty /\ NoLostWakeup
-----------------------------------------------------------------------------
\* A sequence of items that is not empty has a head, and a tail one shorter.
LEMMA HeadAndTail ==
  ASSUME NEW s \in Seq(Values), s # <<>>
  PROVE  /\ Head(s) \in Values
         /\ Tail(s) \in Seq(Values)
         /\ Len(Tail(s)) = Len(s) - 1
         /\ Len(s) \in Nat \ {0}
OBVIOUS

\* Nobody is awake at first.
LEMMA InitInv == QueueInit => IndInv
<1> SUFFICES ASSUME QueueInit PROVE IndInv
  OBVIOUS
<1>1. QueueTypeOK
  BY ThreadsAssumption DEF QueueInit, QueueTypeOK
<1>2. InCall /\ NoPopOfEmpty
  BY DEF QueueInit, InCall, NoPopOfEmpty
<1>3. Blocked = {}
  BY DEF QueueInit, Blocked
<1> QED BY <1>1, <1>2, <1>3 DEF IndInv, NoLostWakeup

\* Every step keeps the types and the mutex, which is held by the one thread
\* that is under it.
LEMMA StepType == IndInv /\ [QueueNext]_qvars => QueueTypeOK'
<1> SUFFICES ASSUME IndInv, [QueueNext]_qvars PROVE QueueTypeOK'
  OBVIOUS
<1> USE DEF IndInv
<1>1. ASSUME NEW t \in Threads, NEW v \in Values, CallPush(t, v)
      PROVE  QueueTypeOK'
  BY <1>1 DEF CallPush, Call, At, QueueTypeOK
<1>2. ASSUME NEW t \in Threads, CallWaitAndPop(t) \/ CallTryPop(t)
      PROVE  QueueTypeOK'
  BY <1>2 DEF CallWaitAndPop, CallTryPop, Call, At, QueueTypeOK
<1>3. ASSUME NEW t \in Threads, Lock(t) PROVE QueueTypeOK'
  BY <1>3, ThreadsAssumption DEF Lock, At, QueueTypeOK
<1>4. ASSUME NEW t \in Threads, PushBody(t) PROVE QueueTypeOK'
  <2>1. queue_' \in Seq(Values)
    BY <1>4 DEF PushBody, QueueTypeOK, InCall
  <2> QED BY <1>4, <2>1 DEF PushBody, At, QueueTypeOK, Notifiable, Blocked
<1>5. ASSUME NEW t \in Threads, PredicateTrue(t) PROVE QueueTypeOK'
  BY <1>5 DEF PredicateTrue, At, QueueTypeOK
<1>6. ASSUME NEW t \in Threads, PredicateFalse(t) PROVE QueueTypeOK'
  BY <1>6, ThreadsAssumption DEF PredicateFalse, At, QueueTypeOK
<1>7. ASSUME NEW t \in Threads, Relock(t) PROVE QueueTypeOK'
  BY <1>7, ThreadsAssumption DEF Relock, At, AfterWakeup, QueueTypeOK
<1>8. ASSUME NEW t \in Threads, Take(t) PROVE QueueTypeOK'
  <2>1. Head(queue_) \in Values /\ queue_' \in Seq(Values)
    BY <1>8, HeadAndTail DEF Take, NoPopOfEmpty, QueueTypeOK
  <2> QED BY <1>8, <2>1 DEF Take, At, QueueTypeOK
<1>9. ASSUME NEW t \in Threads, TryFinds(t) \/ TryFails(t) PROVE QueueTypeOK'
  BY <1>9 DEF TryFinds, TryFails, At, QueueTypeOK
<1>10. ASSUME NEW t \in Threads, Unlock(t) PROVE QueueTypeOK'
  BY <1>10, ThreadsAssumption DEF Unlock, At, QueueTypeOK
<1>11. ASSUME NEW t \in Threads, SpuriousWakeup(t) PROVE QueueTypeOK'
  BY <1>11 DEF SpuriousWakeup, At, QueueTypeOK
<1>12. CASE UNCHANGED qvars
  BY <1>12 DEF qvars, QueueTypeOK
<1> QED BY <1>1, <1>2, <1>3, <1>4, <1>5, <1>6, <1>7, <1>8, <1>9, <1>10,
           <1>11, <1>12 DEF QueueNext, Step

\* A thread stays in its function until it leaves.
LEMMA StepInCall == IndInv /\ [QueueNext]_qvars => InCall'
<1> SUFFICES ASSUME IndInv, [QueueNext]_qvars PROVE InCall'
  OBVIOUS
<1> USE DEF IndInv, QueueTypeOK, InCall
<1>1. ASSUME NEW t \in Threads, NEW v \in Values, CallPush(t, v) PROVE InCall'
  BY <1>1 DEF CallPush, Call, At
<1>2. ASSUME NEW t \in Threads, CallWaitAndPop(t) \/ CallTryPop(t) PROVE InCall'
  BY <1>2 DEF CallWaitAndPop, CallTryPop, Call, At
<1>3. ASSUME NEW t \in Threads, Lock(t) PROVE InCall'
  BY <1>3 DEF Lock, At
<1>4. ASSUME NEW t \in Threads, PushBody(t) PROVE InCall'
  BY <1>4 DEF PushBody, At, Notifiable, Blocked
<1>5. ASSUME NEW t \in Threads, PredicateTrue(t) \/ PredicateFalse(t)
      PROVE  InCall'
  BY <1>5 DEF PredicateTrue, PredicateFalse, At
<1>6. ASSUME NEW t \in Threads, Relock(t) PROVE InCall'
  BY <1>6 DEF Relock, At, AfterWakeup
<1>7. ASSUME NEW t \in Threads, Take(t) PROVE InCall'
  BY <1>7 DEF Take, At
<1>8. ASSUME NEW t \in Threads, TryFinds(t) \/ TryFails(t) PROVE InCall'
  BY <1>8 DEF TryFinds, TryFails, At
<1>9. ASSUME NEW t \in Threads, Unlock(t) PROVE InCall'
  BY <1>9 DEF Unlock, At
<1>10. ASSUME NEW t \in Threads, SpuriousWakeup(t) PROVE InCall'
  BY <1>10 DEF SpuriousWakeup, At
<1>11. CASE UNCHANGED qvars
  BY <1>11 DEF qvars
<1> QED BY <1>1, <1>2, <1>3, <1>4, <1>5, <1>6, <1>7, <1>8, <1>9, <1>10, <1>11
        DEF QueueNext, Step

\* A thread about to take an item has the mutex: no other thread takes one
\* before it does.
LEMMA StepNoPopOfEmpty == IndInv /\ [QueueNext]_qvars => NoPopOfEmpty'
<1> SUFFICES ASSUME IndInv, [QueueNext]_qvars, NEW u \in Threads,
                    (qpc[u] = "take")'
             PROVE  (queue_ # <<>>)'
  BY DEF NoPopOfEmpty
<1> USE DEF IndInv, QueueTypeOK, NoPopOfEmpty
<1>1. ASSUME NEW t \in Threads, NEW v \in Values, CallPush(t, v)
      PROVE  (queue_ # <<>>)'
  BY <1>1 DEF CallPush, Call, At
<1>2. ASSUME NEW t \in Threads, CallWaitAndPop(t) \/ CallTryPop(t)
      PROVE  (queue_ # <<>>)'
  BY <1>2 DEF CallWaitAndPop, CallTryPop, Call, At
<1>3. ASSUME NEW t \in Threads, Lock(t) \/ Unlock(t) \/ Relock(t)
      PROVE  (queue_ # <<>>)'
  BY <1>3 DEF Lock, Unlock, Relock, AfterWakeup, At
<1>4. ASSUME NEW t \in Threads, PushBody(t) PROVE (queue_ # <<>>)'
  <2>1. value[t] \in Values
    BY <1>4 DEF PushBody, InCall
  <2> QED BY <1>4, <2>1 DEF PushBody
<1>5. ASSUME NEW t \in Threads, PredicateTrue(t) \/ TryFinds(t)
      PROVE  (queue_ # <<>>)'
  BY <1>5 DEF PredicateTrue, TryFinds
<1>6. ASSUME NEW t \in Threads,
             PredicateFalse(t) \/ TryFails(t) \/ SpuriousWakeup(t)
      PROVE  (queue_ # <<>>)'
  BY <1>6 DEF PredicateFalse, TryFails, SpuriousWakeup, At
<1>7. ASSUME NEW t \in Threads, Take(t) PROVE FALSE
  <2>1. u # t /\ qpc[u] = "take" /\ qpc[t] = "take"
    BY <1>7 DEF Take, At
  <2> QED BY <2>1
<1>8. CASE UNCHANGED qvars
  BY <1>8 DEF qvars
<1> QED BY <1>1, <1>2, <1>3, <1>4, <1>5, <1>6, <1>7, <1>8 DEF QueueNext, Step
-----------------------------------------------------------------------------
\* There are finitely many threads awake.
LEMMA AwakeFinite == IsFiniteSet(Awake) /\ Cardinality(Awake) \in Nat
BY ThreadsAssumption, FS_Subset, FS_CardinalityType DEF Awake

\* As many threads stay awake as long as none goes to sleep or leaves.
LEMMA AwakeGrows ==
  ASSUME Awake \subseteq Awake'
  PROVE  Cardinality(Awake) <= Cardinality(Awake')
<1>1. IsFiniteSet(Awake')
  BY ThreadsAssumption, FS_Subset DEF Awake
<1> QED BY <1>1, FS_Subset

\* The invariant is kept when no item is added, and nobody falls asleep or
\* ceases to be awake.
LEMMA QuietStep ==
  ASSUME IndInv, UNCHANGED queue_, Blocked' \subseteq Blocked,
         Awake \subseteq Awake'
  PROVE  NoLostWakeup'
<1>1. Len(queue_) \in Nat
  BY DEF IndInv, QueueTypeOK
<1>2. Cardinality(Awake) \in Nat /\ Cardinality(Awake') \in Nat
  <2>1. IsFiniteSet(Awake')
    BY ThreadsAssumption, FS_Subset DEF Awake
  <2> QED BY <2>1, AwakeFinite, FS_CardinalityType
<1>3. Cardinality(Awake) <= Cardinality(Awake')
  BY AwakeGrows
<1> QED BY <1>1, <1>2, <1>3 DEF IndInv, NoLostWakeup

\* A thread goes to sleep only when the queue is empty; a push adds an item
\* and wakes a thread, if one sleeps; a thread that takes an item is one less
\* to be awake, of one item less.
LEMMA StepNoLostWakeup == IndInv /\ [QueueNext]_qvars => NoLostWakeup'
<1> SUFFICES ASSUME IndInv, [QueueNext]_qvars PROVE NoLostWakeup'
  OBVIOUS
<1> USE DEF IndInv, QueueTypeOK
<1>0. /\ IsFiniteSet(Awake) /\ Cardinality(Awake) \in Nat
      /\ Len(queue_) \in Nat
  BY AwakeFinite
<1>1. ASSUME NEW t \in Threads, NEW v \in Values, CallPush(t, v)
      PROVE  NoLostWakeup'
  <2>1. UNCHANGED queue_ /\ Blocked' \subseteq Blocked /\ Awake \subseteq Awake'
    BY <1>1 DEF CallPush, Call, At, Blocked, Awake
  <2> QED BY <2>1, QuietStep
<1>2. ASSUME NEW t \in Threads, CallWaitAndPop(t) \/ CallTryPop(t)
      PROVE  NoLostWakeup'
  <2>1. UNCHANGED queue_ /\ Blocked' \subseteq Blocked /\ Awake \subseteq Awake'
    BY <1>2 DEF CallWaitAndPop, CallTryPop, Call, At, Blocked, Awake
  <2> QED BY <2>1, QuietStep
<1>3. ASSUME NEW t \in Threads, Lock(t) \/ Unlock(t) \/ Relock(t)
      PROVE  NoLostWakeup'
  <2>1. UNCHANGED queue_ /\ Blocked' \subseteq Blocked /\ Awake \subseteq Awake'
    BY <1>3 DEF Lock, Unlock, Relock, AfterWakeup, At, Blocked, Awake, InCall
  <2> QED BY <2>1, QuietStep
<1>4. ASSUME NEW t \in Threads, PushBody(t) PROVE NoLostWakeup'
  <2>1. Len(queue_') = Len(queue_) + 1
    BY <1>4 DEF PushBody, InCall
  <2>2. CASE Blocked = {}
    <3>1. Blocked' = {}
      BY <1>4, <2>2 DEF PushBody, Notifiable, At, Blocked
    <3> QED BY <3>1 DEF NoLostWakeup
  <2>3. CASE Blocked # {}
    <3>1. PICK w \in Blocked : qpc' = [qpc EXCEPT ![t] = "leave", ![w] = "relock"]
      BY <1>4, <2>3 DEF PushBody, Notifiable
    <3>2. w \notin Awake /\ Awake' = Awake \cup {w}
      BY <1>4, <3>1 DEF PushBody, Blocked, Awake
    <3>3. Cardinality(Awake') = Cardinality(Awake) + 1
      BY <1>0, <3>2, FS_AddElement
    <3> QED BY <1>0, <2>1, <2>3, <3>3 DEF NoLostWakeup
  <2> QED BY <2>2, <2>3
<1>5. ASSUME NEW t \in Threads, PredicateTrue(t) \/ TryFinds(t)
      PROVE  NoLostWakeup'
  <2>1. UNCHANGED queue_ /\ Blocked' \subseteq Blocked /\ Awake \subseteq Awake'
    BY <1>5 DEF PredicateTrue, TryFinds, At, Blocked, Awake
  <2> QED BY <2>1, QuietStep
<1>6. ASSUME NEW t \in Threads, PredicateFalse(t) PROVE NoLostWakeup'
  <2>1. Len(queue_') = 0
    BY <1>6 DEF PredicateFalse
  <2>2. IsFiniteSet(Awake')
    BY ThreadsAssumption, FS_Subset DEF Awake
  <2> QED BY <2>1, <2>2, FS_CardinalityType DEF NoLostWakeup
<1>7. ASSUME NEW t \in Threads, TryFails(t) \/ SpuriousWakeup(t)
      PROVE  NoLostWakeup'
  <2>1. UNCHANGED queue_ /\ Blocked' \subseteq Blocked /\ Awake \subseteq Awake'
    BY <1>7 DEF TryFails, SpuriousWakeup, At, Blocked, Awake
  <2> QED BY <2>1, QuietStep
<1>8. ASSUME NEW t \in Threads, Take(t) PROVE NoLostWakeup'
  <2>1. Len(queue_') = Len(queue_) - 1
    BY <1>8, HeadAndTail DEF Take, NoPopOfEmpty
  <2>2. t \in Awake /\ Awake' = Awake \ {t} /\ Blocked' = Blocked
    BY <1>8 DEF Take, At, Awake, Blocked
  <2>3. Cardinality(Awake') = Cardinality(Awake) - 1
    BY <1>0, <2>2, FS_RemoveElement
  <2> QED BY <1>0, <2>1, <2>2, <2>3 DEF NoLostWakeup
<1>9. CASE UNCHANGED qvars
  BY <1>9, QuietStep DEF qvars, Blocked, Awake
<1> QED BY <1>1, <1>2, <1>3, <1>4, <1>5, <1>6, <1>7, <1>8, <1>9
        DEF QueueNext, Step

\* IndInv is inductive.
LEMMA Inductive == QueueSpec => []IndInv
<1>1. IndInv /\ [QueueNext]_qvars => IndInv'
  BY StepType, StepInCall, StepNoPopOfEmpty, StepNoLostWakeup DEF IndInv
<1> QED BY InitInv, <1>1, PTL DEF QueueSpec
-----------------------------------------------------------------------------
\* Every reachable state has the types, and the mutex is held by the one
\* thread that is under it, for any number of threads.
THEOREM TypeCorrect == QueueSpec => []QueueTypeOK
<1>1. IndInv => QueueTypeOK
  BY DEF IndInv
<1> QED BY Inductive, <1>1, PTL

\* wait_and_pop and try_pop never take from an empty queue, with any number
\* of threads, any interleaving and spurious wakeups.
THEOREM PopsFindAnItem == QueueSpec => []NoPopOfEmpty
<1>1. IndInv => NoPopOfEmpty
  BY DEF IndInv
<1> QED BY Inductive, <1>1, PTL

\* notify_one once per push is enough: while threads are blocked in
\* wait_and_pop, each item in the queue has a thread awake for it.
THEOREM NoWakeupLost == QueueSpec => []NoLostWakeup
<1>1. IndInv => NoLostWakeup
  BY DEF IndInv
<1> QED BY Inductive, <1>1, PTL

-----------------------------------------------------------------------------
(* The program. *)

\* What the variables of the three threads can be.
EngineTypes ==
  /\ running \in BOOLEAN
  /\ mpos \in 1 .. Done
  /\ ppc \in {"none", "test", "push", "pushing", "exited"}
  /\ cpc \in {"none", "test", "pop", "popping", "exited"}
  /\ made \in 0 .. MaxTicks
  /\ processed \in Seq(Values)

\* How far main has come, and what a thread inside the queue is there for.
Places ==
  /\ running <=> mpos <= 4
  /\ mpos <= 1 => ppc = "none"
  /\ mpos <= 2 => cpc = "none"
  /\ ppc = "push" => made < MaxTicks
ProducerCall == qpc[Producer] # "outside" =>
                  /\ ppc = "pushing" /\ call[Producer] = "push"
                  /\ value[Producer] = made /\ made >= 1
MainCall == qpc[Main] # "outside" => /\ mpos >= 6 /\ call[Main] = "push"
                                     /\ value[Main] = Dummy
ConsumerCall == qpc[Consumer] # "outside" =>
                  cpc = "popping" /\ call[Consumer] = "wait_and_pop"

\* The items in the order in which they were pushed: those processed, the one
\* that wait_and_pop has taken for the consumer, and those in the queue.
Held == cpc = "popping" /\ qpc[Consumer] \in {"leave", "outside"}
Hand == IF Held THEN <<value[Consumer]>> ELSE <<>>
Line == (processed \o Hand) \o queue_

\* The ticks made whose push has been done.
Pushing == qpc[Producer] \in {"enter", "body"}
Sent == IF Pushing THEN made - 1 ELSE made

\* Up to the dummy the line is the ticks in the order of their making, all of
\* them if the dummy has not come.  It comes after running was cleared, and
\* when it has been processed the consumer does not take another item.
Ordered == \A n \in 1 .. Len(Line) :
             (\A k \in 1 .. n : Line[k] # Dummy) => Line[n] = n
Complete == (\A k \in 1 .. Len(Line) : Line[k] # Dummy) => Len(Line) = Sent
DummyLate == \A k \in 1 .. Len(Line) : Line[k] = Dummy => mpos >= 6
DummyLast == \A k \in 1 .. Len(processed) :
               processed[k] = Dummy => /\ k = Len(processed)
                                       /\ cpc \in {"test", "exited"}

Control == /\ EngineTypes /\ Places
           /\ ProducerCall /\ MainCall /\ ConsumerCall
           /\ Held => value[Consumer] \in Values
EngineInv == Control /\ Ordered /\ Complete /\ DummyLate /\ DummyLast
-----------------------------------------------------------------------------
\* Which statement main is at tells how far it has come.
LEMMA Statements ==
  ASSUME mpos \in 1 .. Done, NEW s, AtStatement(s)
  PROVE  /\ Done = 9 /\ mpos' = mpos + 1 /\ mpos' \in 1 .. Done
         /\ s = "start producer" => mpos = 1
         /\ s = "start consumer" => mpos = 2
         /\ s = "get" => mpos = 3
         /\ s = "clear" => mpos = 4
         /\ s = "dummy" => mpos = 5
         /\ s \in {"print", "join consumer", "join producer"} => mpos >= 6
<1>1. Len(Script) = 8 /\ Done = 9
  BY DEF Script, Done
<1>2. mpos \in 1 .. 8 /\ mpos' = mpos + 1 /\ Script[mpos] = s
  BY <1>1 DEF AtStatement
<1>3. /\ Script[1] = "start producer" /\ Script[2] = "start consumer"
      /\ Script[3] = "get" /\ Script[4] = "clear" /\ Script[5] = "dummy"
      /\ Script[6] = "print" /\ Script[7] = "join consumer"
      /\ Script[8] = "join producer"
  BY DEF Script
<1>4. /\ mpos = 1 => s = "start producer"
      /\ mpos = 2 => s = "start consumer"
      /\ mpos = 3 => s = "get"
      /\ mpos = 4 => s = "clear"
      /\ mpos = 5 => s = "dummy"
      /\ mpos = 6 => s = "print"
      /\ mpos = 7 => s = "join consumer"
      /\ mpos = 8 => s = "join producer"
  BY <1>2, <1>3
<1>5. mpos' = mpos + 1 /\ mpos' \in 1 .. Done
  BY <1>1, <1>2
<1>6. \/ mpos = 1 \/ mpos = 2 \/ mpos = 3 \/ mpos = 4 \/ mpos = 5
      \/ mpos = 6 \/ mpos = 7 \/ mpos = 8
  BY <1>2
<1>7. /\ s = "start producer" => mpos = 1
      /\ s = "start consumer" => mpos = 2
      /\ s = "get" => mpos = 3
      /\ s = "clear" => mpos = 4
      /\ s = "dummy" => mpos = 5
  BY <1>4, <1>6
<1>8. s \in {"print", "join consumer", "join producer"}
        => mpos = 6 \/ mpos = 7 \/ mpos = 8
  BY <1>4, <1>6
<1>9. mpos = 6 \/ mpos = 7 \/ mpos = 8 => mpos >= 6
  BY <1>2
<1> QED BY <1>1, <1>5, <1>7, <1>8, <1>9

\* The threads do nothing with the queue but call push and wait_and_pop.
LEMMA EngineStep ==
  ASSUME EngineAssumption, Control, [Next]_vars
  PROVE  [QueueNext]_qvars
<1>0. /\ Producer \in Threads /\ Consumer \in Threads /\ Main \in Threads
      /\ Dummy \in Values
  BY DEF EngineAssumption
<1>1. CASE PushDummy
  BY <1>0, <1>1 DEF PushDummy, QueueNext
<1>2. CASE ProducerPushes
  <2>1. made + 1 \in Values
    BY <1>2 DEF ProducerPushes, Control, EngineTypes, Places, EngineAssumption
  <2> QED BY <1>0, <1>2, <2>1 DEF ProducerPushes, QueueNext
<1>3. CASE ConsumerPops
  BY <1>0, <1>3 DEF ConsumerPops, QueueNext
<1>4. ASSUME NEW t \in Threads, InQueue(t) PROVE QueueNext
  BY <1>4 DEF InQueue, QueueNext
<1>5. CASE Wakeup
  BY <1>5 DEF Wakeup, QueueNext
<1>6. CASE \/ StartProducer \/ StartConsumer \/ PressEnter \/ ClearRunning
           \/ PrintStopped \/ JoinConsumer \/ JoinProducer
           \/ ProducerTests \/ ProducerSleeps
           \/ ConsumerTests \/ ConsumerProcesses
  BY <1>6 DEF StartProducer, StartConsumer, PressEnter, ClearRunning,
     PrintStopped, JoinConsumer, JoinProducer, ProducerTests, ProducerSleeps,
     ConsumerTests, ConsumerProcesses, qvars
<1>7. CASE UNCHANGED vars
  BY <1>7 DEF vars
<1> QED BY <1>0, <1>1, <1>2, <1>3, <1>4, <1>5, <1>6, <1>7
        DEF Next, MainStep, ProducerStep, ConsumerStep

\* A thread inside the queue, one of its own steps at a time.  The program
\* does not call try_pop, so only the consumer can be about to take an item.
LEMMA WhoIsWhere ==
  ASSUME EngineAssumption, IndInv, Control, NEW t \in Threads,
         qpc[t] # "outside"
  PROVE  /\ call[t] # "try_pop"
         /\ call[t] = "push" <=> t # Consumer
         /\ qpc[t] \in {"blocked", "relock", "take"} => t = Consumer
BY DEF EngineAssumption, Control, ProducerCall, MainCall, ConsumerCall, IndInv,
       InCall

\* A thread that goes on inside the queue does not change what the others, or
\* itself, are there for, and gives nothing to others than the consumer.
LEMMA InsideQueue ==
  ASSUME EngineAssumption, IndInv, Control, NEW t \in Threads,
         Step(t) \/ SpuriousWakeup(t), NEW u \in Threads
  PROVE  /\ qpc'[u] # "outside" => qpc[u] # "outside" /\ call'[u] = call[u]
         /\ u # Consumer => value'[u] = value[u]
<1> USE DEF IndInv, QueueTypeOK
<1>1. CASE Lock(t)
  BY <1>1 DEF Lock, At
<1>2. CASE PushBody(t)
  BY <1>2 DEF PushBody, At, Notifiable, Blocked
<1>3. CASE PredicateTrue(t) \/ PredicateFalse(t) \/ TryFinds(t) \/ TryFails(t)
  BY <1>3 DEF PredicateTrue, PredicateFalse, TryFinds, TryFails, At
<1>4. CASE Relock(t)
  BY <1>4 DEF Relock, At
<1>5. CASE Take(t)
  <2>1. t = Consumer
    BY <1>5, WhoIsWhere DEF Take
  <2> QED BY <1>5, <2>1 DEF Take, At
<1>6. CASE Unlock(t)
  BY <1>6 DEF Unlock, At
<1>7. CASE SpuriousWakeup(t)
  BY <1>7 DEF SpuriousWakeup, At
<1> QED BY <1>1, <1>2, <1>3, <1>4, <1>5, <1>6, <1>7 DEF Step

\* What happens inside the queue to the line of items: a push adds its item, a
\* pop moves the first to the consumer's hand, all else leaves it alone.
PushesTick == /\ Line' = Append(Line, made) /\ made >= 1
              /\ Sent = made - 1 /\ Sent' = made
PushesDummy == Line' = Append(Line, Dummy) /\ mpos' >= 6 /\ Sent' = Sent
Keeps == Line' = Line /\ Sent' = Sent

\* The first of the items in the queue, once taken, stays where it was in line.
LEMMA TakenInLine ==
  ASSUME NEW p \in Seq(Values), NEW q \in Seq(Values), q # <<>>
  PROVE  (p \o <<>>) \o q = (p \o <<Head(q)>>) \o Tail(q)
<1>1. q = <<Head(q)>> \o Tail(q)
  OBVIOUS
<1>2. Head(q) \in Values /\ Tail(q) \in Seq(Values)
  OBVIOUS
<1>3. <<Head(q)>> \in Seq(Values)
  BY <1>2
<1>4. (p \o <<Head(q)>>) \o Tail(q) = p \o (<<Head(q)>> \o Tail(q))
  BY <1>2, <1>3, ConcatAssociative
<1> QED BY <1>1, <1>4

\* An item processed stays where it was in line.
LEMMA ProcessedInLine ==
  ASSUME NEW p \in Seq(Values), NEW v \in Values, NEW q \in Seq(Values)
  PROVE  (p \o <<v>>) \o q = (Append(p, v) \o <<>>) \o q
OBVIOUS

\* An item pushed goes to the end of the line.
LEMMA PushedInLine ==
  ASSUME NEW p \in Seq(Values), NEW v \in Values, NEW q \in Seq(Values)
  PROVE  p \o Append(q, v) = Append(p \o q, v)
OBVIOUS

\* What the line is made of.
LEMMA LineType ==
  ASSUME IndInv, Control
  PROVE  /\ processed \in Seq(Values) /\ Hand \in Seq(Values)
         /\ processed \o Hand \in Seq(Values)
         /\ queue_ \in Seq(Values) /\ Line \in Seq(Values)
<1>1. processed \in Seq(Values) /\ queue_ \in Seq(Values)
  BY DEF IndInv, QueueTypeOK, Control, EngineTypes
<1>2. Hand \in Seq(Values)
  <2>1. CASE Held
    BY <2>1 DEF Hand, Control
  <2>2. CASE ~Held
    BY <2>2 DEF Hand
  <2> QED BY <2>1, <2>2
<1> QED BY <1>1, <1>2 DEF Line

\* A step that changes none of the parts of the line keeps it.
LEMMA PartsKept ==
  ASSUME processed' = processed, queue_' = queue_, Held' <=> Held,
         Held => value'[Consumer] = value[Consumer],
         made' = made, Pushing' <=> Pushing
  PROVE  Keeps
<1>1. Hand' = Hand
  <2>1. CASE Held
    BY <2>1 DEF Hand
  <2>2. CASE ~Held
    BY <2>2 DEF Hand
  <2> QED BY <2>1, <2>2
<1>2. Sent' = Sent
  <2>1. CASE Pushing
    BY <2>1 DEF Sent
  <2>2. CASE ~Pushing
    BY <2>2 DEF Sent
  <2> QED BY <2>1, <2>2
<1> QED BY <1>1, <1>2 DEF Keeps, Line

\* Inside the queue.
LEMMA QueueLine ==
  ASSUME EngineAssumption, IndInv, Control, NEW t \in Threads,
         Step(t) \/ SpuriousWakeup(t), UNCHANGED engineVars
  PROVE  PushesTick \/ PushesDummy \/ Keeps
<1>0. /\ processed' = processed /\ made' = made /\ mpos' = mpos /\ cpc' = cpc
  BY DEF engineVars
<1>a. /\ Producer \in Threads /\ Consumer \in Threads /\ Main \in Threads
      /\ Producer # Consumer /\ Producer # Main /\ Consumer # Main
      /\ t = Producer \/ t = Main \/ t = Consumer
  BY DEF EngineAssumption
<1>b. qpc \in [Threads -> {"outside", "enter", "body", "blocked", "relock",
                           "take", "leave"}]
  BY DEF IndInv, QueueTypeOK
<1>1. CASE Lock(t) \/ Relock(t)
  <2>1. (Held' <=> Held) /\ (Pushing' <=> Pushing)
    BY <1>1, <1>0, <1>a, <1>b, WhoIsWhere
       DEF Lock, Relock, At, AfterWakeup, Held, Pushing
  <2> QED BY <1>1, <1>0, <2>1, PartsKept DEF Lock, Relock
<1>2. CASE PredicateTrue(t) \/ PredicateFalse(t) \/ TryFinds(t) \/ TryFails(t)
  <2>0. call[t] # "push" /\ qpc[t] = "body" /\ t = Consumer
    BY <1>2, WhoIsWhere
       DEF PredicateTrue, PredicateFalse, TryFinds, TryFails
  <2>1. ~TryFinds(t) /\ ~TryFails(t)
    BY <2>0, WhoIsWhere DEF TryFinds, TryFails
  <2>2. (Held' <=> Held) /\ (Pushing' <=> Pushing)
    BY <1>2, <1>0, <1>a, <1>b, <2>0, <2>1
       DEF PredicateTrue, PredicateFalse, At, Held, Pushing
  <2> QED BY <1>2, <1>0, <2>1, <2>2, PartsKept
          DEF PredicateTrue, PredicateFalse
<1>3. CASE Unlock(t)
  <2>1. (Held' <=> Held) /\ (Pushing' <=> Pushing)
    BY <1>3, <1>0, <1>a, <1>b DEF Unlock, At, Held, Pushing
  <2> QED BY <1>3, <1>0, <2>1, PartsKept DEF Unlock
<1>4. CASE SpuriousWakeup(t)
  <2>0. t = Consumer
    BY <1>4, WhoIsWhere DEF SpuriousWakeup
  <2>1. (Held' <=> Held) /\ (Pushing' <=> Pushing)
    BY <1>4, <1>0, <1>a, <1>b, <2>0 DEF SpuriousWakeup, At, Held, Pushing
  <2> QED BY <1>4, <1>0, <2>1, PartsKept DEF SpuriousWakeup
<1>5. CASE Take(t)
  <2>0. t = Consumer /\ qpc[Consumer] = "take" /\ cpc = "popping"
    BY <1>5, <1>a, WhoIsWhere DEF Take, Control, ConsumerCall
  <2>1. ~Held /\ Held' /\ (Pushing' <=> Pushing)
    BY <1>5, <1>0, <1>a, <1>b, <2>0 DEF Take, At, Held, Pushing
  <2>2. queue_ # <<>>
    BY <1>5 DEF Take, IndInv, NoPopOfEmpty
  <2>3. value'[Consumer] = Head(queue_) /\ queue_' = Tail(queue_)
    BY <1>5, <1>a, <2>0 DEF Take, IndInv, QueueTypeOK
  <2>4. Hand = <<>> /\ Hand' = <<Head(queue_)>>
    BY <2>1, <2>3 DEF Hand
  <2>5. Line' = Line
    BY <1>0, <2>2, <2>3, <2>4, LineType, TakenInLine DEF Line
  <2>6. Sent' = Sent
    <3>1. CASE Pushing
      BY <1>0, <2>1, <3>1 DEF Sent
    <3>2. CASE ~Pushing
      BY <1>0, <2>1, <3>2 DEF Sent
    <3> QED BY <3>1, <3>2
  <2> QED BY <2>5, <2>6 DEF Keeps
<1>6. CASE PushBody(t)
  <2>0. t # Consumer /\ qpc[t] = "body" /\ queue_' = Append(queue_, value[t])
        /\ value' = value /\ value[t] \in Values
    BY <1>6, WhoIsWhere DEF PushBody, IndInv, InCall
  <2>1. /\ qpc'[t] = "leave"
        /\ \A u \in Threads : u # t =>
             \/ qpc'[u] = qpc[u]
             \/ qpc[u] = "blocked" /\ qpc'[u] = "relock"
    BY <1>6, <1>b DEF PushBody, At, Notifiable, Blocked
  <2>2. Held' <=> Held
    BY <1>0, <1>a, <2>0, <2>1 DEF Held
  <2>3. Hand' = Hand
    <3>1. CASE Held
      BY <2>0, <2>2, <3>1 DEF Hand
    <3>2. CASE ~Held
      BY <2>2, <3>2 DEF Hand
    <3> QED BY <3>1, <3>2
  <2>4. Line' = Append(Line, value[t])
    BY <1>0, <2>0, <2>3, LineType, PushedInLine DEF Line
  <2>5. CASE t = Producer
    <3>1. value[t] = made /\ made >= 1
      BY <2>0, <2>5 DEF Control, ProducerCall
    <3>2. Pushing /\ ~Pushing'
      BY <2>0, <2>1, <2>5 DEF Pushing
    <3>3. Sent = made - 1 /\ Sent' = made
      BY <1>0, <3>2 DEF Sent
    <3> QED BY <2>4, <3>1, <3>3 DEF PushesTick
  <2>6. CASE t = Main
    <3>1. value[t] = Dummy /\ mpos >= 6
      BY <2>0, <2>6 DEF Control, MainCall
    <3>2. Pushing' <=> Pushing
      BY <1>a, <2>1, <2>6 DEF Pushing
    <3>3. Sent' = Sent
      <4>1. CASE Pushing
        BY <1>0, <3>2, <4>1 DEF Sent
      <4>2. CASE ~Pushing
        BY <1>0, <3>2, <4>2 DEF Sent
      <4> QED BY <4>1, <4>2
    <3> QED BY <1>0, <2>4, <3>1, <3>3 DEF PushesDummy
  <2> QED BY <1>a, <2>0, <2>5, <2>6
<1> QED BY <1>1, <1>2, <1>3, <1>4, <1>5, <1>6 DEF Step

\* Outside the queue the threads do not change the line either: what the
\* consumer processes it has in its hand.
LEMMA EngineLine ==
  ASSUME EngineAssumption, IndInv, Control, [Next]_vars
  PROVE  PushesTick \/ PushesDummy \/ Keeps
<1>a. /\ Producer \in Threads /\ Consumer \in Threads /\ Main \in Threads
      /\ Producer # Consumer /\ Producer # Main /\ Consumer # Main
  BY DEF EngineAssumption
<1>b. /\ qpc \in [Threads -> {"outside", "enter", "body", "blocked", "relock",
                              "take", "leave"}]
      /\ value \in [Threads -> Values \cup {NoValue}]
      /\ made \in Nat
  BY DEF IndInv, QueueTypeOK, Control, EngineTypes, EngineAssumption
<1>1. CASE \/ StartProducer \/ PressEnter \/ ClearRunning \/ PrintStopped
           \/ JoinConsumer \/ JoinProducer \/ ProducerTests \/ ProducerSleeps
  <2>1. UNCHANGED <<qvars, cpc, made, processed>>
    BY <1>1 DEF StartProducer, PressEnter, ClearRunning, PrintStopped,
       JoinConsumer, JoinProducer, ProducerTests, ProducerSleeps
  <2> QED BY <2>1, PartsKept DEF qvars, Held, Pushing
<1>2. CASE StartConsumer
  <2>0. mpos \in 1 .. Done /\ AtStatement("start consumer")
    BY <1>2 DEF StartConsumer, Control, EngineTypes
  <2>1. cpc = "none"
    <3>1. mpos = 2
      BY <2>0, Statements
    <3> QED BY <3>1 DEF Control, Places
  <2> QED BY <1>2, <2>1, PartsKept DEF StartConsumer, qvars, Held, Pushing
<1>3. CASE PushDummy
  <2>1. /\ qpc' = [qpc EXCEPT ![Main] = "enter"]
        /\ value' = [value EXCEPT ![Main] = Dummy]
        /\ UNCHANGED <<queue_, cpc, made, processed>>
    BY <1>3 DEF PushDummy, CallPush, Call, At
  <2> QED BY <1>a, <1>b, <2>1, PartsKept DEF Held, Pushing
<1>4. CASE ProducerPushes
  <2>1. /\ qpc[Producer] = "outside" /\ made' = made + 1
        /\ qpc' = [qpc EXCEPT ![Producer] = "enter"]
        /\ value' = [value EXCEPT ![Producer] = made + 1]
        /\ UNCHANGED <<queue_, cpc, processed>>
    BY <1>4 DEF ProducerPushes, CallPush, Call, At
  <2>2. Held' <=> Held
    BY <1>a, <1>b, <2>1 DEF Held
  <2>3. value'[Consumer] = value[Consumer]
    BY <1>a, <1>b, <2>1
  <2>4. Hand' = Hand
    <3>1. CASE Held
      BY <2>2, <2>3, <3>1 DEF Hand
    <3>2. CASE ~Held
      BY <2>2, <3>2 DEF Hand
    <3> QED BY <3>1, <3>2
  <2>5. ~Pushing /\ Pushing'
    BY <1>a, <1>b, <2>1 DEF Pushing
  <2>6. Sent = made /\ Sent' = made' - 1
    BY <2>5 DEF Sent
  <2>7. Sent' = Sent
    BY <1>b, <2>1, <2>6
  <2>8. Line' = Line
    BY <2>1, <2>4 DEF Line
  <2> QED BY <2>7, <2>8 DEF Keeps
<1>5. CASE ConsumerTests
  <2>1. cpc = "test" /\ cpc' \in {"pop", "exited"} /\ UNCHANGED <<qvars, made, processed>>
    BY <1>5 DEF ConsumerTests
  <2> QED BY <2>1, PartsKept DEF qvars, Held, Pushing
<1>6. CASE ConsumerPops
  <2>1. /\ cpc = "pop" /\ UNCHANGED <<queue_, made, processed>>
        /\ qpc' = [qpc EXCEPT ![Consumer] = "enter"]
    BY <1>6 DEF ConsumerPops, CallWaitAndPop, Call, At
  <2>2. ~Held /\ ~Held' /\ (Pushing' <=> Pushing)
    BY <1>a, <1>b, <2>1 DEF Held, Pushing
  <2> QED BY <2>1, <2>2, PartsKept
<1>7. CASE ConsumerProcesses
  <2>1. /\ Held /\ cpc' = "test"
        /\ processed' = Append(processed, value[Consumer])
        /\ UNCHANGED <<qvars, made>>
    BY <1>7 DEF ConsumerProcesses, Returned, Held
  <2>2. Hand = <<value[Consumer]>> /\ Hand' = <<>>
    BY <2>1 DEF Hand, Held
  <2>3. value[Consumer] \in Values
    BY <2>1 DEF Control
  <2>4. Line' = Line
    BY <2>1, <2>2, <2>3, LineType, ProcessedInLine DEF Line, qvars
  <2> QED BY <2>1, <2>4 DEF Keeps, Sent, Pushing, qvars
<1>8. ASSUME NEW t \in Threads, InQueue(t) PROVE PushesTick \/ PushesDummy \/ Keeps
  BY <1>8, QueueLine DEF InQueue
<1>9. CASE Wakeup
  BY <1>9, QueueLine DEF Wakeup
<1>10. CASE UNCHANGED vars
  BY <1>10, PartsKept DEF vars, qvars, engineVars, Held, Pushing
<1> QED BY <1>a, <1>1, <1>2, <1>3, <1>4, <1>5, <1>6, <1>7, <1>8, <1>9, <1>10
        DEF Next, MainStep, ProducerStep, ConsumerStep

\* main only goes forward.
LEMMA MainGoesOn ==
  ASSUME EngineAssumption, Control, [Next]_vars
  PROVE  mpos' \in 1 .. Done /\ mpos' >= mpos
<1>1. mpos \in 1 .. Done /\ Done \in Nat
  BY DEF Control, EngineTypes, Done, Script
<1>2. ASSUME NEW s, AtStatement(s) PROVE mpos' = mpos + 1 /\ mpos' \in 1 .. Done
  BY <1>1, <1>2, Statements
<1>3. CASE \/ StartProducer \/ StartConsumer \/ PressEnter \/ ClearRunning
           \/ PushDummy \/ PrintStopped \/ JoinConsumer \/ JoinProducer
  <2>1. mpos' = mpos + 1 /\ mpos' \in 1 .. Done
    BY <1>2, <1>3
       DEF StartProducer, StartConsumer, PressEnter, ClearRunning, PushDummy,
           PrintStopped, JoinConsumer, JoinProducer
  <2> QED BY <1>1, <2>1
<1>4. CASE ~(\/ StartProducer \/ StartConsumer \/ PressEnter \/ ClearRunning
             \/ PushDummy \/ PrintStopped \/ JoinConsumer \/ JoinProducer)
  <2>1. mpos' = mpos
    BY <1>4 DEF Next, MainStep, ProducerStep, ConsumerStep, InQueue, Wakeup,
       ProducerTests, ProducerPushes, ProducerSleeps, ConsumerTests,
       ConsumerPops, ConsumerProcesses, vars, engineVars
  <2> QED BY <1>1, <2>1
<1> QED BY <1>3, <1>4

\* What a thread does with the types, and with where main is.
LEMMA TypesStep ==
  ASSUME EngineAssumption, IndInv, Control, [Next]_vars
  PROVE  EngineTypes' /\ Places'
<1>0. /\ mpos \in 1 .. Done /\ Done = 9 /\ MaxTicks \in Nat /\ made \in 0 .. MaxTicks
      /\ running \in BOOLEAN /\ processed \in Seq(Values)
      /\ (running <=> mpos <= 4) /\ (mpos <= 1 => ppc = "none")
      /\ (mpos <= 2 => cpc = "none") /\ (ppc = "push" => made < MaxTicks)
  BY DEF Control, EngineTypes, Places, EngineAssumption, Done, Script
<1>p. /\ running \in BOOLEAN
      /\ (running <=> mpos <= 4) /\ (mpos <= 1 => ppc = "none")
      /\ (mpos <= 2 => cpc = "none") /\ (ppc = "push" => made < MaxTicks)
  BY <1>0
<1>1. ASSUME NEW s, AtStatement(s)
      PROVE  /\ mpos' = mpos + 1 /\ mpos' \in 1 .. Done
             /\ s = "start producer" => mpos = 1
             /\ s = "start consumer" => mpos = 2
             /\ s = "get" => mpos = 3
             /\ s = "clear" => mpos = 4
             /\ s = "dummy" => mpos = 5
             /\ s \in {"print", "join consumer", "join producer"} => mpos >= 6
  <2> HIDE DEF AtStatement
  <2> QED BY <1>0, <1>1, Statements
<1>2. CASE StartProducer
  <2>1. AtStatement("start producer")
        /\ ppc' = "test" /\ UNCHANGED <<running, cpc, made, processed>>
    BY <1>2 DEF StartProducer
  <2>2. mpos = 1 /\ mpos' = mpos + 1 /\ mpos' \in 1 .. Done
    BY <2>1, <1>1
  <2>3. mpos' = 2
    BY <2>2
  <2>4. EngineTypes'
    BY <2>1, <2>2 DEF EngineTypes, Control
  <2>5. running' /\ mpos' <= 4
    <3>1. mpos <= 4 /\ mpos' <= 4
      BY <2>2
    <3> QED BY <1>p, <2>1, <3>1
  <2>6. ppc' # "push" /\ ~(mpos' <= 1) /\ cpc' = "none"
    <3>1. mpos <= 2 /\ ~(mpos' <= 1)
      BY <2>2
    <3> QED BY <1>p, <2>1, <3>1
  <2> QED BY <2>4, <2>5, <2>6 DEF Places
<1>3. CASE StartConsumer
  <2>1. AtStatement("start consumer")
        /\ cpc' = "test" /\ UNCHANGED <<running, ppc, made, processed>>
    BY <1>3 DEF StartConsumer
  <2>2. mpos = 2 /\ mpos' = mpos + 1 /\ mpos' \in 1 .. Done
    BY <2>1, <1>1
  <2>3. mpos' = 3
    BY <2>2
  <2>4. EngineTypes'
    BY <2>1, <2>2 DEF EngineTypes, Control
  <2>5. running' /\ mpos' <= 4
    <3>1. mpos <= 4 /\ mpos' <= 4
      BY <2>2
    <3> QED BY <1>p, <2>1, <3>1
  <2>6. (ppc' = "push" => made' < MaxTicks) /\ ~(mpos' <= 2) /\ ~(mpos' <= 1)
    <3>1. ~(mpos' <= 2) /\ ~(mpos' <= 1)
      BY <2>2
    <3> QED BY <1>p, <2>1, <3>1
  <2> QED BY <2>3, <2>4, <2>5, <2>6 DEF Places
<1>4. CASE PressEnter
  <2>1. AtStatement("get")
        /\ UNCHANGED <<running, ppc, cpc, made, processed>>
    BY <1>4 DEF PressEnter
  <2>2. mpos = 3 /\ mpos' = mpos + 1 /\ mpos' \in 1 .. Done
    BY <2>1, <1>1
  <2>3. mpos' = 4
    BY <2>2
  <2>4. EngineTypes'
    BY <2>1, <2>2 DEF EngineTypes, Control
  <2>5. running' /\ mpos' <= 4
    <3>1. mpos <= 4 /\ mpos' <= 4
      BY <2>2
    <3> QED BY <1>p, <2>1, <3>1
  <2>6. /\ ppc' = "push" => made' < MaxTicks
        /\ mpos' > 2
    BY <1>p, <2>1, <2>2
  <2> QED BY <1>p, <2>1, <2>3, <2>4, <2>5, <2>6 DEF Places
<1>5. CASE ClearRunning
  <2>1. AtStatement("clear")
        /\ running' = FALSE /\ UNCHANGED <<ppc, cpc, made, processed>>
    BY <1>5 DEF ClearRunning
  <2>2. mpos = 4 /\ mpos' = mpos + 1 /\ mpos' \in 1 .. Done
    BY <2>1, <1>1
  <2>3. mpos' = 5
    BY <2>2
  <2>4. EngineTypes'
    BY <2>1, <2>2 DEF EngineTypes, Control
  <2>5. Places'
    BY <2>1, <2>2, <2>3 DEF Places, Control
  <2> QED BY <2>4, <2>5
<1>6. CASE PushDummy \/ PrintStopped \/ JoinConsumer \/ JoinProducer
  <2>1. \/ AtStatement("dummy") \/ AtStatement("print")
        \/ AtStatement("join consumer") \/ AtStatement("join producer")
    BY <1>6 DEF PushDummy, PrintStopped, JoinConsumer, JoinProducer
  <2>2. mpos' = mpos + 1 /\ mpos' \in 1 .. Done
    BY <2>1, <1>1
  <2>3. mpos = 5 \/ mpos >= 6
    BY <2>1, <1>1
  <2>4. mpos >= 5
    BY <1>0, <2>3
  <2>5. UNCHANGED <<running, ppc, cpc, made, processed>>
    BY <1>6 DEF PushDummy, PrintStopped, JoinConsumer, JoinProducer
  <2>6. EngineTypes'
    BY <2>2, <2>5 DEF EngineTypes, Control
  <2>7. Places'
    BY <1>0, <2>2, <2>4, <2>5 DEF Places
  <2> QED BY <2>6, <2>7
<1>7. CASE ProducerTests \/ ProducerSleeps
  <2>1. /\ ppc \in {"test", "pushing"}
        /\ ppc' = "push" => made < MaxTicks
        /\ ppc' \in {"test", "push", "exited"}
        /\ UNCHANGED <<running, mpos, cpc, made, processed>>
    BY <1>0, <1>7 DEF ProducerTests, ProducerSleeps
  <2> QED BY <1>0, <2>1 DEF EngineTypes, Places, Control
<1>8. CASE ProducerPushes
  <2>1. /\ ppc = "push" /\ ppc' = "pushing" /\ made' = made + 1
        /\ UNCHANGED <<running, mpos, cpc, processed>>
    BY <1>8 DEF ProducerPushes
  <2> QED BY <1>0, <2>1 DEF EngineTypes, Places, Control
<1>9. CASE ConsumerTests \/ ConsumerPops
  <2>1. /\ cpc \in {"test", "pop"} /\ cpc' \in {"pop", "exited", "popping"}
        /\ UNCHANGED <<running, mpos, ppc, made, processed>>
    BY <1>9 DEF ConsumerTests, ConsumerPops
  <2> QED BY <1>0, <2>1 DEF EngineTypes, Places, Control
<1>10. CASE ConsumerProcesses
  <2>1. /\ cpc = "popping" /\ cpc' = "test" /\ Held
        /\ processed' = Append(processed, value[Consumer])
        /\ UNCHANGED <<running, mpos, ppc, made>>
    BY <1>10 DEF ConsumerProcesses, Held, Returned
  <2>2. processed' \in Seq(Values)
    BY <1>0, <2>1 DEF Control
  <2> QED BY <1>0, <2>1, <2>2 DEF EngineTypes, Places, Control
<1>11. CASE UNCHANGED engineVars
  BY <1>0, <1>11 DEF engineVars, EngineTypes, Places, Control
<1>12. (\E t \in Threads : InQueue(t)) \/ Wakeup \/ UNCHANGED vars
         => UNCHANGED engineVars
  BY DEF InQueue, Wakeup, vars
<1> QED BY <1>2, <1>3, <1>4, <1>5, <1>6, <1>7, <1>8, <1>9, <1>10, <1>11, <1>12
        DEF Next, MainStep, ProducerStep, ConsumerStep, EngineAssumption

\* A call begins with its argument, and inside the queue it is kept.
LEMMA CallsStep ==
  ASSUME EngineAssumption, IndInv, IndInv', Control, [Next]_vars
  PROVE  ProducerCall' /\ MainCall' /\ ConsumerCall'
<1>a. /\ Producer \in Threads /\ Consumer \in Threads /\ Main \in Threads
      /\ Producer # Consumer /\ Producer # Main /\ Consumer # Main
  BY DEF EngineAssumption
<1>b. /\ qpc \in [Threads -> {"outside", "enter", "body", "blocked", "relock",
                              "take", "leave"}]
      /\ value \in [Threads -> Values \cup {NoValue}]
      /\ call \in [Threads -> {"none", "push", "wait_and_pop", "try_pop"}]
      /\ made \in Nat /\ mpos \in Nat
  BY DEF IndInv, QueueTypeOK, Control, EngineTypes, EngineAssumption
<1>c. ProducerCall /\ MainCall /\ ConsumerCall
  BY DEF Control
<1>d. mpos' >= mpos /\ mpos' \in Nat
  BY MainGoesOn DEF Done, Script
<1>e. mpos >= 6 => mpos' >= 6
  BY <1>b, <1>d
<1>f. ASSUME UNCHANGED qvars,
             cpc' = cpc \/ qpc[Consumer] = "outside",
             (ppc' = ppc /\ made' = made) \/ qpc[Producer] = "outside"
      PROVE  ProducerCall' /\ MainCall' /\ ConsumerCall'
  BY <1>c, <1>e, <1>f DEF qvars, ProducerCall, MainCall, ConsumerCall
<1>1. CASE \/ PressEnter \/ ClearRunning \/ PrintStopped \/ JoinConsumer
           \/ JoinProducer \/ UNCHANGED vars
  <2>1. UNCHANGED <<qvars, ppc, cpc, made>>
    BY <1>1 DEF PressEnter, ClearRunning, PrintStopped, JoinConsumer,
       JoinProducer, vars, engineVars
  <2> QED BY <2>1, <1>f
<1>2. CASE PushDummy
  <2>0. mpos \in 1 .. Done /\ AtStatement("dummy")
    BY <1>2 DEF PushDummy, Control, EngineTypes
  <2>1. mpos' >= 6
    <3>1. mpos = 5 /\ mpos' = mpos + 1
      BY <2>0, Statements
    <3> QED BY <3>1
  <2>2. /\ qpc' = [qpc EXCEPT ![Main] = "enter"]
        /\ value' = [value EXCEPT ![Main] = Dummy]
        /\ call' = [call EXCEPT ![Main] = "push"]
        /\ UNCHANGED <<ppc, cpc, made>>
    BY <1>2 DEF PushDummy, CallPush, Call, At
  <2> QED BY <1>a, <1>b, <1>c, <2>1, <2>2 DEF ProducerCall, MainCall, ConsumerCall
<1>3. CASE ProducerPushes
  <2>1. /\ qpc' = [qpc EXCEPT ![Producer] = "enter"]
        /\ value' = [value EXCEPT ![Producer] = made + 1]
        /\ call' = [call EXCEPT ![Producer] = "push"]
        /\ ppc' = "pushing" /\ made' = made + 1
        /\ UNCHANGED <<mpos, cpc>>
    BY <1>3 DEF ProducerPushes, CallPush, Call, At
  <2>2. made' >= 1
    BY <1>b, <2>1
  <2> QED BY <1>a, <1>b, <1>c, <2>1, <2>2 DEF ProducerCall, MainCall, ConsumerCall
<1>4. CASE ConsumerPops
  <2>1. /\ qpc' = [qpc EXCEPT ![Consumer] = "enter"]
        /\ value' = [value EXCEPT ![Consumer] = value[Consumer]]
        /\ call' = [call EXCEPT ![Consumer] = "wait_and_pop"]
        /\ cpc' = "popping"
        /\ UNCHANGED <<mpos, ppc, made>>
    BY <1>4 DEF ConsumerPops, CallWaitAndPop, Call, At
  <2> QED BY <1>a, <1>b, <1>c, <2>1 DEF ProducerCall, MainCall, ConsumerCall
<1>5. ASSUME NEW t \in Threads, Step(t) \/ SpuriousWakeup(t), UNCHANGED engineVars
      PROVE  ProducerCall' /\ MainCall' /\ ConsumerCall'
  <2>1. UNCHANGED <<ppc, cpc, made, mpos>>
    BY <1>5 DEF engineVars
  <2>2. \A u \in Threads :
          /\ qpc'[u] # "outside" => qpc[u] # "outside" /\ call'[u] = call[u]
          /\ u # Consumer => value'[u] = value[u]
    BY <1>5, InsideQueue
  <2> QED BY <1>a, <1>c, <2>1, <2>2 DEF ProducerCall, MainCall, ConsumerCall
<1>6. CASE StartProducer
  <2>0. mpos \in 1 .. Done /\ AtStatement("start producer")
    BY <1>6 DEF StartProducer, Control, EngineTypes
  <2>1. mpos = 1
    BY <2>0, Statements
  <2>2. ppc = "none"
    BY <2>1 DEF Control, Places
  <2>3. qpc[Producer] = "outside"
    BY <1>c, <2>2 DEF ProducerCall
  <2> QED BY <1>6, <1>f, <2>3 DEF StartProducer
<1>7. CASE StartConsumer
  <2>0. mpos \in 1 .. Done /\ AtStatement("start consumer")
    BY <1>7 DEF StartConsumer, Control, EngineTypes
  <2>1. mpos = 2
    BY <2>0, Statements
  <2>2. cpc = "none"
    BY <2>1 DEF Control, Places
  <2>3. qpc[Consumer] = "outside"
    BY <1>c, <2>2 DEF ConsumerCall
  <2> QED BY <1>7, <1>f, <2>3 DEF StartConsumer
<1>8. CASE ProducerTests \/ ProducerSleeps
  <2>1. qpc[Producer] = "outside" /\ UNCHANGED <<qvars, cpc>>
    BY <1>8, <1>c DEF ProducerTests, ProducerSleeps, Returned, ProducerCall
  <2> QED BY <2>1, <1>f
<1>9. CASE ConsumerTests \/ ConsumerProcesses
  <2>1. qpc[Consumer] = "outside" /\ UNCHANGED <<qvars, ppc, made>>
    BY <1>9, <1>c DEF ConsumerTests, ConsumerProcesses, Returned, ConsumerCall
  <2> QED BY <2>1, <1>f
<1> QED BY <1>a, <1>1, <1>2, <1>3, <1>4, <1>5, <1>6, <1>7, <1>8, <1>9
        DEF Next, MainStep, ProducerStep, ConsumerStep, InQueue, Wakeup

\* What the consumer has in its hand came from the queue.
LEMMA HeldStep ==
  ASSUME EngineAssumption, IndInv, Control, [Next]_vars
  PROVE  Held' => value'[Consumer] \in Values
<1>a. /\ Producer \in Threads /\ Consumer \in Threads /\ Main \in Threads
      /\ Producer # Consumer /\ Producer # Main /\ Consumer # Main
  BY DEF EngineAssumption
<1>b. /\ qpc \in [Threads -> {"outside", "enter", "body", "blocked", "relock",
                              "take", "leave"}]
      /\ value \in [Threads -> Values \cup {NoValue}]
  BY DEF IndInv, QueueTypeOK
<1>c. Held => value[Consumer] \in Values
  BY DEF Control
<1>1. CASE PushDummy \/ ProducerPushes
  <2>1. cpc' = cpc /\ qpc'[Consumer] = qpc[Consumer]
        /\ value'[Consumer] = value[Consumer]
    BY <1>a, <1>b, <1>1 DEF PushDummy, ProducerPushes, CallPush, Call, At
  <2> QED BY <1>c, <2>1 DEF Held
<1>2. CASE ConsumerPops
  <2>1. qpc'[Consumer] = "enter"
    BY <1>a, <1>b, <1>2 DEF ConsumerPops, CallWaitAndPop, Call, At
  <2> QED BY <2>1 DEF Held
<1>3. ASSUME NEW t \in Threads, Step(t) \/ SpuriousWakeup(t), UNCHANGED engineVars
      PROVE  Held' => value'[Consumer] \in Values
  <2>0. cpc' = cpc
    BY <1>3 DEF engineVars
  <2>1. CASE Take(t)
    <3>1. t = Consumer
      BY <2>1, WhoIsWhere DEF Take
    <3>2. value'[Consumer] = Head(queue_)
      BY <1>a, <1>b, <2>1, <3>1 DEF Take
    <3>3. queue_ # <<>> /\ queue_ \in Seq(Values)
      BY <2>1 DEF Take, IndInv, NoPopOfEmpty, QueueTypeOK
    <3> QED BY <3>2, <3>3, HeadAndTail
  <2>2. CASE ~Take(t)
    <3>0. value' = value
      BY <1>3, <2>2 DEF Step, Lock, PushBody, PredicateTrue, PredicateFalse,
         Relock, TryFinds, TryFails, Unlock, SpuriousWakeup
    <3>1. CASE PushBody(t) \/ TryFinds(t) \/ TryFails(t)
      <4>1. t # Consumer
        BY <3>1, WhoIsWhere, <1>a DEF PushBody, TryFinds, TryFails
      <4>2. qpc'[Consumer] = qpc[Consumer] \/ qpc'[Consumer] = "relock"
        BY <1>a, <1>b, <3>1, <4>1
           DEF PushBody, TryFinds, TryFails, At, Notifiable, Blocked
      <4> QED BY <1>c, <2>0, <3>0, <4>2 DEF Held
    <3>2. CASE Unlock(t)
      <4>1. qpc'[Consumer] = qpc[Consumer] \/ qpc[Consumer] = "leave"
        BY <1>a, <1>b, <3>2 DEF Unlock, At
      <4> QED BY <1>c, <2>0, <3>0, <4>1 DEF Held
    <3>3. CASE Lock(t) \/ Relock(t) \/ PredicateTrue(t) \/ PredicateFalse(t)
               \/ SpuriousWakeup(t)
      <4>1. \/ qpc'[Consumer] = qpc[Consumer]
            \/ qpc'[Consumer] \in {"body", "take", "blocked", "relock"}
        BY <1>a, <1>b, <3>3 DEF Lock, Relock, AfterWakeup, PredicateTrue,
           PredicateFalse, SpuriousWakeup, At
      <4> QED BY <1>c, <2>0, <3>0, <4>1 DEF Held
    <3> QED BY <1>3, <2>2, <3>1, <3>2, <3>3 DEF Step
  <2> QED BY <2>1, <2>2
<1>4. CASE \/ StartProducer \/ StartConsumer \/ PressEnter \/ ClearRunning
           \/ PrintStopped \/ JoinConsumer \/ JoinProducer
           \/ ProducerTests \/ ProducerSleeps
           \/ ConsumerTests \/ ConsumerProcesses \/ UNCHANGED vars
  <2>1. UNCHANGED qvars /\ (cpc' = "popping" => cpc = "popping")
    BY <1>4 DEF StartProducer, StartConsumer, PressEnter, ClearRunning,
       PrintStopped, JoinConsumer, JoinProducer, ProducerTests, ProducerSleeps,
       ConsumerTests, ConsumerProcesses, vars, engineVars
  <2> QED BY <1>c, <2>1 DEF Held, qvars
<1> QED BY <1>a, <1>1, <1>2, <1>3, <1>4
        DEF Next, MainStep, ProducerStep, ConsumerStep, InQueue, Wakeup

\* Control of the three threads is kept.
LEMMA ControlStep ==
  ASSUME EngineAssumption, IndInv, Control, [Next]_vars
  PROVE  Control' /\ IndInv'
<1>1. IndInv'
  BY EngineStep, StepType, StepInCall, StepNoPopOfEmpty, StepNoLostWakeup
     DEF IndInv
<1> QED BY <1>1, TypesStep, CallsStep, HeldStep DEF Control

\* The line stays in order when it is kept or gets a tick or the dummy.
LEMMA LineStep ==
  ASSUME EngineAssumption, IndInv, Control, Ordered, Complete, DummyLate,
         [Next]_vars
  PROVE  Ordered' /\ Complete' /\ DummyLate'
<1>1. Line \in Seq(Values) /\ Len(Line) \in Nat
  BY LineType
<1>2. mpos \in Nat /\ mpos' \in Nat /\ mpos' >= mpos
  BY MainGoesOn DEF Control, EngineTypes, Done, Script
<1>3. CASE Keeps
  BY <1>2, <1>3 DEF Keeps, Ordered, Complete, DummyLate
<1>4. ASSUME NEW v \in Values, Line' = Append(Line, v)
      PROVE  /\ Len(Line') = Len(Line) + 1
             /\ \A k \in 1 .. Len(Line) : Line'[k] = Line[k]
             /\ Line'[Len(Line) + 1] = v
  BY <1>1, <1>4
<1>5. ASSUME NEW v \in Values, Line' = Append(Line, v),
             v = Dummy => mpos' >= 6
      PROVE  DummyLate'
  <2>1. ASSUME NEW k \in 1 .. Len(Line'), Line'[k] = Dummy PROVE mpos' >= 6
    <3>1. CASE k \in 1 .. Len(Line)
      BY <1>2, <1>4, <1>5, <2>1, <3>1 DEF DummyLate
    <3>2. CASE k = Len(Line) + 1
      BY <1>4, <1>5, <2>1, <3>2
    <3> QED BY <1>1, <1>4, <1>5, <3>1, <3>2
  <2> QED BY <2>1 DEF DummyLate
<1>6. ASSUME NEW v \in Values, Line' = Append(Line, v),
             (\A k \in 1 .. Len(Line) : Line[k] # Dummy) /\ v # Dummy
               => v = Len(Line) + 1
      PROVE  Ordered'
  <2>1. ASSUME NEW n \in 1 .. Len(Line'), \A k \in 1 .. n : Line'[k] # Dummy
        PROVE  Line'[n] = n
    <3>1. CASE n \in 1 .. Len(Line)
      <4>1. \A k \in 1 .. n : Line[k] # Dummy
        BY <1>1, <1>4, <1>6, <2>1, <3>1
      <4> QED BY <1>4, <1>6, <3>1, <4>1 DEF Ordered
    <3>2. CASE n = Len(Line) + 1
      <4>1. \A k \in 1 .. Len(Line) : Line[k] # Dummy
        BY <1>1, <1>4, <1>6, <2>1, <3>2
      <4>2. v # Dummy
        BY <1>1, <1>4, <1>6, <2>1, <3>2
      <4> QED BY <1>4, <1>6, <3>2, <4>1, <4>2
    <3> QED BY <1>1, <1>4, <1>6, <3>1, <3>2
  <2> QED BY <2>1 DEF Ordered
<1>7. CASE PushesTick
  <2>1. made \in Values /\ made # Dummy /\ made \in Nat
    BY <1>7 DEF PushesTick, EngineAssumption, Control, EngineTypes
  <2>2. (\A k \in 1 .. Len(Line) : Line[k] # Dummy) => made = Len(Line) + 1
    BY <1>1, <1>7, <2>1 DEF PushesTick, Complete
  <2>3. Line' = Append(Line, made) /\ Sent' = made
    BY <1>7 DEF PushesTick
  <2>4. Ordered' /\ DummyLate'
    BY <1>5, <1>6, <2>1, <2>2, <2>3
  <2>5. Complete'
    <3>1. ASSUME \A k \in 1 .. Len(Line') : Line'[k] # Dummy
          PROVE  \A k \in 1 .. Len(Line) : Line[k] # Dummy
      BY <1>1, <1>4, <2>1, <2>3, <3>1
    <3> QED BY <1>4, <2>1, <2>2, <2>3, <3>1 DEF Complete
  <2> QED BY <2>4, <2>5
<1>8. CASE PushesDummy
  <2>1. Dummy \in Values
    BY DEF EngineAssumption
  <2>2. Line' = Append(Line, Dummy) /\ mpos' >= 6
    BY <1>8 DEF PushesDummy
  <2>3. Ordered' /\ DummyLate'
    BY <1>5, <1>6, <2>1, <2>2
  <2>4. Line'[Len(Line) + 1] = Dummy /\ Len(Line) + 1 \in 1 .. Len(Line')
    BY <1>1, <1>4, <2>1, <2>2
  <2> QED BY <2>3, <2>4 DEF Complete
<1> QED BY <1>3, <1>7, <1>8, EngineLine

\* What has been processed is the beginning of the line.
LEMMA ProcessedFirst ==
  ASSUME IndInv, Control
  PROVE  \A k \in 1 .. Len(processed) : k \in 1 .. Len(Line) /\ Line[k] = processed[k]
<1>1. /\ processed \in Seq(Values) /\ Hand \in Seq(Values) /\ queue_ \in Seq(Values)
  BY LineType
<1>2. ASSUME NEW a \in Seq(Values), NEW b \in Seq(Values), NEW k \in 1 .. Len(a)
      PROVE  k \in 1 .. Len(a \o b) /\ (a \o b)[k] = a[k]
  OBVIOUS
<1>3. ASSUME NEW k \in 1 .. Len(processed)
      PROVE  k \in 1 .. Len(Line) /\ Line[k] = processed[k]
  <2>1. k \in 1 .. Len(processed \o Hand) /\ (processed \o Hand)[k] = processed[k]
    BY <1>1, <1>2
  <2> QED BY <1>1, <1>2, <2>1, LineType DEF Line
<1> QED BY <1>3

\* When the dummy has been processed running is false, so the consumer, which
\* tests it, exits.
LEMMA DummyLastStep ==
  ASSUME EngineAssumption, IndInv, Control, DummyLate, DummyLast, [Next]_vars
  PROVE  DummyLast'
<1>1. ASSUME NEW k \in 1 .. Len(processed), processed[k] = Dummy
      PROVE  ~running /\ k = Len(processed) /\ cpc \in {"test", "exited"}
  <2>1. mpos >= 6
    BY <1>1, ProcessedFirst DEF DummyLate
  <2>2. ~running
    BY <2>1 DEF Control, Places, EngineTypes, Done, Script
  <2> QED BY <1>1, <2>2 DEF DummyLast
<1>2. CASE ConsumerProcesses
  <2>1. /\ cpc = "popping" /\ cpc' = "test"
        /\ processed' = Append(processed, value[Consumer])
    BY <1>2 DEF ConsumerProcesses
  <2>2. Held
    BY <1>2 DEF ConsumerProcesses, Returned, Held
  <2>3. value[Consumer] \in Values /\ processed \in Seq(Values)
    BY <2>2 DEF Control, EngineTypes
  <2>4. /\ Len(processed') = Len(processed) + 1
        /\ \A k \in 1 .. Len(processed) : processed'[k] = processed[k]
        /\ Len(processed) \in Nat
    BY <2>1, <2>3
  <2>5. ASSUME NEW k \in 1 .. Len(processed'), processed'[k] = Dummy
        PROVE  k = Len(processed')
    <3>1. CASE k \in 1 .. Len(processed)
      BY <1>1, <2>1, <2>4, <2>5, <3>1
    <3> QED BY <2>4, <3>1
  <2> QED BY <2>1, <2>5 DEF DummyLast
<1>3. CASE processed' = processed
  <2>1. ASSUME NEW k \in 1 .. Len(processed), processed[k] = Dummy
        PROVE  cpc' \in {"test", "exited"}
    <3>1. ~running /\ cpc \in {"test", "exited"}
      BY <1>1, <2>1
    <3> QED BY <3>1 DEF Next, MainStep, ProducerStep, ConsumerStep,
       StartProducer, StartConsumer, PressEnter, ClearRunning, PushDummy,
       PrintStopped, JoinConsumer, JoinProducer, ProducerTests, ProducerPushes,
       ProducerSleeps, ConsumerTests, ConsumerPops, ConsumerProcesses, InQueue,
       Wakeup, vars, engineVars
  <2> QED BY <1>3, <1>1, <2>1 DEF DummyLast
<1>4. ConsumerProcesses \/ processed' = processed
  BY DEF Next, MainStep, ProducerStep, ConsumerStep,
     StartProducer, StartConsumer, PressEnter, ClearRunning, PushDummy,
     PrintStopped, JoinConsumer, JoinProducer, ProducerTests, ProducerPushes,
     ProducerSleeps, ConsumerTests, ConsumerPops, InQueue, Wakeup, vars,
     engineVars
<1> QED BY <1>2, <1>3, <1>4

\* The program as it begins.
LEMMA EngineInit == ASSUME EngineAssumption, Init PROVE IndInv /\ EngineInv
<1>1. IndInv
  BY InitInv DEF Init
<1>2. Control
  BY DEF Init, QueueInit, EngineAssumption, Control, EngineTypes, Places,
     ProducerCall, MainCall, ConsumerCall, Held, Done, Script
<1>3. ~Held /\ ~Pushing
  BY DEF Init, QueueInit, EngineAssumption, Held, Pushing
<1>4. Line = <<>> /\ Sent = 0 /\ processed = <<>>
  BY <1>3 DEF Init, QueueInit, Line, Hand, Sent
<1> QED BY <1>1, <1>2, <1>4
        DEF EngineInv, Ordered, Complete, DummyLate, DummyLast

\* The program uses the queue as any program may: what is proved of the queue
\* holds in it.
THEOREM EngineUsesQueue == EngineAssumption => (Spec => QueueSpec)
<1> SUFFICES ASSUME EngineAssumption PROVE Spec => QueueSpec
  OBVIOUS
<1>1. Init => IndInv /\ Control
  BY EngineInit DEF EngineInv
<1>2. IndInv /\ Control /\ [Next]_vars => (IndInv /\ Control)'
  BY ControlStep
<1>3. IndInv /\ Control /\ [Next]_vars => [QueueNext]_qvars
  BY EngineStep
<1>4. Init => QueueInit
  BY DEF Init
<1> QED BY <1>1, <1>2, <1>3, <1>4, PTL DEF Spec, QueueSpec

\* For any number of ticks: they are processed in the order of their making,
\* each once, and none after the dummy.
THEOREM TicksProcessedInOrder == EngineAssumption => (Spec => []ProcessedInOrder)
<1> SUFFICES ASSUME EngineAssumption PROVE Spec => []ProcessedInOrder
  OBVIOUS
<1>1. Init => IndInv /\ EngineInv
  BY EngineInit
<1>2. IndInv /\ EngineInv /\ [Next]_vars => (IndInv /\ EngineInv)'
  BY ControlStep, LineStep, DummyLastStep DEF EngineInv
<1>3. IndInv /\ EngineInv => ProcessedInOrder
  <2> SUFFICES ASSUME IndInv, EngineInv, NEW i \in 1 .. Len(processed)
               PROVE  /\ processed[i] \in {i, Dummy}
                      /\ processed[i] = Dummy => i = Len(processed)
    BY DEF ProcessedInOrder
  <2>1. processed[i] = Dummy => i = Len(processed)
    BY DEF EngineInv, DummyLast
  <2>2. ASSUME processed[i] # Dummy PROVE processed[i] = i
    <3>1. \A k \in 1 .. i : k \in 1 .. Len(processed)
      BY LineType DEF EngineInv
    <3>2. \A k \in 1 .. i : processed[k] # Dummy
      BY <2>2, <3>1 DEF EngineInv, DummyLast
    <3>3. \A k \in 1 .. i : Line[k] # Dummy
      BY <3>1, <3>2, ProcessedFirst DEF EngineInv
    <3> QED BY <3>3, ProcessedFirst DEF EngineInv, Ordered
  <2> QED BY <2>1, <2>2
<1> QED BY <1>1, <1>2, <1>3, PTL DEF Spec
=============================================================================
