------------------------ MODULE CrossSectionalProofs ------------------------
(***************************************************************************)
(* Proofs about the threads of the cross-sectional engine.                 *)
(*                                                                         *)
(* MarketFeed, for a queue of any size, stores of any number of assets and *)
(* any number of starts and stops: one thread of each kind, every update   *)
(* accounted for in its order, at most one lost at a stop, and a counter   *)
(* that is exact when the feed has stopped.                                *)
(*                                                                         *)
(* SnapshotStore and LiveLoop, for every number of assets, of values and   *)
(* of readers, and every length of the run: no snapshot is torn and        *)
(* sections and snapshots are atomic; what a cycle of the trading loop     *)
(* counts are the signals of a state the store had in it.  What is proved  *)
(* of the store uses StoreAssumption only, not LiveAssumption.             *)
(***************************************************************************)
EXTENDS MarketFeed, LiveLoop, FiniteSetTheorems, SequenceTheorems, TLAPS

-----------------------------------------------------------------------------
(* The feed.                                                               *)

\* What a thread holds at the places where it holds something.
Held == /\ ppc \in {"push", "refused"} => pitem \in FeedUpdates
        /\ cpc = "apply" => citem \in FeedUpdates

\* Where the threads are at each place of the owner.
Threads ==
  /\ mpc \in {"create producer", "create consumer"} => running_
  /\ mpc \in {"join producer", "join consumer"} => ~running_
  /\ mpc \in {"create producer", "join consumer"} => ppc = "exited"
  /\ mpc \in {"create producer", "create consumer"} => cpc = "exited"
  /\ mpc = "free" /\ ~running_ => ppc = "exited" /\ cpc = "exited"

\* The counter lags behind by the update just applied.
Counting == updates_processed_ = Len(applied) - (IF cpc = "count" THEN 1 ELSE 0)

\* The update in hand is the one that the current stop() may still cost.
Losses == /\ IsFiniteSet(lost)
          /\ lost \subseteq 1 .. made
          /\ Cardinality(lost) <= IF running_ \/ ppc \in {"push", "refused"}
                                  THEN runs - 1 ELSE runs

FeedInv == FeedTypeOK /\ Held /\ Threads /\ Counting /\ Losses /\ Accounted
-----------------------------------------------------------------------------
\* Accounted, of a sequence j, when m updates have been made and those of l
\* lost.
InOrder(j, m, l) ==
  /\ \A a, b \in 1 .. Len(j) : a < b => j[a].serial < j[b].serial
  /\ {j[a].serial : a \in 1 .. Len(j)} = (1 .. m) \ l

\* A new update with the next serial number goes to the end.
LEMMA OrderOfMade ==
  ASSUME NEW j \in Seq(FeedUpdates), NEW m \in Nat, NEW l \in SUBSET (1 .. m),
         NEW u \in FeedUpdates, u.serial = m + 1, InOrder(j, m, l)
  PROVE  InOrder(j \o <<u>>, m + 1, l)
<1> DEFINE k == j \o <<u>>
<1>1. /\ Len(j) \in Nat /\ Len(k) = Len(j) + 1
      /\ \A a \in 1 .. Len(j) : k[a] = j[a]
      /\ k[Len(j) + 1] = u
  BY ConcatProperties, LenProperties
<1>2. \A a \in 1 .. Len(j) : j[a].serial \in 1 .. m /\ j[a].serial \notin l
  BY DEF InOrder
<1> HIDE DEF k
<1>3. \A a, b \in 1 .. Len(k) : a < b => k[a].serial < k[b].serial
  <2> SUFFICES ASSUME NEW a \in 1 .. Len(k), NEW b \in 1 .. Len(k), a < b
               PROVE  k[a].serial < k[b].serial
    OBVIOUS
  <2>1. a \in 1 .. Len(j) /\ (b \in 1 .. Len(j) \/ b = Len(j) + 1)
    BY <1>1
  <2>2. CASE b \in 1 .. Len(j)
    BY <1>1, <2>1, <2>2 DEF InOrder
  <2>3. CASE b = Len(j) + 1
    BY <1>1, <1>2, <2>1, <2>3
  <2> QED BY <2>1, <2>2, <2>3
<1>4. {k[a].serial : a \in 1 .. Len(k)} = {j[a].serial : a \in 1 .. Len(j)} \cup {m + 1}
  <2>1. 1 .. Len(k) = (1 .. Len(j)) \cup {Len(j) + 1}
    BY <1>1
  <2> QED BY <1>1, <2>1
<1>5. (1 .. m + 1) \ l = ((1 .. m) \ l) \cup {m + 1}
  OBVIOUS
<1> QED BY <1>3, <1>4, <1>5 DEF InOrder, k

\* When the last update is given up the others stay in order.
LEMMA OrderOfLost ==
  ASSUME NEW j \in Seq(FeedUpdates), NEW m \in Nat, NEW l \in SUBSET (1 .. m),
         NEW u \in FeedUpdates, InOrder(j \o <<u>>, m, l)
  PROVE  InOrder(j, m, l \cup {u.serial}) /\ u.serial \in (1 .. m) \ l
<1> DEFINE k == j \o <<u>>
<1>1. /\ Len(j) \in Nat /\ Len(k) = Len(j) + 1
      /\ \A a \in 1 .. Len(j) : k[a] = j[a]
      /\ k[Len(j) + 1] = u
  BY ConcatProperties, LenProperties
<1>2. InOrder(k, m, l)
  OBVIOUS
<1> HIDE DEF k
<1>3. \A a \in 1 .. Len(j) : j[a].serial < u.serial
  BY <1>1, <1>2 DEF InOrder
<1>4. \A a \in 1 .. Len(j) : j[a].serial # u.serial
  <2>1. u.serial \in Nat /\ \A v \in FeedUpdates : v.serial \in Nat
    BY DEF FeedUpdates
  <2>2. \A a \in 1 .. Len(j) : j[a] \in FeedUpdates
    BY ElementOfSeq
  <2> QED BY <1>3, <2>1, <2>2
<1>5. (1 .. m) \ l = {j[a].serial : a \in 1 .. Len(j)} \cup {u.serial}
  <2>1. 1 .. Len(k) = (1 .. Len(j)) \cup {Len(j) + 1}
    BY <1>1
  <2> QED BY <1>1, <1>2, <2>1 DEF InOrder
<1>6. {j[a].serial : a \in 1 .. Len(j)} = (1 .. m) \ (l \cup {u.serial})
  BY <1>4, <1>5
<1>7. \A a, b \in 1 .. Len(j) : a < b => j[a].serial < j[b].serial
  BY <1>1, <1>2 DEF InOrder
<1> QED BY <1>5, <1>6, <1>7 DEF InOrder
-----------------------------------------------------------------------------
\* The parts of a journey are sequences of updates.
LEMMA Parts ==
  ASSUME FeedTypeOK, Held
  PROVE  /\ applied \in Seq(FeedUpdates) /\ queue \in Seq(FeedUpdates)
         /\ Applying \in Seq(FeedUpdates) /\ Pushing \in Seq(FeedUpdates)
         /\ applied \o Applying \in Seq(FeedUpdates)
         /\ applied \o Applying \o queue \in Seq(FeedUpdates)
<1>1. applied \in Seq(FeedUpdates) /\ queue \in Seq(FeedUpdates)
  BY DEF FeedTypeOK
<1>2. Applying \in Seq(FeedUpdates) /\ Pushing \in Seq(FeedUpdates)
  BY DEF Held, Applying, Pushing
<1> QED BY <1>1, <1>2, ConcatProperties

\* The update being pushed is the last of the journey, and not lost.
LEMMA LastInHand ==
  ASSUME FeedTypeOK, Held, Losses, Accounted, ppc \in {"push", "refused"}
  PROVE  /\ pitem.serial \in 1 .. made
         /\ InOrder(applied \o Applying \o queue, made, lost \cup {pitem.serial})
<1>1. Journey = (applied \o Applying \o queue) \o <<pitem>>
  BY DEF Journey, Pushing
<1>2. InOrder((applied \o Applying \o queue) \o <<pitem>>, made, lost)
  BY <1>1 DEF Accounted, InOrder
<1>3. /\ applied \o Applying \o queue \in Seq(FeedUpdates)
      /\ made \in Nat /\ lost \in SUBSET (1 .. made) /\ pitem \in FeedUpdates
  BY Parts DEF FeedTypeOK, Held, Losses
<1> QED BY <1>2, <1>3, OrderOfLost

\* The types in four parts: the store, the queue, places and items.
StoreType == capacity \in Capacities /\ store \in [0 .. capacity - 1 -> Nat]
QueueType == queue \in Seq(FeedUpdates) /\ Len(queue) <= QueueSize
PlaceTypes ==
  /\ running_ \in BOOLEAN
  /\ mpc \in {"free", "create producer", "create consumer", "join producer",
              "join consumer"}
  /\ ppc \in {"exited", "enter", "loop", "push", "refused"}
  /\ cpc \in {"exited", "loop", "pop", "apply", "count"}
ItemTypes ==
  /\ updates_processed_ \in Nat
  /\ pitem \in FeedUpdates \cup {NoUpdate}
  /\ citem \in FeedUpdates \cup {NoUpdate}
  /\ runs \in Nat /\ made \in Nat
  /\ applied \in Seq(FeedUpdates)
  /\ lost \subseteq Nat

LEMMA TypeParts == FeedTypeOK <=> StoreType /\ QueueType /\ PlaceTypes /\ ItemTypes
BY DEF FeedTypeOK, StoreType, QueueType, PlaceTypes, ItemTypes

\* The feed as constructed satisfies the invariant.
LEMMA FeedInitially == FeedInit => FeedInv
<1> SUFFICES ASSUME FeedInit PROVE FeedInv
  OBVIOUS
<1>1. StoreType
  BY DEF FeedInit, StoreType
<1>2. QueueType
  BY FeedAssumption DEF FeedInit, QueueType
<1>3. PlaceTypes
  BY DEF FeedInit, PlaceTypes
<1>7. ItemTypes
  BY DEF FeedInit, ItemTypes
<1>4. Held /\ Threads /\ Counting
  BY DEF FeedInit, Held, Threads, Counting
<1>5. Losses
  BY FS_EmptySet DEF FeedInit, Losses
<1>6. Accounted
  <2>1. Journey = <<>> /\ made = 0 /\ lost = {}
    BY DEF FeedInit, Journey, Applying, Pushing
  <2> QED BY <2>1 DEF Accounted
<1> QED BY <1>1, <1>2, <1>3, <1>4, <1>5, <1>6, <1>7, TypeParts DEF FeedInv

\* Only Apply writes to the store, a serial number.
LEMMA StoreStep == FeedInv /\ [FeedNext]_allVars => StoreType'
<1> SUFFICES ASSUME FeedInv, [FeedNext]_allVars PROVE StoreType'
  OBVIOUS
<1>0. StoreType /\ Held
  BY TypeParts DEF FeedInv, StoreType
<1>1. CASE Apply
  <2>1. citem.serial \in Nat
    BY <1>0, <1>1 DEF Apply, Held, FeedUpdates
  <2> QED BY <1>0, <1>1, <2>1 DEF Apply, StoreType
<1>2. CASE ~Apply
  <2>1. capacity' = capacity /\ store' = store
    BY <1>2 DEF FeedNext, Start, Stop, Owner, CreateProducer, CreateConsumer,
         JoinProducer, JoinConsumer, Produce, Enter, Make, ProducerExit, Push,
         Refused, Yield, GiveUp, Consume, Continue, ConsumerExit, Pop,
         NothingToPop, Count, consVars, allVars
  <2> QED BY <1>0, <2>1 DEF StoreType
<1> QED BY <1>1, <1>2

\* Only Push and Pop change the queue.
LEMMA QueueStep == FeedInv /\ [FeedNext]_allVars => QueueType'
<1> SUFFICES ASSUME FeedInv, [FeedNext]_allVars PROVE QueueType'
  OBVIOUS
<1>0. QueueType /\ Held
  BY TypeParts DEF FeedInv, StoreType
<1>1. CASE Push
  <2>1. pitem \in FeedUpdates
    BY <1>0, <1>1 DEF Push, Held
  <2>2. queue' = Append(queue, pitem) /\ Len(queue) < QueueSize
    BY <1>1 DEF Push, Queue!Put
  <2>3. Len(queue) \in Nat /\ queue' \in Seq(FeedUpdates) /\ Len(queue') = Len(queue) + 1
    BY <1>0, <2>1, <2>2, AppendProperties, LenProperties DEF QueueType
  <2> QED BY <2>2, <2>3, FeedAssumption DEF QueueType
<1>2. CASE Pop
  <2>1. queue' = Tail(queue) /\ queue # <<>>
    BY <1>2 DEF Pop, Queue!Get
  <2>2. /\ queue' \in Seq(FeedUpdates)
        /\ Len(queue) \in Nat /\ Len(queue') = Len(queue) - 1
    BY <1>0, <2>1, HeadTailProperties, LenProperties DEF QueueType
  <2> QED BY <1>0, <2>2, FeedAssumption DEF QueueType
<1>3. CASE ~Push /\ ~Pop
  <2>1. queue' = queue
    BY <1>3 DEF FeedNext, Start, Stop, Owner, CreateProducer, CreateConsumer,
         JoinProducer, JoinConsumer, Produce, Enter, Make, ProducerExit,
         Refused, Yield, GiveUp, Consume, Continue, ConsumerExit,
         NothingToPop, Apply, Count, consVars, allVars
  <2> QED BY <1>0, <2>1 DEF QueueType
<1> QED BY <1>1, <1>2, <1>3

\* Every thread is at one of its places.
LEMMA PlacesStep == FeedInv /\ [FeedNext]_allVars => PlaceTypes'
<1> SUFFICES ASSUME FeedInv, [FeedNext]_allVars PROVE PlaceTypes'
  OBVIOUS
<1>0. PlaceTypes
  BY TypeParts DEF FeedInv
<1> USE <1>0 DEF PlaceTypes
<1>1. CASE Start \/ Stop \/ Owner
  BY <1>1 DEF Start, Stop, Owner, CreateProducer, CreateConsumer, JoinProducer,
              JoinConsumer, prodVars, consVars
<1>2. CASE Produce
  BY <1>2 DEF Produce, Enter, Make, ProducerExit, Push, Refused, Yield, GiveUp,
              feedVars, consVars
<1>3. CASE Consume
  BY <1>3 DEF Consume, Continue, ConsumerExit, Pop, NothingToPop, Apply, Count,
              feedVars, prodVars
<1>4. CASE UNCHANGED allVars
  BY <1>4 DEF allVars, feedVars, prodVars, consVars
<1> QED BY <1>1, <1>2, <1>3, <1>4 DEF FeedNext

\* The owner's steps leave the updates where they are.
LEMMA OwnerStep ==
  ASSUME Start \/ Stop \/ Owner
  PROVE  /\ updates_processed_' = updates_processed_ /\ queue' = queue
         /\ pitem' = pitem /\ citem' = citem
         /\ made' = made /\ applied' = applied /\ lost' = lost
         /\ runs' = runs \/ runs' = runs + 1
         /\ ppc' = ppc \/ ppc' = "enter"
         /\ cpc' = cpc \/ cpc' = "loop"
<1>1. CASE Start \/ Stop \/ JoinProducer \/ JoinConsumer
  BY <1>1 DEF Start, Stop, JoinProducer, JoinConsumer, prodVars, consVars
<1>2. CASE CreateProducer \/ CreateConsumer
  BY <1>2 DEF CreateProducer, CreateConsumer, prodVars, consVars
<1> QED BY <1>1, <1>2 DEF Owner

\* What is made, popped and applied are updates, and so is what a thread holds.
LEMMA ItemsStep == FeedInv /\ [FeedNext]_allVars => ItemTypes' /\ Held'
<1> SUFFICES ASSUME FeedInv, [FeedNext]_allVars PROVE ItemTypes' /\ Held'
  OBVIOUS
<1>0. ItemTypes /\ Held
  BY TypeParts DEF FeedInv
<1> USE <1>0 DEF ItemTypes, Held
<1>1. CASE Start \/ Stop \/ Owner
  <2>1. ItemTypes'
    <3>1. runs' \in Nat
      BY <1>1, OwnerStep
    <3> QED BY <1>1, <3>1, OwnerStep
  <2>2. Held'
    BY <1>1, OwnerStep
  <2> QED BY <2>1, <2>2
<1>2. CASE Enter \/ ProducerExit \/ Refused \/ Yield
  BY <1>2 DEF Enter, ProducerExit, Refused, Yield, feedVars, consVars
<1>3. CASE Make
  <2>1. PICK a \in 0 .. capacity - 1 : pitem' = [asset |-> a, serial |-> made + 1]
    BY <1>3 DEF Make
  <2>2. a \in UNION {0 .. c - 1 : c \in Capacities}
    BY TypeParts DEF FeedInv, StoreType
  <2>3. made + 1 \in 1 .. MaxUpdates
    BY <1>3, FeedAssumption DEF Make
  <2>4. pitem' \in FeedUpdates
    BY <2>1, <2>2, <2>3 DEF FeedUpdates
  <2> QED BY <1>3, <2>4 DEF Make, feedVars, consVars
<1>4. CASE Push
  BY <1>4 DEF Push, Queue!Put, feedVars
<1>5. CASE GiveUp
  <2>1. pitem.serial \in Nat
    BY <1>5 DEF GiveUp, FeedUpdates
  <2> QED BY <1>5, <2>1 DEF GiveUp, feedVars, consVars
<1>6. CASE Continue \/ ConsumerExit \/ NothingToPop
  BY <1>6 DEF Continue, ConsumerExit, NothingToPop, feedVars, prodVars
<1>7. CASE Pop
  <2>1. citem' = Head(queue) /\ queue # <<>>
    BY <1>7 DEF Pop, Queue!Get
  <2>2. citem' \in FeedUpdates
    BY <2>1, HeadTailProperties, TypeParts DEF FeedInv, QueueType
  <2> QED BY <1>7, <2>2 DEF Pop, feedVars, prodVars
<1>8. CASE Apply
  <2>1. applied' \in Seq(FeedUpdates)
    BY <1>8, AppendProperties DEF Apply
  <2> QED BY <1>8, <2>1 DEF Apply, feedVars, prodVars
<1>9. CASE Count
  BY <1>9 DEF Count, Counted, feedVars, prodVars
<1>10. CASE UNCHANGED allVars
  BY <1>10 DEF allVars, feedVars, prodVars, consVars
<1> QED BY <1>1, <1>2, <1>3, <1>4, <1>5, <1>6, <1>7, <1>8, <1>9, <1>10
        DEF FeedNext, Produce, Consume

\* A thread that has exited stays so until the owner creates the next one.
LEMMA ThreadsStep == FeedInv /\ [FeedNext]_allVars => Threads'
<1> SUFFICES ASSUME FeedInv, [FeedNext]_allVars PROVE Threads'
  OBVIOUS
<1>0. Threads
  BY DEF FeedInv
<1> USE <1>0 DEF Threads
<1>1. CASE Start
  BY <1>1 DEF Start, prodVars, consVars
<1>2. CASE Stop
  BY <1>2 DEF Stop, prodVars, consVars
<1>3. CASE CreateProducer
  BY <1>3 DEF CreateProducer, consVars
<1>4. CASE CreateConsumer
  BY <1>4 DEF CreateConsumer, prodVars
<1>5. CASE JoinProducer
  BY <1>5 DEF JoinProducer, Joinable, prodVars, consVars
<1>6. CASE JoinConsumer
  BY <1>6 DEF JoinConsumer, Joinable, prodVars, consVars
<1>7. CASE Produce
  <2>1. /\ mpc' = mpc /\ running_' = running_ /\ cpc' = cpc
        /\ ppc # "exited"
    BY <1>7 DEF Produce, Enter, Make, ProducerExit, Push, Refused, Yield,
         GiveUp, feedVars, consVars
  <2> QED BY <2>1
<1>8. CASE Consume
  <2>1. /\ mpc' = mpc /\ running_' = running_ /\ ppc' = ppc
        /\ cpc # "exited"
    BY <1>8 DEF Consume, Continue, ConsumerExit, Pop, NothingToPop, Apply,
         Count, feedVars, prodVars
  <2> QED BY <2>1
<1>9. CASE UNCHANGED allVars
  BY <1>9 DEF allVars, feedVars, prodVars, consVars
<1> QED BY <1>1, <1>2, <1>3, <1>4, <1>5, <1>6, <1>7, <1>8, <1>9 DEF FeedNext, Owner

\* Apply and Count move the counter and the history by one each.
LEMMA CountingStep == FeedInv /\ [FeedNext]_allVars => Counting'
<1> SUFFICES ASSUME FeedInv, [FeedNext]_allVars PROVE Counting'
  OBVIOUS
<1>0. Counting /\ Threads /\ applied \in Seq(FeedUpdates) /\ Len(applied) \in Nat
  BY LenProperties DEF FeedInv, FeedTypeOK
<1>1. CASE Start \/ Stop \/ Owner
  <2>1. cpc = "count" => cpc' = cpc
    BY <1>0, <1>1 DEF Threads, Start, Stop, Owner, CreateProducer,
         CreateConsumer, JoinProducer, JoinConsumer, consVars
  <2> QED BY <1>0, <1>1, <2>1, OwnerStep DEF Counting
<1>2. CASE Produce
  <2>1. UNCHANGED <<updates_processed_, applied, cpc>>
    BY <1>2 DEF Produce, Enter, Make, ProducerExit, Push, Refused, Yield,
         GiveUp, consVars
  <2> QED BY <1>0, <2>1 DEF Counting
<1>3. CASE Continue \/ ConsumerExit \/ Pop \/ NothingToPop
  BY <1>0, <1>3 DEF Counting, Continue, ConsumerExit, Pop, NothingToPop
<1>4. CASE Apply
  <2>1. citem \in FeedUpdates
    BY <1>4 DEF FeedInv, Held, Apply
  <2>2. Len(applied') = Len(applied) + 1
    BY <1>0, <1>4, <2>1, AppendProperties DEF Apply
  <2> QED BY <1>0, <1>4, <2>2 DEF Counting, Apply
<1>5. CASE Count
  BY <1>0, <1>5 DEF Counting, Count, Counted
<1>6. CASE UNCHANGED allVars
  BY <1>0, <1>6 DEF Counting, allVars, consVars
<1> QED BY <1>1, <1>2, <1>3, <1>4, <1>5, <1>6 DEF FeedNext, Consume

\* A stop() makes the update in hand one that may be lost; a start() finds
\* nothing in hand.
LEMMA LossesStep == FeedInv /\ [FeedNext]_allVars => Losses'
<1> SUFFICES ASSUME FeedInv, [FeedNext]_allVars PROVE Losses'
  OBVIOUS
<1>0. /\ Losses /\ Threads
      /\ runs \in Nat /\ made \in Nat /\ running_ \in BOOLEAN
      /\ Cardinality(lost) \in Nat
  BY FS_CardinalityType DEF FeedInv, FeedTypeOK, Losses
<1>1. CASE Start
  <2>1. /\ lost' = lost /\ made' = made /\ ppc' = ppc
        /\ runs' = runs + 1
        /\ ~running_ /\ ppc = "exited"
    BY <1>0, <1>1 DEF Start, prodVars, Threads
  <2> QED BY <1>0, <2>1 DEF Losses
<1>2. CASE Stop
  <2>1. lost' = lost /\ made' = made /\ ppc' = ppc /\ runs' = runs /\ running_
    BY <1>2 DEF Stop, prodVars
  <2> QED BY <1>0, <2>1 DEF Losses
<1>3. CASE Owner
  <2>1. /\ lost' = lost /\ made' = made /\ runs' = runs
        /\ running_' = running_
        /\ ppc' = ppc \/ (running_ /\ ppc' = "enter")
    BY <1>0, <1>3 DEF Threads, Owner, CreateProducer, CreateConsumer,
         JoinProducer, JoinConsumer, prodVars
  <2> QED BY <1>0, <2>1 DEF Losses
<1>4. CASE Make
  <2>1. /\ lost' = lost /\ made' = made + 1 /\ runs' = runs
        /\ running_ /\ running_' = running_
    BY <1>4 DEF Make, feedVars
  <2> QED BY <1>0, <2>1 DEF Losses
<1>5. CASE Enter \/ ProducerExit \/ Push \/ Refused \/ Yield
  <2>1. /\ lost' = lost /\ made' = made /\ runs' = runs
        /\ running_' = running_
        /\ ppc' \in {"push", "refused"} => ppc \in {"push", "refused"}
    BY <1>5 DEF Enter, ProducerExit, Push, Refused, Yield, feedVars
  <2> QED BY <1>0, <2>1 DEF Losses
<1>6. CASE GiveUp
  <2>1. /\ lost' = lost \cup {pitem.serial} /\ made' = made
        /\ runs' = runs /\ running_' = running_ /\ ~running_
        /\ ppc = "refused" /\ ppc' = "loop"
    BY <1>6 DEF GiveUp, GivesUp, feedVars
  <2>2. pitem.serial \in 1 .. made
    BY <2>1, LastInHand DEF FeedInv
  <2>3. /\ IsFiniteSet(lost')
        /\ Cardinality(lost') \in {Cardinality(lost), Cardinality(lost) + 1}
    BY <1>0, <2>1, FS_AddElement DEF Losses
  <2>4. Cardinality(lost) <= runs - 1 /\ Cardinality(lost') <= runs
    BY <1>0, <2>1, <2>3 DEF Losses
  <2>5. lost' \subseteq 1 .. made'
    BY <1>0, <2>1, <2>2 DEF Losses
  <2>6. ~(running_' \/ ppc' \in {"push", "refused"})
    BY <2>1
  <2>7. Cardinality(lost') <= runs'
    BY <2>1, <2>4
  <2> QED BY <2>3, <2>5, <2>6, <2>7 DEF Losses
<1>7. CASE Consume
  <2>1. /\ lost' = lost /\ made' = made /\ runs' = runs
        /\ running_' = running_ /\ ppc' = ppc
    BY <1>7 DEF Consume, Continue, ConsumerExit, Pop, NothingToPop, Apply,
         Count, feedVars, prodVars
  <2> QED BY <1>0, <2>1 DEF Losses
<1>8. CASE UNCHANGED allVars
  BY <1>0, <1>8 DEF Losses, allVars, feedVars, prodVars
<1> QED BY <1>1, <1>2, <1>3, <1>4, <1>5, <1>6, <1>7, <1>8 DEF FeedNext, Produce
-----------------------------------------------------------------------------

\* Accounted is InOrder of the journey.
LEMMA AccountedInOrder == Accounted <=> InOrder(Journey, made, lost)
BY DEF Accounted, InOrder

\* A step that leaves the journey and what is made and lost alone.
LEMMA SameJourney ==
  ASSUME Accounted, Journey' = Journey, made' = made, lost' = lost
  PROVE  Accounted'
BY DEF Accounted

\* A nonempty sequence is its head followed by its tail.
LEMMA HeadAndTail ==
  ASSUME NEW q \in Seq(FeedUpdates), q # <<>>
  PROVE  /\ Head(q) \in FeedUpdates /\ Tail(q) \in Seq(FeedUpdates)
         /\ q = <<Head(q)>> \o Tail(q)
<1>1. Head(q) \in FeedUpdates /\ Tail(q) \in Seq(FeedUpdates)
  BY HeadTailProperties
<1>2. 1 \in 1 .. Len(q) /\ Len(q) \in 1 .. Len(q)
  BY EmptySeq
<1>3. SubSeq(q, 1, Len(q)) = <<q[1]>> \o SubSeq(q, 2, Len(q))
  BY <1>2, SubSeqRecursiveFirst
<1>4. Head(q) = q[1] /\ Tail(q) = SubSeq(q, 2, Len(q))
  BY TailIsSubSeq
<1> QED BY <1>1, <1>3, <1>4, SubSeqFull

\* An update moves along its journey; a new one comes to the end of it, and
\* one that is given up is taken from the end.
LEMMA AccountedStep == FeedInv /\ [FeedNext]_allVars => Accounted'
<1> SUFFICES ASSUME FeedInv, [FeedNext]_allVars PROVE Accounted'
  OBVIOUS
<1>0. /\ Accounted
      /\ applied \in Seq(FeedUpdates) /\ queue \in Seq(FeedUpdates)
      /\ Applying \in Seq(FeedUpdates) /\ Pushing \in Seq(FeedUpdates)
      /\ applied \o Applying \in Seq(FeedUpdates)
      /\ applied \o Applying \o queue \in Seq(FeedUpdates)
  BY Parts DEF FeedInv
<1>1. CASE Start \/ Stop \/ Owner
  <2>1. /\ cpc = "apply" <=> cpc' = "apply"
        /\ ppc \in {"push", "refused"} <=> ppc' \in {"push", "refused"}
    <3>1. Threads
      BY DEF FeedInv
    <3> QED BY <1>1, <3>1 DEF Threads, Start, Stop, Owner, CreateProducer,
             CreateConsumer, JoinProducer, JoinConsumer, prodVars, consVars
  <2>2. Applying' = Applying /\ Pushing' = Pushing
    BY <1>1, <2>1, OwnerStep DEF Applying, Pushing
  <2>3. Journey' = Journey
    BY <1>1, <2>2, OwnerStep DEF Journey
  <2> QED BY <1>0, <1>1, <2>3, OwnerStep, SameJourney
<1>2. CASE Enter \/ ProducerExit \/ Refused \/ Yield
  <2>1. /\ UNCHANGED <<applied, queue, pitem, citem, cpc, made, lost>>
        /\ ppc \in {"push", "refused"} <=> ppc' \in {"push", "refused"}
    BY <1>2 DEF Enter, ProducerExit, Refused, Yield, consVars
  <2>2. Journey' = Journey
    BY <2>1 DEF Journey, Applying, Pushing
  <2> QED BY <1>0, <2>1, <2>2, SameJourney
<1>3. CASE Make
  <2>1. /\ UNCHANGED <<applied, queue, citem, cpc, lost>>
        /\ made' = made + 1 /\ pitem'.serial = made + 1
        /\ ppc = "loop" /\ ppc' = "push"
    BY <1>3 DEF Make, consVars
  <2>2. pitem' \in FeedUpdates
    BY <2>1, ItemsStep DEF Held
  <2>3. Journey = applied \o Applying \o queue
    <3>1. Pushing = <<>>
      BY <2>1 DEF Pushing
    <3> QED BY <1>0, <3>1, ConcatEmptySeq DEF Journey
  <2>4. Journey' = Journey \o <<pitem'>>
    <3>1. Pushing' = <<pitem'>> /\ Applying' = Applying
      BY <2>1 DEF Pushing, Applying
    <3> QED BY <2>1, <2>3, <3>1 DEF Journey
  <2>5. InOrder(Journey, made, lost) /\ made \in Nat /\ lost \in SUBSET (1 .. made)
    BY <1>0, AccountedInOrder DEF FeedInv, FeedTypeOK, Losses
  <2>6. InOrder(Journey \o <<pitem'>>, made + 1, lost)
    BY <1>0, <2>1, <2>2, <2>3, <2>5, OrderOfMade
  <2>7. InOrder(Journey', made', lost')
    BY <2>1, <2>4, <2>6
  <2> QED BY <2>7 DEF Accounted, InOrder
<1>4. CASE Push
  <2>1. /\ UNCHANGED <<applied, citem, cpc, made, lost>>
        /\ queue' = Append(queue, pitem)
        /\ ppc = "push" /\ ppc' = "loop"
    BY <1>4 DEF Push, Queue!Put
  <2>2. pitem \in FeedUpdates
    BY <2>1 DEF FeedInv, Held
  <2>3. Pushing = <<pitem>> /\ Pushing' = <<>> /\ Applying' = Applying
    BY <2>1 DEF Pushing, Applying
  <2>4. queue' = queue \o <<pitem>> /\ queue' \in Seq(FeedUpdates)
    BY <1>0, <2>1, <2>2, AppendIsConcat, AppendProperties
  <2>5. Journey' = applied \o Applying \o (queue \o <<pitem>>)
    <3>1. applied \o Applying \o queue' \in Seq(FeedUpdates)
      BY <1>0, <2>4, ConcatProperties
    <3> QED BY <2>1, <2>3, <2>4, <3>1, ConcatEmptySeq DEF Journey
  <2>6. Journey = applied \o Applying \o (queue \o <<pitem>>)
    BY <1>0, <2>2, <2>3, ConcatAssociative DEF Journey
  <2> QED BY <1>0, <2>1, <2>5, <2>6, SameJourney
<1>5. CASE GiveUp
  <2>1. /\ UNCHANGED <<applied, queue, citem, cpc, made>>
        /\ lost' = lost \cup {pitem.serial}
        /\ ppc = "refused" /\ ppc' = "loop"
    BY <1>5 DEF GiveUp, consVars
  <2>2. InOrder(applied \o Applying \o queue, made, lost')
    BY <2>1, LastInHand DEF FeedInv
  <2>3. Journey' = applied \o Applying \o queue
    <3>1. Pushing' = <<>> /\ Applying' = Applying
      BY <2>1 DEF Pushing, Applying
    <3> QED BY <1>0, <2>1, <3>1, ConcatEmptySeq DEF Journey
  <2>4. InOrder(Journey', made', lost')
    BY <2>1, <2>2, <2>3
  <2> QED BY <2>4 DEF Accounted, InOrder
<1>6. CASE Continue \/ ConsumerExit \/ NothingToPop \/ Count
  <2>1. /\ UNCHANGED <<applied, queue, pitem, citem, ppc, made, lost>>
        /\ cpc # "apply" /\ cpc' # "apply"
    BY <1>6 DEF Continue, ConsumerExit, NothingToPop, Count, prodVars
  <2>2. Journey' = Journey
    BY <2>1 DEF Journey, Applying, Pushing
  <2> QED BY <1>0, <2>1, <2>2, SameJourney
<1>7. CASE Pop
  <2>1. /\ UNCHANGED <<applied, pitem, ppc, made, lost>>
        /\ citem' = Head(queue) /\ queue' = Tail(queue) /\ queue # <<>>
        /\ cpc = "pop" /\ cpc' = "apply"
    BY <1>7 DEF Pop, Queue!Get, prodVars
  <2>2. /\ Applying = <<>> /\ Applying' = <<Head(queue)>>
        /\ Pushing' = Pushing
    BY <2>1 DEF Applying, Pushing
  <2>3. /\ Head(queue) \in FeedUpdates /\ Tail(queue) \in Seq(FeedUpdates)
        /\ queue = <<Head(queue)>> \o Tail(queue)
    BY <1>0, <2>1, HeadAndTail
  <2>4. applied \o Applying = applied
    BY <1>0, <2>2, ConcatEmptySeq
  <2>5. applied \o <<Head(queue)>> \o Tail(queue) = applied \o queue
    <3> DEFINE h == <<Head(queue)>>  t == Tail(queue)
    <3>1. h \in Seq(FeedUpdates) /\ t \in Seq(FeedUpdates) /\ queue = h \o t
      BY <2>3
    <3> HIDE DEF h, t
    <3>2. (applied \o h) \o t = applied \o (h \o t)
      BY <1>0, <3>1, ConcatAssociative
    <3>3. (applied \o h) \o t = applied \o queue
      BY <3>1, <3>2
    <3> QED BY <3>3 DEF h, t
  <2>6. Journey' = Journey
    BY <2>1, <2>2, <2>4, <2>5 DEF Journey
  <2> QED BY <1>0, <2>1, <2>6, SameJourney
<1>8. CASE Apply
  <2>1. /\ UNCHANGED <<queue, pitem, ppc, made, lost>>
        /\ applied' = Append(applied, citem)
        /\ cpc = "apply" /\ cpc' = "count"
    BY <1>8 DEF Apply, prodVars
  <2>2. citem \in FeedUpdates
    BY <2>1 DEF FeedInv, Held
  <2>3. /\ Applying = <<citem>> /\ Applying' = <<>>
        /\ Pushing' = Pushing
    BY <2>1 DEF Applying, Pushing
  <2>4. applied' = applied \o <<citem>> /\ applied' \in Seq(FeedUpdates)
    BY <1>0, <2>1, <2>2, AppendIsConcat, AppendProperties
  <2>5. applied' \o Applying' = applied \o Applying
    BY <2>3, <2>4, ConcatEmptySeq
  <2>6. Journey' = Journey
    BY <2>1, <2>3, <2>5 DEF Journey
  <2> QED BY <1>0, <2>1, <2>6, SameJourney
<1>9. CASE UNCHANGED allVars
  <2>1. UNCHANGED <<applied, queue, pitem, citem, ppc, cpc, made, lost>>
    BY <1>9 DEF allVars, prodVars, consVars
  <2>2. Journey' = Journey
    BY <2>1 DEF Journey, Applying, Pushing
  <2> QED BY <1>0, <2>1, <2>2, SameJourney
<1> QED BY <1>1, <1>2, <1>3, <1>4, <1>5, <1>6, <1>7, <1>8, <1>9
        DEF FeedNext, Produce, Consume
-----------------------------------------------------------------------------
\* The invariant holds of every feed.
THEOREM FeedInductive == FeedSpec => []FeedInv
<1>1. FeedInv /\ [FeedNext]_allVars => FeedInv'
  <2> SUFFICES ASSUME FeedInv, [FeedNext]_allVars PROVE FeedInv'
    OBVIOUS
  <2>1. FeedTypeOK'
    BY StoreStep, QueueStep, PlacesStep, ItemsStep
       DEF FeedTypeOK, StoreType, QueueType, PlaceTypes, ItemTypes
  <2> QED BY <2>1, ItemsStep, ThreadsStep, CountingStep, LossesStep,
             AccountedStep DEF FeedInv
<1> QED BY FeedInitially, <1>1, PTL DEF FeedSpec

\* Every variable has its type; what is queued, popped and applied are updates.
THEOREM FeedTypeCorrect == FeedSpec => []FeedTypeOK
<1>1. FeedInv => FeedTypeOK
  BY DEF FeedInv
<1> QED BY FeedInductive, <1>1, PTL

\* Every update made is in one place, in the order of making, or given up.
THEOREM EveryUpdateAccounted == FeedSpec => []Accounted
<1>1. FeedInv => Accounted
  BY DEF FeedInv
<1> QED BY FeedInductive, <1>1, PTL

\* A stop() loses at most one update, however large the queue.
THEOREM OneLossEachStop == FeedSpec => []OneLossPerStop
<1>1. FeedInv => OneLossPerStop
  <2> SUFFICES ASSUME FeedInv PROVE OneLossPerStop
    OBVIOUS
  <2>1. Losses /\ runs \in Nat /\ Cardinality(lost) \in Nat
    BY FS_CardinalityType DEF FeedInv, FeedTypeOK, Losses
  <2> QED BY <2>1 DEF Losses, OneLossPerStop
<1> QED BY FeedInductive, <1>1, PTL

\* A stopped feed has counted every update that it applied.
THEOREM CountExact == FeedSpec => []CountSettled
<1>1. FeedInv => CountSettled
  <2> SUFFICES ASSUME FeedInv PROVE CountSettled
    OBVIOUS
  <2>1. Threads /\ Counting /\ Len(applied) \in Nat
    BY LenProperties DEF FeedInv, FeedTypeOK
  <2> QED BY <2>1 DEF Threads, Counting, CountSettled
<1> QED BY FeedInductive, <1>1, PTL

\* No start() creates a thread beside one of the run before.
THEOREM OneThread == FeedSpec => []OneThreadEach
<1>1. FeedInv => OneThreadEach
  BY DEF FeedInv, Threads, OneThreadEach
<1> QED BY FeedInductive, <1>1, PTL

\* The steps that a thread has left once running_ is FALSE, at most.
StepsOf == [producer |-> [exited |-> 0, loop |-> 1, enter |-> 2, refused |-> 2,
                          push |-> 3],
            consumer |-> [exited |-> 0, loop |-> 1, count |-> 2, apply |-> 3,
                          pop |-> 4]]
StepsLeft == StepsOf.producer[ppc] + StepsOf.consumer[cpc]

\* After stop() has cleared running_, every step of a thread brings the two
\* nearer to their end, whatever the queue holds: they take seven steps at
\* most, and the joins wait for no more than these.
THEOREM StoppedThreadsWindDown ==
  FeedSpec => [][~running_ /\ (Produce \/ Consume)
                   => StepsLeft' < StepsLeft /\ StepsLeft \in 0 .. 7]_allVars
<1>0. ASSUME FeedInv
      PROVE  /\ StepsOf.producer[ppc] \in 0 .. 3
             /\ StepsOf.consumer[cpc] \in 0 .. 4
  <2>1. PlaceTypes
    BY <1>0, TypeParts DEF FeedInv
  <2>2. /\ ppc \in {"exited", "enter", "loop", "push", "refused"}
        /\ cpc \in {"exited", "loop", "pop", "apply", "count"}
    BY <2>1 DEF PlaceTypes
  <2> QED BY <2>2 DEF StepsOf
<1>1. ASSUME FeedInv, ~running_, Produce
      PROVE  StepsLeft' < StepsLeft
  <2>1. cpc' = cpc
    BY <1>1 DEF Produce, Enter, Make, ProducerExit, Push, Refused, Yield,
                GiveUp, consVars
  <2>2. \/ ppc \in {"enter", "refused"} /\ ppc' \in {"loop", "exited"}
        \/ ppc = "loop" /\ ppc' = "exited"
        \/ ppc = "push" /\ ppc' \in {"loop", "refused"}
    BY <1>1 DEF Produce, Enter, Make, ProducerExit, Push, Refused, Yield,
                GivesUp, GiveUp
  <2>3. StepsOf.producer[ppc'] < StepsOf.producer[ppc]
        /\ StepsOf.producer[ppc'] \in Nat /\ StepsOf.producer[ppc] \in Nat
    BY <2>2 DEF StepsOf
  <2>4. StepsLeft' = StepsOf.producer[ppc'] + StepsOf.consumer[cpc]
    BY <2>1 DEF StepsLeft, StepsOf
  <2>5. StepsOf.consumer[cpc] \in Nat
    BY <1>0, <1>1
  <2> QED BY <2>3, <2>4, <2>5 DEF StepsLeft
<1>2. ASSUME FeedInv, ~running_, Consume
      PROVE  StepsLeft' < StepsLeft
  <2>1. ppc' = ppc
    BY <1>2 DEF Consume, Continue, ConsumerExit, Pop, NothingToPop, Apply,
                Count, prodVars
  <2>2. \/ cpc = "loop" /\ cpc' = "exited"
        \/ cpc = "pop" /\ cpc' \in {"apply", "loop"}
        \/ cpc = "apply" /\ cpc' = "count"
        \/ cpc = "count" /\ cpc' = "loop"
    BY <1>2 DEF Consume, Continue, ConsumerExit, Pop, NothingToPop, Apply, Count
  <2>3. StepsOf.consumer[cpc'] < StepsOf.consumer[cpc]
        /\ StepsOf.consumer[cpc'] \in Nat /\ StepsOf.consumer[cpc] \in Nat
    BY <2>2 DEF StepsOf
  <2>4. StepsLeft' = StepsOf.producer[ppc] + StepsOf.consumer[cpc']
    BY <2>1 DEF StepsLeft, StepsOf
  <2>5. StepsOf.producer[ppc] \in Nat
    BY <1>0, <1>2
  <2> QED BY <2>3, <2>4, <2>5 DEF StepsLeft
<1>3. ASSUME FeedInv
      PROVE  StepsLeft \in 0 .. 7
  BY <1>0, <1>3 DEF StepsLeft
<1>4. ASSUME FeedInv, [FeedNext]_allVars
      PROVE  [~running_ /\ (Produce \/ Consume)
                => StepsLeft' < StepsLeft /\ StepsLeft \in 0 .. 7]_allVars
  BY <1>1, <1>2, <1>3, <1>4
<1> QED BY FeedInductive, <1>4, PTL DEF FeedSpec

-----------------------------------------------------------------------------
(* The store and the live loop.                                            *)

\* The sequence number is odd exactly while a section is open.
Parity == locked <=> Odd(seq_)

\* Outside a section the arrays are the published ones, all stores done.
Quiet == ~locked => stores = {} /\ cells = published

\* A reader's number is an even one of the past or present.  While it is the
\* present one, what the reader has copied is what the arrays still hold.
Copying == \A r \in Readers :
             /\ rseq[r] <= seq_
             /\ ~Odd(rseq[r])
             /\ rpc[r] = "copy" /\ rseq[r] = seq_
                  => \A c \in Cells : c \notin todo[r] => copy[r][c] = cells[c]

IndInv == TypeOK /\ Parity /\ Quiet /\ Copying

-----------------------------------------------------------------------------
\* Adding one changes the parity of a sequence number.
LEMMA OddSucc == ASSUME NEW s \in Nat PROVE Odd(s + 1) <=> ~Odd(s)
BY DEF Odd

\* An asset the store takes an update of is one of its assets.
LEMMA TakenInRange ==
  ASSUME NEW u \in Updates, InRange(u.asset_id)
  PROVE  u.asset_id \in 0 .. Capacity - 1
<1>1. u.asset_id \in AssetIds
  BY DEF Updates
<1>2. u.asset_id \in Nat
  BY <1>1, StoreAssumption
<1> QED BY <1>2, StoreAssumption DEF InRange

\* The store as constructed satisfies the invariant.
LEMMA InitInductive == Init => IndInv
<1> SUFFICES ASSUME Init PROVE IndInv
  OBVIOUS
<1>1. ~Odd(0)
  BY DEF Odd
<1>2. TypeOK
  BY StoreAssumption DEF Init, TypeOK, Blank
<1>3. Parity /\ Quiet /\ Copying
  BY <1>1 DEF Init, Parity, Quiet, Copying
<1> QED BY <1>2, <1>3 DEF IndInv

\* No step of the writer or of a reader breaks the invariant.
LEMMA StepInductive == IndInv /\ [Next]_vars => IndInv'
<1> SUFFICES ASSUME IndInv, [Next]_vars PROVE IndInv'
  OBVIOUS
<1> USE DEF IndInv
<1>1. CASE WriteLock
  <2> USE <1>1 DEF WriteLock, Entered, readerVars
  <2>1. TypeOK'
    BY DEF TypeOK
  <2>2. seq_ \in Nat /\ (Odd(seq_') <=> ~Odd(seq_))
    BY OddSucc DEF TypeOK
  <2>3. Parity' /\ Quiet'
    BY <2>2 DEF Parity, Quiet
  <2>4. \A r \in Readers : rseq[r] \in Nat /\ rseq[r] < seq_'
    BY <2>2 DEF Copying, TypeOK
  <2>5. Copying'
    BY <2>2, <2>4 DEF Copying
  <2> QED BY <2>1, <2>3, <2>5
<1>2. ASSUME NEW u \in Updates, UpdateTick(u) PROVE IndInv'
  <2> USE <1>2 DEF UpdateTick, readerVars
  <2>1. TypeOK'
    <3>0. u.asset_id \in AssetIds /\ u.price \in Values /\ u.volume \in Values
      BY DEF Updates
    <3>1. u.asset_id \in 0 .. Capacity - 1
      BY TakenInRange
    <3>2. <<"price", u.asset_id>> \in Cells /\ <<"volume", u.asset_id>> \in Cells
      BY <3>1 DEF Cells
    <3>3. Assignments(u) \subseteq Cells \X Values
      BY <3>0, <3>2 DEF Assignments
    <3> QED BY <3>3 DEF TypeOK
  <2>2. Parity' /\ Quiet' /\ Copying'
    BY DEF Parity, Quiet, Copying
  <2> QED BY <2>1, <2>2
<1>3. ASSUME NEW c \in Cells, NEW v \in Values, StoreCell(c, v) PROVE IndInv'
  <2> USE <1>3 DEF StoreCell, readerVars
  <2>1. TypeOK'
    BY DEF TypeOK
  <2>2. locked
    BY DEF Quiet
  <2>3. Parity' /\ Quiet'
    BY <2>2 DEF Parity, Quiet
  <2>4. \A r \in Readers : rseq[r] # seq_
    BY <2>2 DEF Parity, Copying
  <2>5. Copying'
    BY <2>4 DEF Copying
  <2> QED BY <2>1, <2>3, <2>5
<1>4. CASE WriteUnlock
  <2> USE <1>4 DEF WriteUnlock, Left, readerVars
  <2>1. TypeOK'
    <3>1. seq_' \in Nat
      BY DEF TypeOK
    <3> QED BY <3>1 DEF TypeOK
  <2>2. seq_ \in Nat /\ (Odd(seq_') <=> ~Odd(seq_))
    BY OddSucc DEF TypeOK
  <2>3. Parity' /\ Quiet'
    BY <2>2 DEF Parity, Quiet
  <2>4. \A r \in Readers : rseq[r] \in Nat /\ rseq[r] < seq_'
    BY <2>2 DEF Copying, TypeOK
  <2>5. Copying'
    BY <2>2, <2>4 DEF Copying
  <2> QED BY <2>1, <2>3, <2>5
<1>5. ASSUME NEW r \in Readers, Call(r) PROVE IndInv'
  BY <1>5 DEF Call, writerVars, TypeOK, Parity, Quiet, Copying
<1>6. ASSUME NEW r \in Readers, ReadBegin(r) PROVE IndInv'
  BY <1>6 DEF ReadBegin, writerVars, TypeOK, Parity, Quiet, Copying
<1>7. ASSUME NEW r \in Readers, NEW c \in Cells, CopyCell(r, c) PROVE IndInv'
  <2> USE <1>7 DEF CopyCell, writerVars
  <2>1. TypeOK'
    BY DEF TypeOK
  <2>2. Parity' /\ Quiet'
    BY DEF Parity, Quiet
  <2>3. Copying'
    BY DEF Copying, TypeOK
  <2> QED BY <2>1, <2>2, <2>3
<1>8. ASSUME NEW r \in Readers, ReadRetry(r) PROVE IndInv'
  BY <1>8 DEF ReadRetry, writerVars, TypeOK, Parity, Quiet, Copying
<1>9. ASSUME NEW r \in Readers, Return(r) PROVE IndInv'
  BY <1>9 DEF Return, writerVars, TypeOK, Parity, Quiet, Copying
<1>10. CASE UNCHANGED vars
  BY <1>10 DEF vars, writerVars, readerVars, TypeOK, Parity, Quiet, Copying
<1>11. ASSUME NEW u \in Updates, UpdateIgnored(u) PROVE IndInv'
  BY <1>10, <1>11 DEF UpdateIgnored
<1> QED BY <1>1, <1>2, <1>3, <1>4, <1>5, <1>6, <1>7, <1>8, <1>9, <1>10, <1>11
        DEF Next, Write, Read

\* The invariant holds in every reachable state, for all constants.
THEOREM Inductive == Spec => []IndInv
BY InitInductive, StepInductive, PTL DEF Spec

\* For all constants the state of the store and its readers is well typed.
THEOREM TypeCorrect == Spec => []TypeOK
BY Inductive, PTL DEF IndInv

\* What a reader holds when read_retry is about to let it go.
LEMMA WholeCopy ==
  ASSUME IndInv, NEW r \in Readers,
         rpc[r] = "copy", todo[r] = {}, ~Changed(r)
  PROVE  ~locked /\ copy[r] = published
<1>1. rseq[r] = seq_
  BY DEF Changed
<1>2. ~locked
  BY <1>1 DEF IndInv, Parity, Copying
<1>3. \A c \in Cells : copy[r][c] = cells[c]
  BY <1>1 DEF IndInv, Copying
<1>4. cells = published
  BY <1>2 DEF IndInv, Quiet
<1> QED BY <1>2, <1>3, <1>4 DEF IndInv, TypeOK

\* For every number of assets and readers, whatever the writer does while a
\* reader copies, a snapshot that read_retry accepts is not torn.
THEOREM SnapshotsNotTorn == Spec => []NoTornRead
<1>1. IndInv => NoTornRead
  BY WholeCopy DEF NoTornRead
<1> QED BY Inductive, <1>1, PTL

\* For all constants each section is one publication, at write_unlock, and
\* each snapshot one reading of what is published, at the last read_retry.
THEOREM StoreIsAtomic == Spec => ImplementsAtomicStore
<1>1. Init => Atomic!Init
  BY DEF Init, Atomic!Init, Blank, Atomic!Blank
<1>2. IndInv /\ [Next]_vars => [Atomic!Next]_(Atomic!vars)
  <2> SUFFICES ASSUME IndInv, [Next]_vars
               PROVE  [Atomic!Next]_(Atomic!vars)
    OBVIOUS
  <2> USE DEF Atomic!vars
  <2>1. CASE WriteLock
    BY <2>1 DEF WriteLock, readerVars
  <2>2. ASSUME NEW u \in Updates, UpdateTick(u) \/ UpdateIgnored(u)
        PROVE  UNCHANGED Atomic!vars
    BY <2>2 DEF UpdateTick, UpdateIgnored, vars, writerVars, readerVars
  <2>3. ASSUME NEW c \in Cells, NEW v \in Values, StoreCell(c, v)
        PROVE  UNCHANGED Atomic!vars
    BY <2>3 DEF StoreCell, readerVars
  <2>4. CASE WriteUnlock
    BY <2>4 DEF WriteUnlock, readerVars, IndInv, TypeOK, Atomic!Next,
                Atomic!Publish
  <2>5. ASSUME NEW r \in Readers,
               Call(r) \/ ReadBegin(r) \/ ReadRetry(r) \/ \E c \in Cells : CopyCell(r, c)
        PROVE  UNCHANGED Atomic!vars
    BY <2>5 DEF Call, ReadBegin, ReadRetry, CopyCell, writerVars
  <2>6. ASSUME NEW r \in Readers, Return(r)
        PROVE  Atomic!Next
    <3>1. copy[r] = published
      BY <2>6, WholeCopy DEF Return
    <3> QED BY <2>6, <3>1 DEF Return, writerVars, Atomic!Next, Atomic!Take
  <2>7. CASE UNCHANGED vars
    BY <2>7 DEF vars, writerVars, readerVars
  <2> QED BY <2>1, <2>2, <2>3, <2>4, <2>5, <2>6, <2>7 DEF Next, Write, Read
<1> QED BY <1>1, Inductive, <1>2, PTL
        DEF Spec, ImplementsAtomicStore, Atomic!Spec

-----------------------------------------------------------------------------
\* The trading loop.

\* main is in a snapshot only where it has asked for one.
Settled == lpc # "snapshot" => rpc[main] = "idle"

\* While main is in a snapshot the present state of the store counts as seen.
PresentSeen == lpc = "snapshot" => published \in seen

\* When its snapshot has returned, main holds one of the states seen.
Fresh == lpc \in {"snapshot", "record"} /\ rpc[main] = "idle"
           => result[main] \in seen

LiveInv == IndInv /\ Settled /\ PresentSeen /\ Fresh

-----------------------------------------------------------------------------
\* A step of the section the feed is in is a step of the writer.
LEMMA SectionWrites == BeginSection \/ Section => Write \/ UNCHANGED vars
BY DEF BeginSection, Section, UpdateOnce, Write

\* A step of the writer leaves the readers alone.
LEMMA WriterKeepsReaders == Write \/ UNCHANGED vars => UNCHANGED readerVars
<1>1. Write => UNCHANGED readerVars
  BY DEF Write, WriteLock, UpdateTick, UpdateIgnored, StoreCell, WriteUnlock,
         vars
<1> QED BY <1>1 DEF vars

\* Every step of the loop is one of the store and its readers, or none.
LEMMA LiveStep == ASSUME [LiveNext]_<<vars, liveVars>> PROVE [Next]_vars
<1>1. CASE StartFeed \/ Record \/ TimeUp \/ StopFeed
  BY <1>1 DEF StartFeed, Record, TimeUp, StopFeed
<1>2. CASE BeginCycle
  BY <1>2, LiveAssumption DEF BeginCycle, CallSnapshot, Next
<1>3. CASE InSnapshot
  BY <1>3, LiveAssumption DEF InSnapshot, Next
<1>4. CASE InFeed(BeginSection) \/ InFeed(Section)
  BY <1>4, SectionWrites DEF InFeed, Next
<1> QED BY <1>1, <1>2, <1>3, <1>4 DEF LiveNext, MainSteps

\* A store without assets has one state.
LEMMA NoAssets == ASSUME Capacity = 0, IndInv PROVE result[main] = published
<1>1. Cells = {}
  <2>1. 0 .. Capacity - 1 = {}
    OBVIOUS
  <2> QED BY <2>1 DEF Cells
<1>2. result[main] \in [Cells -> Values] /\ published \in [Cells -> Values]
  BY LiveAssumption DEF IndInv, TypeOK
<1> QED BY <1>1, <1>2

\* The program as it begins satisfies the invariant.
LEMMA LiveInitInductive == LiveInit => LiveInv
BY InitInductive, LiveAssumption
   DEF LiveInit, LiveInv, Settled, PresentSeen, Fresh, Init

\* No step of main or of the feed breaks the invariant.
LEMMA LiveStepInductive ==
  LiveInv /\ [LiveNext]_<<vars, liveVars>> => LiveInv'
<1> SUFFICES ASSUME LiveInv, [LiveNext]_<<vars, liveVars>> PROVE LiveInv'
  OBVIOUS
<1> USE DEF LiveInv
<1>0. IndInv'
  BY LiveStep, StepInductive
<1>1. CASE StartFeed \/ TimeUp \/ StopFeed
  BY <1>0, <1>1 DEF StartFeed, TimeUp, StopFeed, vars, writerVars, readerVars,
                    Settled, PresentSeen, Fresh
<1>2. CASE BeginCycle
  <2>1. CASE Capacity = 0
    <3>1. result[main] = published
      BY <2>1, NoAssets
    <3>2. lpc' = "record" /\ seen' = {published} /\ UNCHANGED vars
      BY <1>2, <2>1 DEF BeginCycle, CallSnapshot
    <3>3. lpc = "test"
      BY <1>2 DEF BeginCycle
    <3> QED BY <1>0, <3>1, <3>2, <3>3
            DEF vars, writerVars, readerVars, Settled, PresentSeen, Fresh
  <2>2. CASE Capacity # 0
    <3>1. /\ lpc' = "snapshot" /\ seen' = {published}
          /\ published' = published /\ rpc' = [rpc EXCEPT ![main] = "begin"]
      BY <1>2, <2>2 DEF BeginCycle, CallSnapshot, Call, writerVars
    <3>2. rpc'[main] = "begin"
      BY <3>1, LiveAssumption DEF IndInv, TypeOK
    <3> QED BY <1>0, <3>1, <3>2 DEF Settled, PresentSeen, Fresh
  <2> QED BY <2>1, <2>2
<1>3. CASE Record
  BY <1>0, <1>3 DEF Record, vars, writerVars, readerVars,
                    Settled, PresentSeen, Fresh
<1>4. CASE InSnapshot
  <2>0. lpc' = lpc /\ seen' = seen /\ published' = published
    BY <1>4 DEF InSnapshot, liveVars, Read, ReadBegin, CopyCell, ReadRetry,
                Return, writerVars
  <2>1. rpc[main] # "idle"
    BY <1>4 DEF InSnapshot, Read, ReadBegin, CopyCell, ReadRetry, Return
  <2>2. lpc = "snapshot"
    BY <2>1 DEF Settled
  <2>3. Settled' /\ PresentSeen'
    BY <2>0, <2>2 DEF Settled, PresentSeen
  <2>4. rpc'[main] = "idle" => result'[main] \in seen
    <3>1. CASE Return(main)
      <4>1. copy[main] = published
        BY <3>1, WholeCopy, LiveAssumption DEF Return
      <4>2. result'[main] = copy[main]
        BY <3>1, LiveAssumption DEF Return, IndInv, TypeOK
      <4> QED BY <4>1, <4>2, <2>2 DEF PresentSeen
    <3>2. CASE ~Return(main)
      BY <3>2, <1>4, LiveAssumption
         DEF InSnapshot, Read, ReadBegin, CopyCell, ReadRetry, IndInv, TypeOK
    <3> QED BY <3>1, <3>2
  <2> QED BY <1>0, <2>0, <2>3, <2>4 DEF Fresh
<1>5. CASE InFeed(BeginSection) \/ InFeed(Section)
  <2>1. lpc' = lpc /\ rpc' = rpc /\ result' = result
    BY <1>5, SectionWrites, WriterKeepsReaders DEF InFeed, readerVars
  <2>2. seen \subseteq seen' /\ (lpc = "snapshot" => published' \in seen')
    BY <1>5 DEF InFeed
  <2> QED BY <1>0, <2>1, <2>2 DEF Settled, PresentSeen, Fresh
<1>6. CASE UNCHANGED <<vars, liveVars>>
  BY <1>0, <1>6 DEF vars, writerVars, readerVars, liveVars,
                    Settled, PresentSeen, Fresh
<1> QED BY <1>1, <1>2, <1>3, <1>4, <1>5, <1>6 DEF LiveNext, MainSteps

\* The invariant holds in every reachable state, for all constants.
THEOREM LiveInductive == LiveSpec => []LiveInv
BY LiveInitInductive, LiveStepInductive, PTL DEF LiveSpec

\* The loop is an instance of the store with its readers, so that all that is
\* proved of them holds beside the trading loop.
THEOREM LoopReadsStore == LiveSpec => Spec
<1>1. LiveInit => Init
  BY DEF LiveInit
<1>2. [LiveNext]_<<vars, liveVars>> => [Next]_vars
  BY LiveStep
<1> QED BY <1>1, <1>2, PTL DEF LiveSpec, Spec

\* For any number of assets and cycles, what a cycle adds to the metrics are
\* the signals of one state that the store had during this cycle.
THEOREM CyclesCountTheirState == LiveSpec => CyclesAreCurrent
<1> DEFINE Counts(s) == [cycles |-> metrics.cycles + 1,
                         buy |-> metrics.buy + Number(s, "buy"),
                         sell |-> metrics.sell + Number(s, "sell"),
                         hold |-> metrics.hold + Number(s, "hold")]
<1>1. LiveInv /\ [LiveNext]_<<vars, liveVars>>
        => [metrics' # metrics => \E s \in seen : metrics' = Counts(s)]_<<vars, liveVars>>
  <2> SUFFICES ASSUME LiveInv, LiveNext, metrics' # metrics
               PROVE  \E s \in seen : metrics' = Counts(s)
    OBVIOUS
  <2>1. Record
    BY DEF LiveNext, MainSteps, StartFeed, BeginCycle, TimeUp, StopFeed,
           InSnapshot, liveVars, InFeed
  <2>2. result[main] \in seen
    BY <2>1 DEF Record, LiveInv, Fresh
  <2>3. metrics' = Counts(result[main])
    BY <2>1 DEF Record, record_cycle, Added
  <2> QED BY <2>2, <2>3
<1> QED BY <1>1, LiveInductive, PTL DEF LiveSpec, CyclesAreCurrent
=============================================================================
