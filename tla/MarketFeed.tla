----------------------------- MODULE MarketFeed -----------------------------
(***************************************************************************)
(* The simulated feed of the cross-sectional engine: start() creates a     *)
(* producer thread that makes updates and pushes them to a LockFreeQueue   *)
(* and a consumer thread that pops them and applies them to the store;     *)
(* stop() clears running_ and joins both.  The owner may start it again:   *)
(* the queue, the store and the counter keep their contents.               *)
(*                                                                         *)
(* The queue is the channel of Fifo, which LockFreeQueue implements, and a *)
(* Seqlock section of the consumer is one step, as SnapshotStore shows.    *)
(* Updates are told apart by the order in which they were made; what the   *)
(* producer draws at random is left open.                                  *)
(***************************************************************************)
EXTENDS Integers, Sequences, FiniteSets

CONSTANTS QueueSize,   \* the argument queue_size of the constructor
          Capacities,  \* the capacities of the store to consider
          MaxUpdates,  \* bound on the updates made
          MaxRuns      \* bound on the calls of start()

ASSUME FeedAssumption == /\ QueueSize \in Nat
                         /\ Capacities \subseteq Nat
                         /\ MaxUpdates \in Nat
                         /\ MaxRuns \in Nat

VARIABLES
  capacity,           \* of the store; fixed
  store,              \* the update last applied to each asset, 0 if none
  queue,              \* the contents of queue_
  running_,
  updates_processed_,
  mpc,                \* where the owner is in start() or stop(), or free
  ppc,                \* where the producer thread is; exited also if none
  pitem,              \* the update it made last
  cpc,                \* where the consumer thread is; exited also if none
  citem,              \* the update it popped last
  runs,               \* history: calls of start() that started the threads
  made,               \* history: updates made
  applied,            \* history: the updates applied, in order
  lost                \* history: the updates given up in a refused push

feedVars == <<running_, mpc, runs>>
prodVars == <<ppc, pitem, made, lost>>
consVars == <<store, updates_processed_, cpc, citem, applied>>
allVars == <<capacity, queue, feedVars, prodVars, consVars>>

FeedUpdates == [asset : UNION {0 .. c - 1 : c \in Capacities},
                serial : 1 .. MaxUpdates]
NoUpdate == [asset |-> 0, serial |-> 0]

Queue == INSTANCE Fifo WITH Capacity <- QueueSize, Values <- FeedUpdates,
            NoValue <- NoUpdate, contents <- queue, received <- citem

-----------------------------------------------------------------------------
\* Slips: mutated forms of the definitions below, used to show that a
\* property notices them.

AlwaysExited(pc) == TRUE
RetriesForever == FALSE
GivesUpWhenFull == TRUE
CountsDown(n) == n - 1
DropsWhenFull == /\ ppc = "refused"
                 /\ running_
                 /\ ppc' = "loop"
                 /\ UNCHANGED <<capacity, queue, feedVars, pitem, made, lost,
                                consVars>>
ExitsWhenEmpty == /\ cpc = "pop"
                  /\ queue = <<>>
                  /\ cpc' = "exited"
                  /\ UNCHANGED <<capacity, queue, feedVars, prodVars, store,
                                 updates_processed_, citem, applied>>
-----------------------------------------------------------------------------
FeedInit == /\ capacity \in Capacities
            /\ store = [a \in 0 .. capacity - 1 |-> 0]
            /\ queue = <<>>
            /\ running_ = FALSE
            /\ updates_processed_ = 0
            /\ mpc = "free"
            /\ ppc = "exited" /\ pitem = NoUpdate
            /\ cpc = "exited" /\ citem = NoUpdate
            /\ runs = 0
            /\ made = 0
            /\ applied = <<>>
            /\ lost = {}

-----------------------------------------------------------------------------
\* The owner: start() and stop().  A start() while running_, and a stop()
\* (or a destruction) while not, return at once and change nothing.

Start == /\ mpc = "free"
         /\ ~running_
         /\ runs < MaxRuns
         /\ runs' = runs + 1
         /\ running_' = TRUE
         /\ mpc' = "create producer"
         /\ UNCHANGED <<capacity, queue, prodVars, consVars>>

CreateProducer == /\ mpc = "create producer"
                  /\ ppc' = "enter"
                  /\ mpc' = "create consumer"
                  /\ UNCHANGED <<capacity, queue, running_, runs, pitem, made,
                                 lost, consVars>>

CreateConsumer == /\ mpc = "create consumer"
                  /\ cpc' = "loop"
                  /\ mpc' = "free"
                  /\ UNCHANGED <<capacity, queue, running_, runs, prodVars,
                                 store, updates_processed_, citem, applied>>

Stop == /\ mpc = "free"
        /\ running_
        /\ running_' = FALSE
        /\ mpc' = "join producer"
        /\ UNCHANGED <<capacity, queue, runs, prodVars, consVars>>

Joinable(pc) == pc = "exited"

JoinProducer == /\ mpc = "join producer"
                /\ Joinable(ppc)
                /\ mpc' = "join consumer"
                /\ UNCHANGED <<capacity, queue, running_, runs, prodVars,
                               consVars>>

JoinConsumer == /\ mpc = "join consumer"
                /\ Joinable(cpc)
                /\ mpc' = "free"
                /\ UNCHANGED <<capacity, queue, running_, runs, prodVars,
                               consVars>>

-----------------------------------------------------------------------------
\* producer_loop

Enter == /\ ppc = "enter"
         /\ ppc' = IF capacity = 0 THEN "exited" ELSE "loop"
         /\ UNCHANGED <<capacity, queue, feedVars, pitem, made, lost, consVars>>

Make == /\ ppc = "loop"
        /\ running_
        /\ made < MaxUpdates
        /\ made' = made + 1
        /\ \E a \in 0 .. capacity - 1 :
             pitem' = [asset |-> a, serial |-> made + 1]
        /\ ppc' = "push"
        /\ UNCHANGED <<capacity, queue, feedVars, lost, consVars>>

ProducerExit == /\ ppc = "loop"
                /\ ~running_
                /\ ppc' = "exited"
                /\ UNCHANGED <<capacity, queue, feedVars, pitem, made, lost,
                               consVars>>

Push == /\ ppc = "push"
        /\ Queue!Put(pitem)
        /\ ppc' = "loop"
        /\ UNCHANGED <<capacity, feedVars, pitem, made, lost, store,
                       updates_processed_, cpc, applied>>

Refused == /\ ppc = "push"
           /\ Len(queue) = QueueSize
           /\ ppc' = "refused"
           /\ UNCHANGED <<capacity, queue, feedVars, pitem, made, lost,
                          consVars>>

\* The second conjunct of the loop around push: try again only while running.
GivesUp == ~running_

Yield == /\ ppc = "refused"
         /\ ~GivesUp
         /\ ppc' = "push"
         /\ UNCHANGED <<capacity, queue, feedVars, pitem, made, lost, consVars>>

GiveUp == /\ ppc = "refused"
          /\ GivesUp
          /\ lost' = lost \cup {pitem.serial}
          /\ ppc' = "loop"
          /\ UNCHANGED <<capacity, queue, feedVars, pitem, made, consVars>>

-----------------------------------------------------------------------------
\* consumer_loop

Continue == /\ cpc = "loop"
            /\ running_
            /\ cpc' = "pop"
            /\ UNCHANGED <<capacity, queue, feedVars, prodVars, store,
                           updates_processed_, citem, applied>>

ConsumerExit == /\ cpc = "loop"
                /\ ~running_
                /\ cpc' = "exited"
                /\ UNCHANGED <<capacity, queue, feedVars, prodVars, store,
                               updates_processed_, citem, applied>>

Pop == /\ cpc = "pop"
       /\ Queue!Get
       /\ cpc' = "apply"
       /\ UNCHANGED <<capacity, feedVars, prodVars, store, updates_processed_,
                      applied>>

NothingToPop == /\ cpc = "pop"
                /\ queue = <<>>
                /\ cpc' = "loop"
                /\ UNCHANGED <<capacity, queue, feedVars, prodVars, store,
                               updates_processed_, citem, applied>>

Apply == /\ cpc = "apply"
         /\ store' = [store EXCEPT ![citem.asset] = citem.serial]
         /\ applied' = Append(applied, citem)
         /\ cpc' = "count"
         /\ UNCHANGED <<capacity, queue, feedVars, prodVars,
                        updates_processed_, citem>>

Counted(n) == n + 1

Count == /\ cpc = "count"
         /\ updates_processed_' = Counted(updates_processed_)
         /\ cpc' = "loop"
         /\ UNCHANGED <<capacity, queue, feedVars, prodVars, store, citem,
                        applied>>

-----------------------------------------------------------------------------
Owner == CreateProducer \/ CreateConsumer \/ JoinProducer \/ JoinConsumer
Produce == Enter \/ Make \/ ProducerExit \/ Push \/ Refused \/ Yield \/ GiveUp
Consume == Continue \/ ConsumerExit \/ Pop \/ NothingToPop \/ Apply \/ Count

FeedNext == Start \/ Stop \/ Owner \/ Produce \/ Consume

FeedSpec == FeedInit /\ [][FeedNext]_allVars

\* The three threads are scheduled; nothing obliges the owner to call start()
\* or stop().
FairFeedSpec == /\ FeedSpec
                /\ WF_allVars(Owner) /\ WF_allVars(Produce)
                /\ WF_allVars(Consume)
-----------------------------------------------------------------------------
\* Every variable has its type.
FeedTypeOK ==
  /\ capacity \in Capacities
  /\ store \in [0 .. capacity - 1 -> Nat]
  /\ queue \in Seq(FeedUpdates) /\ Len(queue) <= QueueSize
  /\ running_ \in BOOLEAN
  /\ updates_processed_ \in Nat
  /\ mpc \in {"free", "create producer", "create consumer", "join producer",
              "join consumer"}
  /\ ppc \in {"exited", "enter", "loop", "push", "refused"}
  /\ pitem \in FeedUpdates \cup {NoUpdate}
  /\ cpc \in {"exited", "loop", "pop", "apply", "count"}
  /\ citem \in FeedUpdates \cup {NoUpdate}
  /\ runs \in Nat /\ made \in Nat
  /\ applied \in Seq(FeedUpdates)
  /\ lost \subseteq Nat

\* Where the updates are, from the first one applied to the last one made.
Applying == IF cpc = "apply" THEN <<citem>> ELSE <<>>
Pushing == IF ppc \in {"push", "refused"} THEN <<pitem>> ELSE <<>>
Journey == applied \o Applying \o queue \o Pushing

\* Every update made is in exactly one place, and in the order of making:
\* none is applied twice, overtaken, or dropped without being given up, over
\* any number of starts and stops.
Accounted ==
  /\ \A i, j \in 1 .. Len(Journey) : i < j => Journey[i].serial < Journey[j].serial
  /\ {Journey[i].serial : i \in 1 .. Len(Journey)} = (1 .. made) \ lost

\* A stop() costs at most one update, the one whose push was refused.
OneLossPerStop ==
  Cardinality(lost) <= IF running_ THEN runs - 1 ELSE runs

\* When stop() has returned, updates_processed_ is the number of updates
\* applied to the store: main_feed.cpp reads it then.
CountSettled ==
  mpc = "free" /\ ~running_ => updates_processed_ = Len(applied)

\* When start() creates the threads, those of the run before have ended: the
\* queue never has two producers or two consumers, and the Seqlock never two
\* writers, which neither of them could survive.
OneThreadEach ==
  /\ mpc = "create producer" => ppc = "exited"
  /\ mpc \in {"create producer", "create consumer"} => cpc = "exited"

\* stop() returns, be the queue full and the consumer gone already.
StopReturns == mpc = "join producer" ~> mpc = "free"

\* An update in the queue is applied unless the feed is stopped first.
UpdatesAreApplied ==
  \A n \in 1 .. MaxUpdates :
    (\E i \in 1 .. Len(queue) : queue[i].serial = n)
      ~> (~running_ \/ \E i \in 1 .. Len(applied) : applied[i].serial = n)

\* PERFORMANCE.md: "Producer blocks when queue fills (no packet drops -
\* guaranteed delivery)".
NoDrops == lost = {}
=============================================================================
