---------------------------- MODULE TickPrograms ----------------------------
(***************************************************************************)
(* The programs of the market data processor that poll their queue: the    *)
(* lock-free engine, which runs until the user presses Enter, and the two  *)
(* runs of the queue benchmark, which send NUM_TICKS ticks through either  *)
(* kind of queue and report their latencies.  A producer thread makes and  *)
(* pushes ticks, a consumer thread pops and processes them, main starts    *)
(* both and joins the one declared last first.                             *)
(*                                                                         *)
(* A tick is its serial number; its latency, a difference of two readings  *)
(* of a clock, is left open.  The queue is the channel of Fifo: one with   *)
(* RING_BUFFER_SIZE places, or a ThreadSafeQueue, which never is full.     *)
(***************************************************************************)
EXTENDS Integers, Sequences, FiniteSets

CONSTANTS NUM_TICKS,         \* of the benchmark, and a bound for the engine
          RING_BUFFER_SIZE,
          Latencies

ASSUME TicksAssumption == /\ NUM_TICKS \in Nat \ {0}
                          /\ RING_BUFFER_SIZE \in Nat \ {0}
                          /\ Latencies \subseteq Int

VARIABLES
  program,     \* which of the three this is; fixed
  queue,       \* the contents of the queue
  tick,        \* the tick popped last
  running,
  mpc,         \* what main does next
  ppc,         \* where the producer is; none before it is created
  cpc,         \* where the consumer is
  made,        \* the ticks made by sim.next_tick()
  processed,   \* the consumer's counter
  latencies_,  \* of the SignalEngine
  report,      \* what write_latency_report printed
  rows,        \* the lines of the exported file
  arrived,     \* history: the ticks processed and their latencies
  lost         \* history: the ticks given up in a refused push

prodVars == <<ppc, made, lost>>
consVars == <<tick, cpc, processed, latencies_, arrived>>
mainVars == <<running, mpc, report, rows>>
vars == <<program, queue, prodVars, consVars, mainVars>>

Programs == {"engine", "lock-free benchmark", "lock-based benchmark"}
Engine == program = "engine"

\* What std::sort makes of a sequence: the same latencies, in ascending order.
Times(s, v) == Cardinality({n \in DOMAIN s : s[n] = v})
Ascending(s) ==
  CHOOSE r \in [DOMAIN s -> Latencies] :
    /\ \A k, n \in DOMAIN s : k < n => r[k] <= r[n]
    /\ \A v \in Latencies : Times(r, v) = Times(s, v)
-----------------------------------------------------------------------------
\* Slips: mutated forms of the definitions below, used to show that a
\* property notices them.

RetriesForever == FALSE
GivesUpAtOnce == TRUE
CountsPolls(found) == processed + 1
SortedInPlace == Ascending(latencies_)
-----------------------------------------------------------------------------
\* make_queue: the ThreadSafeQueue takes all ticks.
RingBuffer == INSTANCE Fifo WITH Capacity <- RING_BUFFER_SIZE,
                Values <- 1 .. NUM_TICKS, NoValue <- 0,
                contents <- queue, received <- tick
LockedQueue == INSTANCE Fifo WITH Capacity <- NUM_TICKS,
                 Values <- 1 .. NUM_TICKS, NoValue <- 0,
                 contents <- queue, received <- tick

Locked == program = "lock-based benchmark"

Init == /\ program \in Programs
        /\ RingBuffer!Init
        /\ running = TRUE
        /\ mpc = "start producer" /\ ppc = "none" /\ cpc = "none"
        /\ made = 0 /\ processed = 0 /\ latencies_ = <<>>
        /\ report = <<>> /\ rows = <<>>
        /\ arrived = <<>> /\ lost = {}
-----------------------------------------------------------------------------
\* main, run_simulation

MainGoes(from, to) == /\ mpc = from
                      /\ mpc' = to
                      /\ UNCHANGED <<program, queue, tick, made, processed,
                                     latencies_, arrived, lost>>

StartProducer == /\ MainGoes("start producer", "start consumer")
                 /\ ppc' = "test"
                 /\ UNCHANGED <<cpc, running, report, rows>>

StartConsumer == /\ MainGoes("start consumer",
                             IF Engine THEN "get" ELSE "join consumer")
                 /\ cpc' = "test"
                 /\ UNCHANGED <<ppc, running, report, rows>>

PressEnter == /\ MainGoes("get", "join consumer")
              /\ running' = FALSE
              /\ UNCHANGED <<ppc, cpc, report, rows>>

JoinConsumer == /\ MainGoes("join consumer", "join producer")
                /\ cpc = "exited"
                /\ UNCHANGED <<ppc, cpc, running, report, rows>>

JoinProducer == /\ MainGoes("join producer",
                            IF Engine THEN "returned" ELSE "report")
                /\ ppc = "exited"
                /\ UNCHANGED <<ppc, cpc, running, report, rows>>

\* Percentiles are read from a sorted copy: position n * 0.50 counts from 0.
Sorted == Ascending(latencies_)
Percentile(percent) == Sorted[(Len(Sorted) * percent) \div 100 + 1]
Percents == {50, 90, 99}

LatenciesReported == latencies_

write_latency_report ==
  /\ mpc = "report"
  /\ mpc' = "export"
  /\ report' = IF latencies_ = <<>> THEN <<>>
               ELSE [p \in Percents |-> Percentile(p)]
  /\ latencies_' = LatenciesReported
  /\ UNCHANGED <<program, queue, prodVars, tick, cpc, processed, arrived,
                 running, rows>>

\* Without a latency, or when the file cannot be opened, nothing is written.
export_latencies_csv ==
  /\ MainGoes("export", "returned")
  /\ rows' \in {latencies_, <<>>}
  /\ UNCHANGED <<ppc, cpc, running, report>>
-----------------------------------------------------------------------------
\* The producer.  The engine's is bound to make no more than NUM_TICKS ticks.

ProducerGoes(from, to) == /\ ppc = from
                          /\ ppc' = to
                          /\ UNCHANGED <<program, consVars, mainVars>>

Make == /\ ProducerGoes("test", "push")
        /\ Engine => running
        /\ made < NUM_TICKS
        /\ made' = made + 1
        /\ UNCHANGED <<queue, lost>>

ProducerExit == /\ ProducerGoes("test", "exited")
                /\ IF Engine THEN ~running ELSE made = NUM_TICKS
                /\ UNCHANGED <<queue, made, lost>>

Push == /\ ppc = "push"
        /\ IF Locked THEN LockedQueue!Put(made) ELSE RingBuffer!Put(made)
        /\ ppc' = "test"
        /\ UNCHANGED <<program, made, lost, cpc, processed, latencies_, arrived,
                       mainVars>>

Refused == /\ ProducerGoes("push", "refused")
           /\ ~Locked /\ Len(queue) = RING_BUFFER_SIZE
           /\ UNCHANGED <<queue, made, lost>>

\* The engine tries again only while running, push_unified always.
GivesUp == Engine /\ ~running

Retry == /\ ProducerGoes("refused", "push")
         /\ ~GivesUp
         /\ UNCHANGED <<queue, made, lost>>

GiveUp == /\ ProducerGoes("refused", "test")
          /\ GivesUp
          /\ lost' = lost \cup {made}
          /\ UNCHANGED <<queue, made>>
-----------------------------------------------------------------------------
\* The consumer.

Counted(found) == IF found THEN processed + 1 ELSE processed
MorePolls == IF Engine THEN running ELSE processed < NUM_TICKS

ConsumerTests == /\ cpc = "test"
                 /\ cpc' = IF MorePolls THEN "pop" ELSE "exited"
                 /\ UNCHANGED <<program, queue, prodVars, tick, processed,
                                latencies_, arrived, mainVars>>

Pop == /\ cpc = "pop"
       /\ RingBuffer!Get
       /\ cpc' = "process"
       /\ UNCHANGED <<program, prodVars, processed, latencies_, arrived,
                      mainVars>>

NothingToPop == /\ cpc = "pop"
                /\ queue = <<>>
                /\ cpc' = "test"
                /\ processed' = Counted(FALSE)
                /\ UNCHANGED <<program, queue, prodVars, tick, latencies_,
                               arrived, mainVars>>

process_tick(latency) ==
  /\ cpc = "process"
  /\ latencies_' = Append(latencies_, latency)
  /\ arrived' = Append(arrived, [tick |-> tick, latency |-> latency])
  /\ processed' = Counted(TRUE)
  /\ cpc' = "test"
  /\ UNCHANGED <<program, queue, prodVars, tick, mainVars>>
-----------------------------------------------------------------------------
MainRuns == \/ StartProducer \/ StartConsumer \/ JoinConsumer \/ JoinProducer
            \/ write_latency_report \/ export_latencies_csv
Produce == Make \/ ProducerExit \/ Push \/ Refused \/ Retry \/ GiveUp
Consume == \/ ConsumerTests \/ Pop \/ NothingToPop
           \/ \E l \in Latencies : process_tick(l)

Next == MainRuns \/ PressEnter \/ Produce \/ Consume

Spec == Init /\ [][Next]_vars

\* The three threads are scheduled; the user need not press Enter.
FairSpec == /\ Spec
            /\ WF_vars(MainRuns) /\ WF_vars(Produce) /\ WF_vars(Consume)
-----------------------------------------------------------------------------
\* Where the ticks are, from the first one processed to the last one made.
Journey == [n \in 1 .. Len(arrived) |-> arrived[n].tick]
             \o (IF cpc = "process" THEN <<tick>> ELSE <<>>)
             \o queue
             \o (IF ppc \in {"push", "refused"} THEN <<made>> ELSE <<>>)

\* Every tick made is in one place, in the order of making, and none is
\* processed twice.  The only one that can be given up is the last that an
\* engine made, once it is stopped; the benchmarks lose none.
TicksInOrder ==
  /\ Journey \in {[n \in 1 .. made |-> n], [n \in 1 .. made - 1 |-> n]}
  /\ Len(Journey) < made => Engine /\ ~running /\ lost = {made}

\* What a benchmark reports comes after both threads have ended, is about all
\* ticks, has the percentiles of their latencies, and the exported rows are in
\* the order of arrival, which the percentiles do without.
Share(percent) == (percent * NUM_TICKS) \div 100

ReportsAllTicks ==
  mpc = "returned" /\ ~Engine =>
    /\ ppc = "exited" /\ cpc = "exited" /\ queue = <<>>
    /\ Len(arrived) = NUM_TICKS
    /\ rows # <<>> => rows = [n \in 1 .. NUM_TICKS |-> arrived[n].latency]
    /\ \A p \in Percents :
         LET ticks == 1 .. NUM_TICKS IN
         /\ Cardinality({n \in ticks : arrived[n].latency < report[p]}) <= Share(p)
         /\ Cardinality({n \in ticks : arrived[n].latency <= report[p]}) > Share(p)

\* The benchmarks end, and so does the engine when the user presses Enter, be
\* the queue full and the consumer gone already.
ProgramEnds == (~Engine \/ ~running) ~> mpc = "returned"
=============================================================================
