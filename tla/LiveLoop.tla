------------------------------ MODULE LiveLoop ------------------------------
(***************************************************************************)
(* main() of the live trading loop: it starts the feed, whose consumer is  *)
(* the writer of SnapshotStore, and then, until its time is up, takes a    *)
(* snapshot, scores every asset, makes signals and counts them.  It stops  *)
(* the feed at the end.                                                    *)
(***************************************************************************)
EXTENDS SnapshotStore, FiniteSetsExt

CONSTANTS main,       \* the thread, one of Readers
          Threshold,  \* the z-score beyond which a signal is given: 2
          MaxCycles   \* bound on the cycles until the time is up

ASSUME LiveAssumption == /\ main \in Readers
                         /\ Values \subseteq Int
                         /\ Threshold \in Nat /\ MaxCycles \in Nat

VARIABLES
  lpc,      \* where main is
  feeding,  \* the feed's threads have been started and not joined
  updated,  \* the consumer has applied the update of its section
  metrics,  \* LiveMetrics
  seen      \* history: the states of the store since the cycle began

liveVars == <<lpc, feeding, updated, metrics, seen>>

Assets == 0 .. Capacity - 1
-----------------------------------------------------------------------------
\* Slips: mutated forms of the definitions below, used to show that a
\* property notices them.

NoSnapshot == lpc' = "record" /\ UNCHANGED vars
CountsOn(old, n) == old + old + n
-----------------------------------------------------------------------------
(* A z-score is (price - mean) / deviation.  Scaled by the number of assets *)
(* both are integers, the deviation squared.                                *)
Deviation(s, a) ==
  Capacity * s[<<"price", a>>] - MapThenSumSet(LAMBDA b : s[<<"price", b>>], Assets)
Variance(s) ==
  MapThenSumSet(LAMBDA a : Deviation(s, a) * Deviation(s, a), Assets) \div Capacity
Beyond(s, a) ==
  Deviation(s, a) * Deviation(s, a) > Threshold * Threshold * Variance(s)

\* ZScoreStrategy: sell what is far above the others, buy what is far below.
Signal(s, a) == IF Beyond(s, a) /\ Deviation(s, a) > 0 THEN "sell"
                ELSE IF Beyond(s, a) /\ Deviation(s, a) < 0 THEN "buy"
                ELSE "hold"

Number(s, signal) == Cardinality({a \in Assets : Signal(s, a) = signal})

Added(old, n) == old + n

record_cycle(s) == [cycles |-> metrics.cycles + 1,
                    buy |-> Added(metrics.buy, Number(s, "buy")),
                    sell |-> Added(metrics.sell, Number(s, "sell")),
                    hold |-> Added(metrics.hold, Number(s, "hold"))]
-----------------------------------------------------------------------------
LiveInit == /\ Init
            /\ lpc = "start"
            /\ feeding = FALSE /\ updated = FALSE
            /\ metrics = [cycles |-> 0, buy |-> 0, sell |-> 0, hold |-> 0]
            /\ seen = {}

StartFeed == /\ lpc = "start"
             /\ lpc' = "test"
             /\ feeding' = TRUE
             /\ UNCHANGED <<vars, updated, metrics, seen>>

\* Without assets calculate_zscores_avx takes no snapshot.
CallSnapshot == IF Capacity = 0 THEN lpc' = "record" /\ UNCHANGED vars
                ELSE lpc' = "snapshot" /\ Call(main)

BeginCycle == /\ lpc = "test"
              /\ metrics.cycles < MaxCycles
              /\ CallSnapshot
              /\ seen' = {published}
              /\ UNCHANGED <<feeding, updated, metrics>>

\* What follows the snapshot reads and writes nothing that is shared.
Record == /\ lpc \in {"snapshot", "record"}
          /\ rpc[main] = "idle"
          /\ metrics' = record_cycle(result[main])
          /\ lpc' = "test"
          /\ seen' = {}
          /\ UNCHANGED <<vars, feeding, updated>>

TimeUp == /\ lpc = "test"
          /\ lpc' = "stop"
          /\ UNCHANGED <<vars, feeding, updated, metrics, seen>>

\* stop() joins the consumer, who leaves its loop outside a section.
StopFeed == /\ lpc = "stop"
            /\ ~locked
            /\ feeding' = FALSE
            /\ lpc' = "returned"
            /\ UNCHANGED <<vars, updated, metrics, seen>>

\* The consumer's sections have one update each.
UpdateOnce == /\ ~updated
              /\ \E u \in Updates : UpdateTick(u) \/ UpdateIgnored(u)
              /\ updated' = TRUE

Section == \/ UpdateOnce
           \/ (\E c \in Cells, v \in Values : StoreCell(c, v)) /\ UNCHANGED updated
           \/ updated /\ WriteUnlock /\ UNCHANGED updated

InFeed(action) == /\ feeding
                  /\ action
                  /\ seen' = IF lpc = "snapshot" THEN seen \cup {published'} ELSE seen
                  /\ UNCHANGED <<lpc, feeding, metrics>>

BeginSection == WriteLock /\ updated' = FALSE

InSnapshot == Read(main) /\ UNCHANGED liveVars

MainSteps == \/ StartFeed \/ BeginCycle \/ Record \/ TimeUp \/ StopFeed
             \/ InSnapshot

LiveNext == MainSteps \/ InFeed(BeginSection) \/ InFeed(Section)

\* main is scheduled, and the feed's consumer ends a section it has begun.
LiveSpec == /\ LiveInit /\ [][LiveNext]_<<vars, liveVars>>
            /\ WF_<<vars, liveVars>>(MainSteps)
            /\ WF_<<vars, liveVars>>(InFeed(Section))
-----------------------------------------------------------------------------
\* What a cycle adds to the metrics are the signals of one state that the
\* store had during this cycle: of no mixture of states, and of none that was
\* gone when the cycle began.
CyclesAreCurrent ==
  [][metrics' # metrics => \E s \in seen : metrics' = 
       [cycles |-> metrics.cycles + 1,
        buy |-> metrics.buy + Number(s, "buy"),
        sell |-> metrics.sell + Number(s, "sell"),
        hold |-> metrics.hold + Number(s, "hold")]]_<<vars, liveVars>>
=============================================================================
