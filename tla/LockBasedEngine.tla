-------------------------- MODULE LockBasedEngine --------------------------
(***************************************************************************)
(* main() of the lock-based trading engine: a producer thread pushes ticks *)
(* to a ThreadSafeQueue while running, a consumer thread takes and         *)
(* processes them while running, and main, when the user presses Enter,    *)
(* clears running and pushes a dummy tick for a consumer that may be       *)
(* asleep.  The threads are joined when main leaves its scope, the one     *)
(* declared last first.                                                    *)
(***************************************************************************)
EXTENDS ThreadSafeQueue

CONSTANTS Producer, Consumer, Main,   \* the threads
          Dummy,                      \* Tick{}
          MaxTicks                    \* bound on the ticks made

\* What the constants stand for.  A definition, to be assumed where the
\* program is meant: the queue by itself may have any threads and items.
EngineAssumption == /\ Threads = {Producer, Consumer, Main}
                    /\ Producer # Consumer /\ Producer # Main /\ Consumer # Main
                    /\ MaxTicks \in Nat
                    /\ Dummy \notin 1 .. MaxTicks
                    /\ Values = (1 .. MaxTicks) \cup {Dummy}
                    /\ MaxItems > MaxTicks

VARIABLES
  running,
  mpos,        \* the statement of Script that main is at
  ppc,         \* where the producer is: none, test, push, pushing, exited
  cpc,         \* where the consumer is: none, test, pop, popping, exited
  made,        \* the ticks made by sim.next_tick()
  processed    \* the ticks engine.process_tick() was called with

engineVars == <<running, mpos, ppc, cpc, made, processed>>
vars == <<qvars, engineVars>>

-----------------------------------------------------------------------------
\* Slips: mutated forms of the definitions below, used to show that a
\* property notices them.

NoDummy == <<"start producer", "start consumer", "get", "clear", "print",
             "join consumer", "join producer">>
DummyFirst == <<"start producer", "start consumer", "get", "dummy", "clear",
                "print", "join consumer", "join producer">>
-----------------------------------------------------------------------------
\* What main does, in order.
Script == <<"start producer", "start consumer", "get", "clear", "dummy",
            "print", "join consumer", "join producer">>

Done == Len(Script) + 1

Init == /\ QueueInit
        /\ running = TRUE
        /\ mpos = 1
        /\ ppc = "none"
        /\ cpc = "none"
        /\ made = 0
        /\ processed = <<>>

\* A call has returned.
Returned(t) == qpc[t] = "outside"

-----------------------------------------------------------------------------
\* main

AtStatement(statement) == /\ mpos < Done /\ Script[mpos] = statement
                          /\ Returned(Main)
                          /\ mpos' = mpos + 1

StartProducer == /\ AtStatement("start producer")
                 /\ ppc' = "test"
                 /\ UNCHANGED <<qvars, running, cpc, made, processed>>

StartConsumer == /\ AtStatement("start consumer")
                 /\ cpc' = "test"
                 /\ UNCHANGED <<qvars, running, ppc, made, processed>>

PressEnter == /\ AtStatement("get")
              /\ UNCHANGED <<qvars, running, ppc, cpc, made, processed>>

ClearRunning == /\ AtStatement("clear")
                /\ running' = FALSE
                /\ UNCHANGED <<qvars, ppc, cpc, made, processed>>

PushDummy == /\ AtStatement("dummy")
             /\ CallPush(Main, Dummy)
             /\ UNCHANGED <<running, ppc, cpc, made, processed>>

PrintStopped == /\ AtStatement("print")
                /\ UNCHANGED <<qvars, running, ppc, cpc, made, processed>>

JoinConsumer == /\ AtStatement("join consumer")
                /\ cpc = "exited"
                /\ UNCHANGED <<qvars, running, ppc, cpc, made, processed>>

JoinProducer == /\ AtStatement("join producer")
                /\ ppc = "exited"
                /\ UNCHANGED <<qvars, running, ppc, cpc, made, processed>>

-----------------------------------------------------------------------------
\* The producer thread.  The bound: when it has made MaxTicks ticks it sleeps
\* until running is cleared.

ProducerTests == /\ ppc = "test"
                 /\ running => made < MaxTicks
                 /\ ppc' = IF running THEN "push" ELSE "exited"
                 /\ UNCHANGED <<qvars, running, mpos, cpc, made, processed>>

ProducerPushes == /\ ppc = "push"
                  /\ CallPush(Producer, made + 1)
                  /\ made' = made + 1
                  /\ ppc' = "pushing"
                  /\ UNCHANGED <<running, mpos, cpc, processed>>

ProducerSleeps == /\ ppc = "pushing"
                  /\ Returned(Producer)
                  /\ ppc' = "test"
                  /\ UNCHANGED <<qvars, running, mpos, cpc, made, processed>>

-----------------------------------------------------------------------------
\* The consumer thread.

ConsumerTests == /\ cpc = "test"
                 /\ cpc' = IF running THEN "pop" ELSE "exited"
                 /\ UNCHANGED <<qvars, running, mpos, ppc, made, processed>>

ConsumerPops == /\ cpc = "pop"
                /\ CallWaitAndPop(Consumer)
                /\ cpc' = "popping"
                /\ UNCHANGED <<running, mpos, ppc, made, processed>>

ConsumerProcesses == /\ cpc = "popping"
                     /\ Returned(Consumer)
                     /\ processed' = Append(processed, value[Consumer])
                     /\ cpc' = "test"
                     /\ UNCHANGED <<qvars, running, mpos, ppc, made>>

-----------------------------------------------------------------------------
InQueue(t) == Step(t) /\ UNCHANGED engineVars
Wakeup == (\E t \in Threads : SpuriousWakeup(t)) /\ UNCHANGED engineVars

MainStep == \/ StartProducer \/ StartConsumer \/ ClearRunning \/ PushDummy
            \/ PrintStopped \/ JoinConsumer \/ JoinProducer
            \/ InQueue(Main)
ProducerStep == \/ ProducerTests \/ ProducerPushes \/ ProducerSleeps
                \/ InQueue(Producer)
ConsumerStep == \/ ConsumerTests \/ ConsumerPops \/ ConsumerProcesses
                \/ InQueue(Consumer)

Next == MainStep \/ ProducerStep \/ ConsumerStep \/ PressEnter \/ Wakeup

Spec == Init /\ [][Next]_vars

\* The threads are scheduled, and a thread that wants the mutex is not passed
\* over forever, which spurious wakeups of another could do.  The user need
\* not press Enter, and a thread that waits need not wake up of itself.
FairSpec == /\ Spec
            /\ WF_vars(MainStep) /\ WF_vars(ProducerStep) /\ WF_vars(ConsumerStep)
            /\ \A t \in Threads : SF_vars((Lock(t) \/ Relock(t)) /\ UNCHANGED engineVars)
-----------------------------------------------------------------------------
\* The ticks are processed in the order in which they were made, each once,
\* and the dummy tick, if it is processed at all, comes last: the consumer
\* never goes back to work on the ticks that were pushed after it.
ProcessedInOrder == \A i \in 1 .. Len(processed) :
                      /\ processed[i] \in {i, Dummy}
                      /\ processed[i] = Dummy => i = Len(processed)

\* Once running is cleared the program ends, wherever its threads are: the
\* dummy tick reaches a consumer that had tested running before and sleeps.
StopCompletes == ~running ~> mpos = Done
=============================================================================
