------------------------ MODULE TickProgramsProofs --------------------------
(***************************************************************************)
(* Proofs about TickPrograms: in the engine and in both benchmarks, for    *)
(* every number of ticks, size of the ring buffer and set of latencies,    *)
(* the ticks stay in the order in which they were made, and only the last  *)
(* one of a stopped engine can be missing.  What a benchmark reports is    *)
(* about all of its ticks; this part begins with what sorting does.        *)
(***************************************************************************)
EXTENDS TickPrograms, FiniteSetTheorems, SequenceTheorems, TLAPS

(***************************************************************************)
(* The inductive invariant says where a tick is by its number: those that  *)
(* have arrived come first, then the one in the consumer's hand, those in  *)
(* the queue, and the one in the producer's hand.                          *)
(***************************************************************************)
Pushing == ppc \in {"push", "refused"}
Taken == IF cpc = "process" THEN Len(arrived) + 1 ELSE Len(arrived)
Pushed == Taken + Len(queue)

Types == /\ program \in Programs /\ running \in BOOLEAN
         /\ made \in Nat /\ tick \in Nat
         /\ queue \in Seq(Nat)
         /\ arrived \in Seq([tick : Nat, latency : Int])

Numbered == /\ \A n \in 1 .. Len(arrived) : arrived[n].tick = n
            /\ cpc = "process" => tick = Taken
            /\ \A n \in 1 .. Len(queue) : queue[n] = Taken + n

LastMade == IF Pushing
              THEN made = Pushed + 1 /\ lost = {}
              ELSE \/ made = Pushed /\ lost = {}
                   \/ made = Pushed + 1 /\ lost = {made} /\ Engine /\ ~running

IndInv == Types /\ Numbered /\ LastMade
-----------------------------------------------------------------------------
\* The invariant holds when the program starts.
LEMMA InitInductive == Init => IndInv
<1> SUFFICES ASSUME Init PROVE IndInv
  OBVIOUS
<1>1. /\ queue = <<>> /\ arrived = <<>> /\ tick = 0 /\ made = 0 /\ lost = {}
      /\ running = TRUE /\ ppc = "none" /\ cpc = "none" /\ program \in Programs
  BY DEF Init, RingBuffer!Init
<1>2. \A S : <<>> \in Seq(S)
  OBVIOUS
<1>3. Len(<<>>) = 0 /\ 1 .. 0 = {}
  OBVIOUS
<1> QED BY <1>1, <1>2, <1>3
        DEF IndInv, Types, Numbered, LastMade, Pushing, Taken, Pushed

\* What a step of main, and a test of a thread, leaves alone.
Unmoved == /\ UNCHANGED <<program, queue, tick, made, arrived, lost>>
           /\ running' = running \/ running' = FALSE
           /\ Pushing <=> Pushing'
           /\ cpc = "process" <=> cpc' = "process"

LEMMA UnmovedStep == IndInv /\ Unmoved => IndInv'
<1> SUFFICES ASSUME IndInv, Unmoved PROVE IndInv'
  OBVIOUS
<1>1. Taken' = Taken
  BY DEF Unmoved, Taken
<1>2. Pushed' = Pushed
  BY <1>1 DEF Unmoved, Pushed
<1>3. Types'
  BY DEF IndInv, Types, Unmoved
<1>4. Numbered'
  BY <1>1 DEF IndInv, Numbered, Unmoved
<1>5. LastMade'
  BY <1>2 DEF IndInv, LastMade, Unmoved, Engine
<1> QED BY <1>3, <1>4, <1>5 DEF IndInv

\* A thread that main creates holds nothing yet.
NotCreated == /\ mpc = "start producer" => ppc = "none"
              /\ mpc \in {"start producer", "start consumer"} => cpc = "none"

LEMMA CreatedOnce == Spec => []NotCreated
<1>1. Init => NotCreated
  BY DEF Init, NotCreated
<1>2. NotCreated /\ [Next]_vars => NotCreated'
  <2> SUFFICES ASSUME NotCreated, [Next]_vars PROVE NotCreated'
    OBVIOUS
  <2>1. CASE MainRuns \/ PressEnter
    BY <2>1 DEF NotCreated, MainRuns, PressEnter, StartProducer, StartConsumer,
       JoinConsumer, JoinProducer, write_latency_report, export_latencies_csv,
       MainGoes, prodVars, Engine
  <2>2. CASE Produce
    BY <2>2 DEF NotCreated, Produce, Make, ProducerExit, Push, Refused, Retry,
       GiveUp, ProducerGoes, consVars, mainVars
  <2>3. CASE Consume
    BY <2>3 DEF NotCreated, Consume, ConsumerTests, Pop, NothingToPop,
       process_tick, prodVars, mainVars
  <2>4. CASE UNCHANGED vars
    BY <2>4 DEF NotCreated, vars, prodVars, consVars, mainVars
  <2> QED BY <2>1, <2>2, <2>3, <2>4 DEF Next
<1> QED BY <1>1, <1>2, PTL DEF Spec

\* main, the tests of the threads and a refused push move no tick.
LEMMA MainMovesNothing ==
  NotCreated /\ (MainRuns \/ PressEnter) => Unmoved
<1> SUFFICES ASSUME NotCreated, MainRuns \/ PressEnter PROVE Unmoved
  OBVIOUS
<1>1. UNCHANGED <<program, queue, tick, made, arrived, lost>>
  BY DEF MainRuns, PressEnter, StartProducer, StartConsumer, JoinConsumer,
         JoinProducer, write_latency_report, export_latencies_csv, MainGoes,
         prodVars
<1>2. /\ running' = running \/ running' = FALSE
      /\ ppc' = ppc \/ (ppc = "none" /\ ppc' = "test")
      /\ cpc' = cpc \/ (cpc = "none" /\ cpc' = "test")
  BY DEF NotCreated, MainRuns, PressEnter, StartProducer, StartConsumer,
         JoinConsumer, JoinProducer, write_latency_report,
         export_latencies_csv, MainGoes, prodVars
<1> QED BY <1>1, <1>2 DEF Unmoved, Pushing

LEMMA TestsMoveNothing ==
  ProducerExit \/ Refused \/ Retry \/ ConsumerTests \/ NothingToPop => Unmoved
<1>1. ASSUME ProducerExit \/ Refused \/ Retry PROVE Unmoved
  BY <1>1 DEF ProducerExit, Refused, Retry, ProducerGoes, consVars, mainVars,
              Unmoved, Pushing
<1>2. ASSUME ConsumerTests \/ NothingToPop PROVE Unmoved
  <2>1. cpc = "test" \/ cpc = "pop"
    BY <1>2 DEF ConsumerTests, NothingToPop
  <2>2. cpc' \in {"test", "pop", "exited"}
    BY <1>2 DEF ConsumerTests, NothingToPop
  <2>3. /\ UNCHANGED <<program, queue, tick, made, arrived, lost, running, ppc>>
    BY <1>2 DEF ConsumerTests, NothingToPop, prodVars, mainVars
  <2> QED BY <2>1, <2>2, <2>3 DEF Unmoved, Pushing
<1> QED BY <1>1, <1>2

\* A new tick has the next number.
LEMMA MakeStep == IndInv /\ Make => IndInv'
<1> SUFFICES ASSUME IndInv, Make PROVE IndInv'
  OBVIOUS
<1>1. /\ UNCHANGED <<program, queue, tick, arrived, lost, cpc, running>>
      /\ ppc = "test" /\ ppc' = "push" /\ made' = made + 1
      /\ Engine => running
  BY DEF Make, ProducerGoes, consVars, mainVars
<1>2. Taken' = Taken /\ Pushed' = Pushed
  BY <1>1 DEF Taken, Pushed
<1>3. made = Pushed /\ lost = {}
  BY <1>1 DEF IndInv, LastMade, Pushing
<1>4. Types' /\ Numbered'
  BY <1>1, <1>2 DEF IndInv, Types, Numbered
<1>5. LastMade'
  BY <1>1, <1>2, <1>3 DEF LastMade, Pushing
<1> QED BY <1>4, <1>5 DEF IndInv

\* It goes to the end of the queue.
LEMMA PushStep == IndInv /\ Push => IndInv'
<1> SUFFICES ASSUME IndInv, Push PROVE IndInv'
  OBVIOUS
<1>1. /\ UNCHANGED <<program, tick, arrived, lost, cpc, running, made>>
      /\ ppc = "push" /\ ppc' = "test"
      /\ queue' = Append(queue, made)
  BY DEF Push, RingBuffer!Put, LockedQueue!Put, mainVars
<1>2. /\ queue \in Seq(Nat) /\ made \in Nat /\ Len(queue) \in Nat
      /\ Len(arrived) \in Nat
  BY LenProperties DEF IndInv, Types
<1>3. /\ queue' \in Seq(Nat) /\ Len(queue') = Len(queue) + 1
      /\ queue'[Len(queue) + 1] = made
      /\ \A n \in 1 .. Len(queue) : queue'[n] = queue[n]
  BY <1>1, <1>2, AppendProperties
<1>4. Taken' = Taken /\ Taken \in Nat
  BY <1>1, <1>2 DEF Taken
<1>5. Pushed' = Pushed + 1 /\ Pushed = Taken + Len(queue)
  BY <1>2, <1>3, <1>4 DEF Pushed
<1>6. made = Pushed + 1 /\ lost = {}
  BY <1>1 DEF IndInv, LastMade, Pushing
<1>7. \A n \in 1 .. Len(queue') : queue'[n] = Taken + n
  <2> SUFFICES ASSUME NEW n \in 1 .. Len(queue') PROVE queue'[n] = Taken + n
    OBVIOUS
  <2>1. CASE n = Len(queue) + 1
    BY <1>2, <1>3, <1>4, <1>5, <1>6, <2>1
  <2>2. CASE n \in 1 .. Len(queue)
    BY <1>3, <2>2 DEF IndInv, Numbered
  <2> QED BY <1>2, <1>3, <2>1, <2>2
<1>8. Types' /\ Numbered'
  BY <1>1, <1>3, <1>4, <1>7 DEF IndInv, Types, Numbered
<1>9. LastMade'
  BY <1>1, <1>5, <1>6 DEF LastMade, Pushing
<1> QED BY <1>8, <1>9 DEF IndInv

\* Only a stopped engine gives up, and only the last tick.
LEMMA GiveUpStep == IndInv /\ GiveUp => IndInv'
<1> SUFFICES ASSUME IndInv, GiveUp PROVE IndInv'
  OBVIOUS
<1>1. /\ UNCHANGED <<program, queue, tick, arrived, cpc, running, made>>
      /\ ppc = "refused" /\ ppc' = "test" /\ lost' = lost \cup {made}
      /\ Engine /\ ~running
  BY DEF GiveUp, GivesUp, ProducerGoes, consVars, mainVars
<1>2. Taken' = Taken /\ Pushed' = Pushed
  BY <1>1 DEF Taken, Pushed
<1>3. made = Pushed + 1 /\ lost' = {made}
  BY <1>1 DEF IndInv, LastMade, Pushing
<1>4. Types' /\ Numbered'
  BY <1>1, <1>2 DEF IndInv, Types, Numbered
<1>5. LastMade'
  BY <1>1, <1>2, <1>3 DEF LastMade, Pushing, Engine
<1> QED BY <1>4, <1>5 DEF IndInv

\* The consumer takes the tick that is next.
LEMMA PopStep == IndInv /\ Pop => IndInv'
<1> SUFFICES ASSUME IndInv, Pop PROVE IndInv'
  OBVIOUS
<1>1. /\ UNCHANGED <<program, arrived, lost, ppc, running, made>>
      /\ cpc = "pop" /\ cpc' = "process" /\ queue # <<>>
      /\ tick' = Head(queue) /\ queue' = Tail(queue)
  BY DEF Pop, RingBuffer!Get, prodVars, mainVars
<1>2. /\ queue \in Seq(Nat) /\ Len(queue) \in Nat /\ Len(arrived) \in Nat
      /\ Len(queue) > 0
  BY <1>1, LenProperties, EmptySeq DEF IndInv, Types
<1>3. /\ queue' \in Seq(Nat) /\ Len(queue') = Len(queue) - 1
      /\ \A n \in 1 .. Len(queue') : queue'[n] = queue[n + 1]
      /\ tick' \in Nat /\ tick' = queue[1]
  BY <1>1, <1>2, HeadTailProperties
<1>4. Taken' = Taken + 1 /\ Taken \in Nat
  BY <1>1, <1>2 DEF Taken
<1>5. Pushed' = Pushed
  BY <1>2, <1>3, <1>4 DEF Pushed
<1>6. \A n \in 1 .. Len(queue) : queue[n] = Taken + n
  BY DEF IndInv, Numbered
<1>7. tick' = Taken'
  BY <1>2, <1>3, <1>4, <1>6
<1>8. \A n \in 1 .. Len(queue') : queue'[n] = Taken' + n
  BY <1>2, <1>3, <1>4, <1>6
<1>9. Types'
  BY <1>1, <1>3 DEF IndInv, Types
<1>10. Numbered'
  BY <1>1, <1>7, <1>8 DEF IndInv, Numbered
<1>11. LastMade'
  BY <1>1, <1>5 DEF IndInv, LastMade, Pushing, Engine
<1> QED BY <1>9, <1>10, <1>11 DEF IndInv

\* It arrives after those before it.
LEMMA ProcessStep ==
  ASSUME IndInv, NEW l \in Latencies, process_tick(l)
  PROVE  IndInv'
<1>1. /\ UNCHANGED <<program, queue, tick, lost, ppc, running, made>>
      /\ cpc = "process" /\ cpc' = "test"
      /\ arrived' = Append(arrived, [tick |-> tick, latency |-> l])
  BY DEF process_tick, prodVars, mainVars
<1>2. /\ [tick |-> tick, latency |-> l] \in [tick : Nat, latency : Int]
      /\ arrived \in Seq([tick : Nat, latency : Int])
      /\ Len(arrived) \in Nat /\ Len(queue) \in Nat
  BY TicksAssumption, LenProperties DEF IndInv, Types
<1>3. /\ arrived' \in Seq([tick : Nat, latency : Int])
      /\ Len(arrived') = Len(arrived) + 1
      /\ arrived'[Len(arrived) + 1] = [tick |-> tick, latency |-> l]
      /\ \A n \in 1 .. Len(arrived) : arrived'[n] = arrived[n]
  BY <1>1, <1>2, AppendProperties
<1>4. Taken = Len(arrived) + 1 /\ Taken' = Taken
  BY <1>1, <1>3 DEF Taken
<1>5. Pushed' = Pushed
  BY <1>1, <1>4 DEF Pushed
<1>6. \A n \in 1 .. Len(arrived') : arrived'[n].tick = n
  <2> SUFFICES ASSUME NEW n \in 1 .. Len(arrived') PROVE arrived'[n].tick = n
    OBVIOUS
  <2>1. CASE n = Len(arrived) + 1
    <3>1. tick = n
      BY <1>1, <1>4, <2>1 DEF IndInv, Numbered
    <3>2. arrived'[n] = [tick |-> tick, latency |-> l]
      BY <1>3, <2>1
    <3> QED BY <3>1, <3>2
  <2>2. CASE n \in 1 .. Len(arrived)
    BY <1>3, <2>2 DEF IndInv, Numbered
  <2> QED BY <1>2, <1>3, <2>1, <2>2
<1>7. Types'
  BY <1>1, <1>3 DEF IndInv, Types
<1>8. Numbered'
  BY <1>1, <1>4, <1>6 DEF IndInv, Numbered
<1>9. LastMade'
  BY <1>1, <1>5 DEF IndInv, LastMade, Pushing, Engine
<1> QED BY <1>7, <1>8, <1>9 DEF IndInv

\* The invariant holds in every reachable state, for all constants.
THEOREM Inductive == Spec => []IndInv
<1>1. IndInv /\ NotCreated /\ [Next]_vars => IndInv'
  <2> SUFFICES ASSUME IndInv, NotCreated, [Next]_vars PROVE IndInv'
    OBVIOUS
  <2>1. CASE MainRuns \/ PressEnter
    BY <2>1, MainMovesNothing, UnmovedStep
  <2>2. CASE ProducerExit \/ Refused \/ Retry \/ ConsumerTests \/ NothingToPop
    BY <2>2, TestsMoveNothing, UnmovedStep
  <2>3. CASE Make
    BY <2>3, MakeStep
  <2>4. CASE Push
    BY <2>4, PushStep
  <2>5. CASE GiveUp
    BY <2>5, GiveUpStep
  <2>6. CASE Pop
    BY <2>6, PopStep
  <2>7. CASE \E l \in Latencies : process_tick(l)
    BY <2>7, ProcessStep
  <2>8. CASE UNCHANGED vars
    <3>1. Unmoved
      BY <2>8 DEF vars, prodVars, consVars, mainVars, Unmoved, Pushing
    <3> QED BY <3>1, UnmovedStep
  <2> QED BY <2>1, <2>2, <2>3, <2>4, <2>5, <2>6, <2>7, <2>8
          DEF Next, Produce, Consume
<1> QED BY InitInductive, CreatedOnce, <1>1, PTL DEF Spec
-----------------------------------------------------------------------------
\* Two sequences of consecutive numbers, the second from where the first ends.
Counting(from, n) == [i \in 1 .. n |-> from + i]

LEMMA CountingOn ==
  ASSUME NEW m \in Nat, NEW n \in Nat
  PROVE  Counting(0, m) \o Counting(m, n) = Counting(0, m + n)
<1> DEFINE a == Counting(0, m)
           b == Counting(m, n)
           c == Counting(0, m + n)
<1>1. /\ a \in Seq(Nat) /\ Len(a) = m
      /\ b \in Seq(Nat) /\ Len(b) = n
      /\ c \in Seq(Nat) /\ Len(c) = m + n
  BY DEF Counting
<1>2. /\ a \o b \in Seq(Nat) /\ Len(a \o b) = m + n
      /\ \A i \in 1 .. m + n : (a \o b)[i] = IF i <= m THEN a[i] ELSE b[i - m]
  <2> HIDE DEF a, b, c
  <2>1. /\ a \o b \in Seq(Nat) /\ Len(a \o b) = Len(a) + Len(b)
        /\ \A i \in 1 .. Len(a) + Len(b) :
             (a \o b)[i] = IF i <= Len(a) THEN a[i] ELSE b[i - Len(a)]
    BY <1>1, ConcatProperties
  <2> QED BY <1>1, <2>1
<1>3. \A i \in 1 .. m + n : (a \o b)[i] = c[i]
  <2> SUFFICES ASSUME NEW i \in 1 .. m + n PROVE (a \o b)[i] = c[i]
    OBVIOUS
  <2>1. c[i] = i
    BY DEF Counting
  <2>2. CASE i <= m
    BY <1>2, <2>1, <2>2 DEF Counting
  <2>3. CASE ~(i <= m)
    <3>1. i - m \in 1 .. n /\ m + (i - m) = i
      BY <2>3
    <3> QED BY <1>2, <2>1, <2>3, <3>1 DEF Counting
  <2> QED BY <2>2, <2>3
<1> HIDE DEF a, b, c
<1>4. a \o b = c
  BY <1>1, <1>2, <1>3, SeqEqual
<1> QED BY <1>4 DEF a, b, c

\* For every number of ticks, size of the ring buffer and set of latencies:
\* every tick made is in one place, in the order of making, none is processed
\* twice, and a benchmark loses none.
THEOREM TicksKeepOrder == Spec => []TicksInOrder
<1>1. IndInv => TicksInOrder
  <2> SUFFICES ASSUME IndInv PROVE TicksInOrder
    OBVIOUS
  <2>1. /\ Len(arrived) \in Nat /\ Len(queue) \in Nat /\ Taken \in Nat
        /\ Pushed \in Nat /\ made \in Nat
    BY LenProperties DEF IndInv, Types, Taken, Pushed
  <2> DEFINE past == [n \in 1 .. Len(arrived) |-> arrived[n].tick]
             taking == IF cpc = "process" THEN <<tick>> ELSE <<>>
             pushing == IF Pushing THEN <<made>> ELSE <<>>
             taken == IF cpc = "process" THEN 1 ELSE 0
             push == IF Pushing THEN 1 ELSE 0
  <2>2. past = Counting(0, Len(arrived))
    BY DEF IndInv, Numbered, Counting
  <2>3. taking = Counting(Len(arrived), taken) /\ Taken = Len(arrived) + taken
    BY <2>1 DEF IndInv, Numbered, Counting, Taken
  <2>4. queue = Counting(Taken, Len(queue))
    BY DEF IndInv, Types, Numbered, Counting
  <2>5. pushing = Counting(Pushed, push)
    BY <2>1 DEF IndInv, LastMade, Counting
  <2>6. Journey = Counting(0, Pushed + push)
    <3>1. past \o taking = Counting(0, Taken)
      BY <2>1, <2>2, <2>3, CountingOn
    <3>2. past \o taking \o queue = Counting(0, Pushed)
      BY <2>1, <2>4, <3>1, CountingOn DEF Pushed
    <3>3. past \o taking \o queue \o pushing = Counting(0, Pushed + push)
      BY <2>1, <2>5, <3>2, CountingOn
    <3> QED BY <3>3 DEF Journey, Pushing
  <2>7. \A n \in Nat : Counting(0, n) = [i \in 1 .. n |-> i] /\ Len(Counting(0, n)) = n
    BY DEF Counting
  <2>8. CASE made = Pushed + push
    <3>1. Journey = Counting(0, made)
      BY <2>6, <2>8
    <3> HIDE DEF push
    <3>2. Journey = [n \in 1 .. made |-> n] /\ Len(Journey) = made
      BY <2>1, <2>7, <3>1
    <3> QED BY <2>1, <3>2 DEF TicksInOrder
  <2>9. CASE made # Pushed + push
    <3>1. made = Pushed + 1 /\ push = 0 /\ lost = {made} /\ Engine /\ ~running
      BY <2>1, <2>9 DEF IndInv, LastMade
    <3>2. Journey = Counting(0, made - 1) /\ made - 1 \in Nat
      BY <2>1, <2>6, <3>1
    <3> QED BY <2>7, <3>1, <3>2 DEF TicksInOrder
  <2> QED BY <2>8, <2>9
<1> QED BY <1>1, Inductive, PTL
-----------------------------------------------------------------------------
(***************************************************************************)
(* What std::sort promises can be kept: there is an ascending order of     *)
(* every sequence, namely the one by rank.                                 *)
(***************************************************************************)
Sorts(r, s, n) ==
  /\ r \in [1 .. n -> Latencies]
  /\ \A k, l \in 1 .. n : k < l => r[k] <= r[l]
  /\ \A v \in Latencies : Times(r, v) = Times(s, v)

\* What comes no later than a member when sorted, and how much that is.
NotAfter(s, n, a) == {b \in 1 .. n : s[b] < s[a] \/ (s[b] = s[a] /\ b <= a)}
Rank(s, n, a) == Cardinality(NotAfter(s, n, a))

\* A member's rank is a place, and ranks are in the order of members.
LEMMA RankOrders ==
  ASSUME NEW n \in Nat, NEW s \in [1 .. n -> Latencies], NEW a \in 1 .. n
  PROVE  /\ Rank(s, n, a) \in 1 .. n
         /\ \A b \in 1 .. n : s[b] < s[a] => Rank(s, n, b) < Rank(s, n, a)
         /\ \A b \in 1 .. n : Rank(s, n, b) = Rank(s, n, a) => b = a
<1>1. IsFiniteSet(1 .. n) /\ Cardinality(1 .. n) = n
  BY FS_Interval
<1>2. \A b \in 1 .. n : NotAfter(s, n, b) \in SUBSET (1 .. n) /\ b \in NotAfter(s, n, b)
  BY DEF NotAfter
<1>3. \A b \in 1 .. n : IsFiniteSet(NotAfter(s, n, b)) /\ Rank(s, n, b) \in Nat
  BY <1>1, <1>2, FS_Subset, FS_CardinalityType DEF Rank
<1>4. \A b \in 1 .. n : s[b] \in Int
  BY TicksAssumption
<1>5. ASSUME NEW b \in 1 .. n, NEW c \in 1 .. n,
             s[b] < s[c] \/ (s[b] = s[c] /\ b < c)
      PROVE  Rank(s, n, b) < Rank(s, n, c)
  <2>1. NotAfter(s, n, b) \subseteq NotAfter(s, n, c) \ {c}
    <3> SUFFICES ASSUME NEW d \in NotAfter(s, n, b) PROVE d \in NotAfter(s, n, c) /\ d # c
      OBVIOUS
    <3>1. d \in 1 .. n /\ (s[d] < s[b] \/ (s[d] = s[b] /\ d <= b))
      BY DEF NotAfter
    <3>2. s[d] \in Int /\ s[b] \in Int /\ s[c] \in Int
      BY <1>4, <3>1
    <3>3. s[d] < s[c] \/ (s[d] = s[c] /\ d < c)
      BY <1>5, <3>1, <3>2
    <3> QED BY <3>1, <3>2, <3>3 DEF NotAfter
  <2>2. Cardinality(NotAfter(s, n, b)) <= Cardinality(NotAfter(s, n, c) \ {c})
    BY <1>3, <2>1, FS_Subset, FS_RemoveElement
  <2>3. Cardinality(NotAfter(s, n, c) \ {c}) = Rank(s, n, c) - 1
    BY <1>2, <1>3, FS_RemoveElement DEF Rank
  <2>4. Rank(s, n, b) <= Rank(s, n, c) - 1
    BY <2>2, <2>3 DEF Rank
  <2> QED BY <1>3, <2>4
<1>6. Rank(s, n, a) \in 1 .. n
  <2>1. Rank(s, n, a) <= n
    BY <1>1, <1>2, FS_Subset DEF Rank
  <2>2. Rank(s, n, a) # 0
    <3>1. NotAfter(s, n, a) # {}
      BY <1>2
    <3> QED BY <1>3, <3>1, FS_EmptySet DEF Rank
  <2> QED BY <1>3, <2>1, <2>2
<1>7. ASSUME NEW b \in 1 .. n, Rank(s, n, b) = Rank(s, n, a), b # a PROVE FALSE
  <2>1. \/ s[b] < s[a] \/ (s[b] = s[a] /\ b < a)
        \/ s[a] < s[b] \/ (s[a] = s[b] /\ a < b)
    BY <1>4, <1>7
  <2>2. ~(Rank(s, n, b) < Rank(s, n, a)) /\ ~(Rank(s, n, a) < Rank(s, n, b))
    BY <1>3, <1>7
  <2> QED BY <1>5, <2>1, <2>2
<1> QED BY <1>5, <1>6, <1>7

\* Every sequence has an ascending order.
LEMMA AscendingExists ==
  ASSUME NEW n \in Nat, NEW s \in [1 .. n -> Latencies]
  PROVE  Sorts(Ascending(s), s, n)
<1> DEFINE rank == [a \in 1 .. n |-> Rank(s, n, a)]
           D == 1 .. n
<1>1. IsFiniteSet(D)
  BY FS_Interval
<1>2. rank \in Injection(D, D)
  <2>1. rank \in [D -> D]
    BY RankOrders
  <2>2. IsInjective(rank)
    BY RankOrders DEF IsInjective
  <2> QED BY <2>1, <2>2 DEF Injection
<1>3. rank \in Surjection(D, D)
  BY <1>1, <1>2, FS_Injection
<1>4. \A k \in D : \E a \in D : Rank(s, n, a) = k
  BY <1>3 DEF Surjection
<1> DEFINE p == [k \in D |-> CHOOSE a \in D : Rank(s, n, a) = k]
           r == [k \in D |-> s[p[k]]]
<1>5. \A k \in D : p[k] \in D /\ Rank(s, n, p[k]) = k
  BY <1>4
<1>6. \A a \in D : Rank(s, n, a) \in D /\ p[Rank(s, n, a)] = a
  BY <1>5, RankOrders
<1> HIDE DEF rank, p
<1>7. r \in [D -> Latencies]
  BY <1>5
<1>8. ASSUME NEW k \in D, NEW l \in D, k < l PROVE r[k] <= r[l]
  <2>1. r[k] = s[p[k]] /\ r[l] = s[p[l]] /\ p[k] \in D /\ p[l] \in D
    BY <1>5
  <2>2. s[p[k]] \in Int /\ s[p[l]] \in Int
    BY <2>1, TicksAssumption
  <2>3. ~(s[p[l]] < s[p[k]])
    <3> SUFFICES ASSUME s[p[l]] < s[p[k]] PROVE FALSE
      OBVIOUS
    <3>1. Rank(s, n, p[l]) < Rank(s, n, p[k])
      BY <2>1, RankOrders
    <3>2. l < k
      BY <1>5, <3>1
    <3> QED BY <1>8, <3>2
  <2> QED BY <2>1, <2>2, <2>3
<1>9. ASSUME NEW v \in Latencies PROVE Times(r, v) = Times(s, v)
  <2> DEFINE S == {a \in D : s[a] = v}
             R == {k \in D : r[k] = v}
             f == [a \in S |-> Rank(s, n, a)]
  <2>1. f \in [S -> R]
    BY <1>6
  <2>2. IsInjective(f)
    BY RankOrders DEF IsInjective
  <2>3. \A k \in R : \E a \in S : f[a] = k
    BY <1>5
  <2>4. f \in Bijection(S, R)
    BY <2>1, <2>2, <2>3 DEF Bijection, Injection, Surjection
  <2>5. IsFiniteSet(S)
    BY <1>1, FS_Subset
  <2>6. Cardinality(R) = Cardinality(S)
    BY <2>4, <2>5, FS_Bijection DEF ExistsBijection
  <2>7. DOMAIN r = D /\ DOMAIN s = D
    OBVIOUS
  <2> QED BY <2>6, <2>7 DEF Times
<1>10. DOMAIN s = D
  OBVIOUS
<1>11. \E q \in [DOMAIN s -> Latencies] :
         /\ \A k, l \in DOMAIN s : k < l => q[k] <= q[l]
         /\ \A v \in Latencies : Times(q, v) = Times(s, v)
  <2> HIDE DEF r
  <2> QED BY <1>7, <1>8, <1>9, <1>10
<1> QED BY <1>10, <1>11 DEF Ascending, Sorts

\* A nonempty set of numbers has a least one.
LEMMA LeastNatural ==
  ASSUME NEW T, T \subseteq Nat, T # {}
  PROVE  \E m \in T : \A k \in T : m <= k
<1> DEFINE R == {ss \in Nat \X Nat : ss[1] < ss[2]}
<1>1. IsWellFoundedOn(R, Nat)
  BY NatLessThanWellFounded, Zenon DEF OpToRel
<1> HIDE DEF R
<1>2. PICK x \in T : \A y \in T : ~(<<y, x>> \in R)
  BY <1>1, WFMin
<1>3. ASSUME NEW k \in T PROVE x <= k
  <2>1. x \in Nat /\ k \in Nat /\ ~(<<k, x>> \in R)
    BY <1>2
  <2>2. ~(k < x)
    BY <2>1 DEF R
  <2> QED BY <2>1, <2>2
<1> QED BY <1>3

\* The members whose latency is one of a set.
Within(s, n, V) == {a \in 1 .. n : s[a] \in V}

\* Two sequences with the same number of each latency have the same number of
\* those in any set: a least number for which they differ would not be 0, and
\* without one of the latencies they would still differ.
LEMMA SameWithin ==
  ASSUME NEW n \in Nat, NEW s \in [1 .. n -> Latencies],
         NEW r \in [1 .. n -> Latencies],
         \A v \in Latencies : Times(r, v) = Times(s, v)
  PROVE  \A V \in SUBSET Latencies :
           Cardinality(Within(r, n, V)) = Cardinality(Within(s, n, V))
<1> DEFINE Card(q, V) == Cardinality(Within(q, n, V))
           Differ(V) == Card(r, V) # Card(s, V)
           T == {c \in Nat : \E V \in SUBSET Latencies : Differ(V) /\ Card(s, V) = c}
<1>1. \A q, V : IsFiniteSet(Within(q, n, V)) /\ Card(q, V) \in Nat
  <2> SUFFICES ASSUME NEW q, NEW V
               PROVE  IsFiniteSet(Within(q, n, V)) /\ Card(q, V) \in Nat
    OBVIOUS
  <2>1. IsFiniteSet(1 .. n) /\ Within(q, n, V) \in SUBSET (1 .. n)
    BY FS_Interval DEF Within
  <2> QED BY <2>1, FS_Subset, FS_CardinalityType
<1>2. \A v : /\ Times(r, v) = Card(r, {v})
             /\ Times(s, v) = Card(s, {v})
  BY DEF Times, Within
<1>3. ASSUME NEW q \in {r, s}, NEW V \in SUBSET Latencies, NEW w \in V
      PROVE  Card(q, V) = Card(q, V \ {w}) + Card(q, {w})
  <2> DEFINE A == Within(q, n, V \ {w})
             B == Within(q, n, {w})
  <2>1. Within(q, n, V) = A \cup B /\ A \cap B = {}
    BY DEF Within
  <2>2. IsFiniteSet(A) /\ IsFiniteSet(B) /\ Card(q, V \ {w}) \in Nat /\ Card(q, {w}) \in Nat
    BY <1>1
  <2>3. Cardinality(A \cup B) = Cardinality(A) + Cardinality(B) - Cardinality(A \cap B)
    BY <2>2, FS_Union
  <2>4. Cardinality(A) \in Nat /\ Cardinality(B) \in Nat
    BY <2>2
  <2>5. Cardinality(A \cap B) = 0
    BY <2>1, FS_EmptySet
  <2>6. Card(q, V) = Cardinality(A \cup B)
    BY <2>1
  <2> HIDE DEF A, B, Card
  <2>7. Card(q, V) = Cardinality(A) + Cardinality(B)
    BY <2>3, <2>4, <2>5, <2>6
  <2> QED BY <2>7 DEF A, B, Card
<1> SUFFICES ASSUME NEW U \in SUBSET Latencies, Differ(U) PROVE FALSE
  OBVIOUS
<1>4. Card(s, U) \in T
  BY <1>1
<1> HIDE DEF Card
<1>5. PICK m \in T : \A k \in T : m <= k
  BY <1>4, LeastNatural
<1>6. PICK V \in SUBSET Latencies : Differ(V) /\ Card(s, V) = m
  BY <1>5
<1>7. CASE V \cap {s[a] : a \in 1 .. n} = {}
  <2>1. Card(s, V) = 0
    <3>1. Within(s, n, V) = {}
      BY <1>7 DEF Within
    <3> QED BY <3>1, FS_EmptySet DEF Card
  <2>2. ASSUME NEW a \in 1 .. n, r[a] \in V PROVE FALSE
    <3>1. Card(s, {r[a]}) = 0
      <4>1. Within(s, n, {r[a]}) = {}
        BY <1>7, <2>2 DEF Within
      <4> QED BY <4>1, FS_EmptySet DEF Card
    <3>2. Card(r, {r[a]}) # 0
      <4>1. a \in Within(r, n, {r[a]})
        BY DEF Within
      <4> QED BY <1>1, <4>1, FS_EmptySet DEF Card
    <3> QED BY <1>2, <3>1, <3>2
  <2>3. Card(r, V) = 0
    <3>1. Within(r, n, V) = {}
      BY <2>2 DEF Within
    <3> QED BY <3>1, FS_EmptySet DEF Card
  <2> QED BY <1>6, <2>1, <2>3
<1>8. CASE V \cap {s[a] : a \in 1 .. n} # {}
  <2>1. PICK a \in 1 .. n : s[a] \in V
    BY <1>8
  <2> DEFINE w == s[a]
             W == V \ {w}
  <2>2. /\ Card(s, V) = Card(s, W) + Card(s, {w})
        /\ Card(r, V) = Card(r, W) + Card(r, {w})
    BY <1>3, <2>1
  <2>3. Card(s, {w}) = Card(r, {w})
    BY <1>2
  <2>4. Card(s, {w}) # 0
    <3>1. a \in Within(s, n, {w})
      BY DEF Within
    <3> QED BY <1>1, <3>1, FS_EmptySet DEF Card
  <2>5. /\ Card(s, W) \in Nat /\ Card(r, W) \in Nat /\ Card(s, {w}) \in Nat
        /\ Card(s, V) \in Nat
    BY <1>1 DEF Card
  <2>6. Differ(W) /\ W \in SUBSET Latencies
    BY <1>6, <2>2, <2>3, <2>5
  <2>7. Card(s, W) < Card(s, V)
    BY <2>2, <2>4, <2>5
  <2>8. Card(s, W) \in T
    BY <2>5, <2>6
  <2>9. m <= Card(s, W)
    BY <1>5, <2>8
  <2> QED BY <1>6, <2>5, <2>7, <2>9
<1> QED BY <1>7, <1>8

\* What stands at a place of the ascending order: fewer than that many are
\* lower, and at least that many are no higher.
LEMMA PlaceOf ==
  ASSUME NEW n \in Nat, NEW s \in [1 .. n -> Latencies], NEW k \in 1 .. n
  PROVE  /\ Ascending(s)[k] \in Latencies
         /\ Cardinality({a \in 1 .. n : s[a] < Ascending(s)[k]}) < k
         /\ Cardinality({a \in 1 .. n : s[a] <= Ascending(s)[k]}) >= k
<1> DEFINE r == Ascending(s)
           Less == {v \in Latencies : v < r[k]}
           Most == {v \in Latencies : v <= r[k]}
<1>1. Sorts(r, s, n)
  BY AscendingExists
<1> HIDE DEF r
<1>2. r \in [1 .. n -> Latencies] /\ \A i, j \in 1 .. n : i < j => r[i] <= r[j]
  BY <1>1 DEF Sorts
<1>3. \A i \in 1 .. n : r[i] \in Int
  BY <1>2, TicksAssumption
<1>4. /\ Within(s, n, Less) = {a \in 1 .. n : s[a] < r[k]}
      /\ Within(s, n, Most) = {a \in 1 .. n : s[a] <= r[k]}
  BY DEF Within
<1>5. \A V \in SUBSET Latencies :
        Cardinality(Within(r, n, V)) = Cardinality(Within(s, n, V))
  BY <1>1, <1>2, SameWithin DEF Sorts
<1>6. Within(r, n, Less) \in SUBSET (1 .. k - 1)
  <2> SUFFICES ASSUME NEW i \in 1 .. n, r[i] < r[k] PROVE i \in 1 .. k - 1
    BY DEF Within
  <2>1. r[i] \in Int /\ r[k] \in Int /\ (k < i => r[k] <= r[i])
    BY <1>2, <1>3
  <2> QED BY <2>1
<1>7. 1 .. k \in SUBSET Within(r, n, Most)
  <2> SUFFICES ASSUME NEW i \in 1 .. k PROVE i \in 1 .. n /\ r[i] \in Latencies /\ r[i] <= r[k]
    BY DEF Within
  <2>1. i \in 1 .. n
    OBVIOUS
  <2>2. r[i] \in Int /\ r[k] \in Int /\ (i < k => r[i] <= r[k])
    BY <1>2, <1>3, <2>1
  <2> QED BY <1>2, <2>1, <2>2
<1>8. /\ IsFiniteSet(1 .. k - 1) /\ Cardinality(1 .. k - 1) = k - 1
      /\ IsFiniteSet(1 .. k) /\ Cardinality(1 .. k) = k
  <2>1. k \in Int /\ k - 1 \in Int
    OBVIOUS
  <2>2. /\ IsFiniteSet(1 .. k - 1)
        /\ Cardinality(1 .. k - 1) = IF 1 > k - 1 THEN 0 ELSE k - 1 - 1 + 1
        /\ IsFiniteSet(1 .. k)
        /\ Cardinality(1 .. k) = IF 1 > k THEN 0 ELSE k - 1 + 1
    BY <2>1, FS_Interval
  <2> QED BY <2>2
<1>9. IsFiniteSet(Within(r, n, Most))
  <2>1. IsFiniteSet(1 .. n) /\ Within(r, n, Most) \in SUBSET (1 .. n)
    BY FS_Interval DEF Within
  <2> QED BY <2>1, FS_Subset
<1>10. /\ Cardinality(Within(r, n, Less)) \in Nat
       /\ Cardinality(Within(r, n, Less)) <= k - 1
       /\ Cardinality(Within(r, n, Most)) \in Nat
       /\ Cardinality(Within(r, n, Most)) >= k
  <2>1. IsFiniteSet(Within(r, n, Less)) /\ Cardinality(Within(r, n, Less)) <= k - 1
    BY <1>6, <1>8, FS_Subset
  <2>2. k <= Cardinality(Within(r, n, Most))
    BY <1>7, <1>8, <1>9, FS_Subset
  <2>3. Cardinality(Within(r, n, Less)) \in Nat /\ Cardinality(Within(r, n, Most)) \in Nat
    BY <1>9, <2>1, FS_CardinalityType
  <2> QED BY <2>1, <2>2, <2>3
<1>11. /\ Cardinality(Within(s, n, Less)) = Cardinality(Within(r, n, Less))
       /\ Cardinality(Within(s, n, Most)) = Cardinality(Within(r, n, Most))
  BY <1>5
<1>12. r[k] \in Latencies
  BY <1>2
<1>13. /\ Cardinality(Within(s, n, Less)) < k
       /\ Cardinality(Within(s, n, Most)) >= k
  BY <1>10, <1>11
<1>14. /\ Cardinality({a \in 1 .. n : s[a] < r[k]}) < k
       /\ Cardinality({a \in 1 .. n : s[a] <= r[k]}) >= k
  BY <1>4, <1>13
<1> QED BY <1>12, <1>14 DEF r
-----------------------------------------------------------------------------
(***************************************************************************)
(* The report and the exported rows.  What is kept of the ticks are their  *)
(* latencies in order of arrival; a thread of a benchmark exits with all   *)
(* ticks made, or processed; main waits for both.                          *)
(***************************************************************************)
Kept == /\ processed = Len(arrived)
        /\ latencies_ = [n \in 1 .. Len(arrived) |-> arrived[n].latency]
        /\ \A n \in 1 .. Len(arrived) : arrived[n].latency \in Latencies

Exits == /\ made <= NUM_TICKS
         /\ ppc = "exited" /\ ~Engine => made = NUM_TICKS
         /\ cpc = "exited" /\ ~Engine => processed >= NUM_TICKS

Joined == {"report", "export", "returned"}
Waits == /\ mpc \in Joined \cup {"join producer"} => cpc = "exited"
         /\ mpc \in Joined => ppc = "exited"

Reported == ~Engine =>
  /\ mpc \in {"export", "returned"} => report = [p \in Percents |-> Percentile(p)]
  /\ mpc = "returned" => rows \in {latencies_, <<>>}

ReportInv == Kept /\ Exits /\ Waits /\ Reported

\* The invariant holds when the program starts.
LEMMA ReportBegins == Init => ReportInv
<1> SUFFICES ASSUME Init PROVE ReportInv
  OBVIOUS
<1>1. /\ arrived = <<>> /\ latencies_ = <<>> /\ processed = 0 /\ made = 0
      /\ mpc = "start producer" /\ ppc = "none" /\ cpc = "none"
  BY DEF Init
<1>2. Len(arrived) = 0 /\ 1 .. Len(arrived) = {}
  <2>1. Len(<<>>) = 0 /\ 1 .. 0 = {}
    OBVIOUS
  <2> QED BY <1>1, <2>1
<1>3. latencies_ = [n \in 1 .. Len(arrived) |-> arrived[n].latency]
  <2> DEFINE f == [n \in 1 .. Len(arrived) |-> arrived[n].latency]
  <2>1. f \in Seq({}) /\ Len(f) = 0
    BY <1>2
  <2>2. f = <<>>
    BY <2>1, EmptySeq
  <2> QED BY <1>1, <2>2
<1>4. Kept
  BY <1>1, <1>2, <1>3 DEF Kept
<1>5. Exits
  <2>1. NUM_TICKS \in Nat
    BY TicksAssumption
  <2>2. made = 0 /\ ppc = "none" /\ cpc = "none"
    BY <1>1
  <2>3. made <= NUM_TICKS
    BY <2>1, <2>2
  <2>4. ppc # "exited" /\ cpc # "exited"
    BY <2>2
  <2> QED BY <2>3, <2>4 DEF Exits
<1> QED BY <1>1, <1>4, <1>5 DEF ReportInv, Waits, Reported, Joined

\* main reports and exports what has been kept, when both threads are done.
LEMMA ReportMain ==
  ASSUME IndInv, ReportInv, NotCreated, MainRuns \/ PressEnter
  PROVE  ReportInv'
<1>1. /\ UNCHANGED <<program, made, processed, latencies_, arrived>>
      /\ Engine' = Engine
  BY DEF MainRuns, PressEnter, StartProducer, StartConsumer, JoinConsumer,
         JoinProducer, write_latency_report, export_latencies_csv, MainGoes,
         prodVars, LatenciesReported, Engine
<1>2. /\ ppc' = ppc \/ (ppc = "none" /\ ppc' = "test")
      /\ cpc' = cpc \/ (cpc = "none" /\ cpc' = "test")
  BY DEF NotCreated, MainRuns, PressEnter, StartProducer, StartConsumer,
         JoinConsumer, JoinProducer, write_latency_report,
         export_latencies_csv, MainGoes, prodVars
<1>3. Kept'
  BY <1>1 DEF ReportInv, Kept
<1>4. Exits'
  BY <1>1, <1>2 DEF ReportInv, Exits
<1>5. \A p : Percentile(p)' = Percentile(p)
  BY <1>1 DEF Percentile, Sorted, Ascending, Times
<1>6. CASE write_latency_report
  <2>1. /\ mpc = "report" /\ mpc' = "export" /\ ppc' = ppc /\ cpc' = cpc
        /\ report' = IF latencies_ = <<>> THEN <<>>
                     ELSE [p \in Percents |-> Percentile(p)]
    BY <1>6 DEF write_latency_report, prodVars
  <2>2. ~Engine => latencies_ # <<>>
    <3> SUFFICES ASSUME ~Engine, latencies_ = <<>> PROVE FALSE
      OBVIOUS
    <3>1. Len(arrived) >= NUM_TICKS
      BY <2>1 DEF ReportInv, Kept, Exits, Waits, Joined
    <3>2. 1 \in 1 .. Len(arrived)
      BY <3>1, TicksAssumption, LenProperties DEF IndInv, Types
    <3>3. DOMAIN latencies_ = 1 .. Len(arrived)
      BY DEF ReportInv, Kept
    <3>4. DOMAIN <<>> = {}
      OBVIOUS
    <3> QED BY <3>2, <3>3, <3>4
  <2>3. Waits'
    BY <2>1 DEF ReportInv, Waits, Joined
  <2>4. ~Engine => report' = [p \in Percents |-> Percentile(p)']
    BY <1>5, <2>1, <2>2
  <2>5. Reported'
    BY <1>1, <2>1, <2>4 DEF Reported
  <2> QED BY <1>3, <1>4, <2>3, <2>5 DEF ReportInv
<1>7. CASE export_latencies_csv
  <2>1. /\ mpc = "export" /\ mpc' = "returned" /\ ppc' = ppc /\ cpc' = cpc
        /\ report' = report /\ rows' \in {latencies_, <<>>}
    BY <1>7 DEF export_latencies_csv, MainGoes
  <2>2. Waits'
    BY <2>1 DEF ReportInv, Waits, Joined
  <2>3. Reported'
    BY <1>1, <1>5, <2>1 DEF ReportInv, Reported
  <2> QED BY <1>3, <1>4, <2>2, <2>3 DEF ReportInv
<1>8. CASE StartProducer \/ StartConsumer \/ JoinConsumer \/ JoinProducer \/ PressEnter
  <2>1. Waits'
    BY <1>2, <1>8 DEF ReportInv, Waits, Joined, StartProducer, StartConsumer,
       JoinConsumer, JoinProducer, PressEnter, MainGoes
  <2>2. ~Engine => mpc' \notin {"export", "returned"}
    BY <1>8 DEF StartProducer, StartConsumer, JoinConsumer, JoinProducer, PressEnter,
       MainGoes
  <2>3. Reported'
    BY <1>1, <2>2 DEF Reported
  <2> QED BY <1>3, <1>4, <2>1, <2>3 DEF ReportInv
<1> QED BY <1>6, <1>7, <1>8 DEF MainRuns

\* The producer exits when it has made all ticks; until then main waits for it.
LEMMA ReportProduce == ASSUME IndInv, ReportInv, Produce PROVE ReportInv'
<1>1. /\ UNCHANGED <<program, processed, latencies_, arrived, cpc, mpc>>
      /\ Engine' = Engine /\ ppc # "exited"
      /\ made' = made \/ (made' = made + 1 /\ made < NUM_TICKS)
      /\ ppc' = "exited" /\ ~Engine => made' = NUM_TICKS
  BY DEF Produce, Make, ProducerExit, Push, Refused, Retry, GiveUp, ProducerGoes,
         consVars, mainVars, Engine
<1>2. made \in Nat /\ NUM_TICKS \in Nat
  BY TicksAssumption DEF IndInv, Types
<1>3. mpc \notin Joined
  BY <1>1 DEF ReportInv, Waits
<1>4. Kept'
  BY <1>1 DEF ReportInv, Kept
<1>5. Exits'
  BY <1>1, <1>2 DEF ReportInv, Exits
<1>6. Waits'
  BY <1>1, <1>3 DEF ReportInv, Waits, Joined
<1>7. Reported'
  BY <1>1, <1>3 DEF Reported, Joined
<1> QED BY <1>4, <1>5, <1>6, <1>7 DEF ReportInv

\* The consumer keeps what it processes, and exits when that is all.
LEMMA ReportConsume == ASSUME IndInv, ReportInv, Consume PROVE ReportInv'
<1>1. /\ UNCHANGED <<program, made, ppc, mpc>>
      /\ Engine' = Engine /\ cpc # "exited"
  BY DEF Consume, ConsumerTests, Pop, NothingToPop, process_tick, prodVars, mainVars,
         Engine
<1>2. mpc \notin Joined /\ mpc # "join producer"
  BY <1>1 DEF ReportInv, Waits
<1>3. Waits' /\ Reported'
  BY <1>1, <1>2 DEF Waits, Reported, Joined
<1>4. CASE ConsumerTests \/ Pop \/ NothingToPop
  <2>1. UNCHANGED <<processed, latencies_, arrived>>
    BY <1>4 DEF ConsumerTests, Pop, NothingToPop, Counted
  <2>2. cpc' = "exited" /\ ~Engine => ~(processed < NUM_TICKS)
    BY <1>4 DEF ConsumerTests, Pop, NothingToPop, MorePolls
  <2>3. processed \in Nat /\ NUM_TICKS \in Nat
    BY TicksAssumption, LenProperties DEF ReportInv, Kept, IndInv, Types
  <2>4. Kept'
    BY <2>1 DEF ReportInv, Kept
  <2>5. Exits'
    BY <1>1, <2>1, <2>2, <2>3 DEF ReportInv, Exits
  <2> QED BY <1>3, <2>4, <2>5 DEF ReportInv
<1>5. ASSUME NEW l \in Latencies, process_tick(l) PROVE ReportInv'
  <2>1. /\ latencies_' = Append(latencies_, l)
        /\ arrived' = Append(arrived, [tick |-> tick, latency |-> l])
        /\ processed' = processed + 1 /\ cpc' = "test"
    BY <1>5 DEF process_tick, Counted
  <2>2. /\ [tick |-> tick, latency |-> l] \in [tick : Nat, latency : Int]
        /\ arrived \in Seq([tick : Nat, latency : Int])
        /\ Len(arrived) \in Nat
    BY TicksAssumption, LenProperties DEF IndInv, Types
  <2>3. /\ Len(arrived') = Len(arrived) + 1
        /\ arrived'[Len(arrived) + 1] = [tick |-> tick, latency |-> l]
        /\ \A n \in 1 .. Len(arrived) : arrived'[n] = arrived[n]
    BY <2>1, <2>2, AppendProperties
  <2>4. /\ latencies_ \in Seq(Latencies) /\ Len(latencies_) = Len(arrived)
        /\ \A n \in 1 .. Len(arrived) : latencies_[n] = arrived[n].latency
    BY <2>2 DEF ReportInv, Kept
  <2>5. /\ latencies_' \in Seq(Latencies) /\ Len(latencies_') = Len(arrived) + 1
        /\ latencies_'[Len(arrived) + 1] = l
        /\ \A n \in 1 .. Len(arrived) : latencies_'[n] = latencies_[n]
    BY <2>1, <2>4, AppendProperties
  <2>6. \A n \in 1 .. Len(arrived') : /\ latencies_'[n] = arrived'[n].latency
                                      /\ arrived'[n].latency \in Latencies
    <3> SUFFICES ASSUME NEW n \in 1 .. Len(arrived')
                 PROVE  latencies_'[n] = arrived'[n].latency /\ arrived'[n].latency \in Latencies
      OBVIOUS
    <3>1. CASE n = Len(arrived) + 1
      BY <2>3, <2>5, <3>1
    <3>2. CASE n \in 1 .. Len(arrived)
      BY <2>3, <2>4, <2>5, <3>2 DEF ReportInv, Kept
    <3> QED BY <2>2, <2>3, <3>1, <3>2
  <2>7. latencies_' = [n \in 1 .. Len(arrived') |-> arrived'[n].latency]
    <3>1. latencies_' = [n \in 1 .. Len(latencies_') |-> latencies_'[n]]
      BY <2>5
    <3> QED BY <2>3, <2>5, <2>6, <3>1
  <2>8. Kept'
    BY <2>1, <2>3, <2>6, <2>7 DEF ReportInv, Kept
  <2>9. Exits'
    BY <1>1, <2>1 DEF ReportInv, Exits
  <2> QED BY <1>3, <2>8, <2>9 DEF ReportInv
<1> QED BY <1>4, <1>5 DEF Consume

\* The invariant of the report holds in every reachable state.
LEMMA ReportInductive == Spec => []ReportInv
<1>1. IndInv /\ ReportInv /\ NotCreated /\ [Next]_vars => ReportInv'
  <2> SUFFICES ASSUME IndInv, ReportInv, NotCreated, [Next]_vars PROVE ReportInv'
    OBVIOUS
  <2>1. CASE UNCHANGED vars
    <3>1. /\ UNCHANGED <<program, made, processed, latencies_, arrived, mpc, ppc, cpc,
                         report, rows>>
          /\ Engine' = Engine
      BY <2>1 DEF vars, prodVars, consVars, mainVars, Engine
    <3>2. \A p : Percentile(p)' = Percentile(p)
      BY <3>1 DEF Percentile, Sorted, Ascending, Times
    <3>3. Kept' /\ Exits' /\ Waits'
      BY <3>1 DEF ReportInv, Kept, Exits, Waits
    <3>4. Reported'
      BY <3>1, <3>2 DEF ReportInv, Reported
    <3> QED BY <3>3, <3>4 DEF ReportInv
  <2> QED BY <2>1, ReportMain, ReportProduce, ReportConsume DEF Next
<1> QED BY ReportBegins, Inductive, CreatedOnce, <1>1, PTL DEF Spec

\* For every number of ticks and set of latencies: what a benchmark reports is
\* about all ticks, has the percentiles of their latencies, and the exported
\* rows are in the order of arrival.
THEOREM ReportsAll == Spec => []ReportsAllTicks
<1>1. IndInv /\ ReportInv => ReportsAllTicks
  <2> SUFFICES ASSUME IndInv, ReportInv, mpc = "returned", ~Engine
               PROVE  /\ ppc = "exited" /\ cpc = "exited" /\ queue = <<>>
                      /\ Len(arrived) = NUM_TICKS
                      /\ rows # <<>> => rows = [n \in 1 .. NUM_TICKS |-> arrived[n].latency]
                      /\ \A p \in Percents :
                           LET ticks == 1 .. NUM_TICKS IN
                           /\ Cardinality({n \in ticks : arrived[n].latency < report[p]})
                                <= Share(p)
                           /\ Cardinality({n \in ticks : arrived[n].latency <= report[p]})
                                > Share(p)
    BY DEF ReportsAllTicks
  <2>1. ppc = "exited" /\ cpc = "exited"
    BY DEF ReportInv, Waits, Joined
  <2>2. /\ Len(arrived) \in Nat /\ Len(queue) \in Nat /\ made \in Nat
        /\ NUM_TICKS \in Nat \ {0}
    BY TicksAssumption, LenProperties DEF IndInv, Types
  <2>3. made = Len(arrived) + Len(queue)
    BY <2>1 DEF IndInv, LastMade, Pushing, Pushed, Taken
  <2>4. made = NUM_TICKS /\ Len(arrived) >= NUM_TICKS
    BY <2>1 DEF ReportInv, Exits, Kept
  <2>5. Len(arrived) = NUM_TICKS /\ Len(queue) = 0
    BY <2>2, <2>3, <2>4
  <2>6. queue = <<>>
    BY <2>5, EmptySeq DEF IndInv, Types
  <2>7. latencies_ = [n \in 1 .. NUM_TICKS |-> arrived[n].latency]
    BY <2>5 DEF ReportInv, Kept
  <2>8. rows \in {latencies_, <<>>}
    BY DEF ReportInv, Reported
  <2>9. latencies_ \in [1 .. NUM_TICKS -> Latencies]
    BY <2>5, <2>7 DEF ReportInv, Kept
  <2>10. Len(Sorted) = NUM_TICKS
    <3>1. Sorted \in [1 .. NUM_TICKS -> Latencies]
      BY <2>2, <2>9, AscendingExists DEF Sorts, Sorted
    <3>2. DOMAIN Sorted = 1 .. NUM_TICKS
      BY <3>1
    <3> QED BY <2>2, <3>1, <3>2
  <2>11. ASSUME NEW p \in Percents
         PROVE  /\ Cardinality({n \in 1 .. NUM_TICKS : arrived[n].latency < report[p]})
                     <= Share(p)
                /\ Cardinality({n \in 1 .. NUM_TICKS : arrived[n].latency <= report[p]})
                     > Share(p)
    <3> DEFINE k == Share(p) + 1
               Less == {n \in 1 .. NUM_TICKS : latencies_[n] < Sorted[k]}
               Most == {n \in 1 .. NUM_TICKS : latencies_[n] <= Sorted[k]}
    <3>1. Share(p) \in Nat /\ k \in 1 .. NUM_TICKS
      BY <2>2 DEF Share, Percents
    <3>2. Sorted[k] = Percentile(p)
      BY <2>2, <2>10 DEF Percentile, Share, Percents
    <3>3. report[p] = Sorted[k]
      BY <3>2 DEF ReportInv, Reported
    <3>4. Cardinality(Less) < k /\ Cardinality(Most) >= k
      BY <2>2, <2>9, <3>1, PlaceOf DEF Sorted
    <3>5. /\ Less = {n \in 1 .. NUM_TICKS : arrived[n].latency < report[p]}
          /\ Most = {n \in 1 .. NUM_TICKS : arrived[n].latency <= report[p]}
      BY <2>7, <3>3
    <3>6. Cardinality(Less) \in Nat /\ Cardinality(Most) \in Nat
      <4>1. IsFiniteSet(1 .. NUM_TICKS)
        BY <2>2, FS_Interval
      <4> QED BY <4>1, FS_Subset, FS_CardinalityType
    <3> HIDE DEF Less, Most
    <3>7. Cardinality(Less) <= Share(p) /\ Cardinality(Most) > Share(p)
      BY <3>1, <3>4, <3>6
    <3> QED BY <3>5, <3>7
  <2> QED BY <2>1, <2>5, <2>6, <2>7, <2>8, <2>11
<1> QED BY <1>1, ReportInductive, Inductive, PTL
=============================================================================
