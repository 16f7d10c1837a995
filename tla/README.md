# A TLA+ model of cpp-learning-projects

The repository holds seven small C++ programs.  Two of them are concurrent (a
cross-sectional trading engine and a market data processor), one keeps state
whose correctness is not obvious (a limit order book), and the rest compute.
These modules model the parts where the order of steps matters, check them with
TLC on small instances, and prove the main results with TLAPS for every value
of the constants.

## The system

Paths are relative to `src/`.

| Component | State | Operations | Interaction |
|---|---|---|---|
| `LockFreeQueue` (`cross-sectional-engine/include/core/ring_buffer.hpp`, its twin `market-data-processor/include/lock_free_queue.hpp`) | slots, `head_`, `tail_` | `push`, `pop`, `size` | one producer thread, one consumer thread, one sampling thread |
| `UniverseStore` and `Seqlock` (`core/universe_store.hpp`, `core/seqlock.hpp`) | arrays per asset, a sequence number | `write_lock`, `update_tick`, `write_unlock`, `read_begin`, `read_retry` | written by the feed's consumer, read by signal engines |
| `SignalEngine` (`compute/signal_engine.*`) | its copy of the arrays | `snapshot` and what is computed from it | reads the store beside the writer |
| `MarketFeed` (`ingestion/market_feed.*`) | `running_`, two threads, a queue, a counter | `start`, `stop`, the two loops | producer -> queue -> consumer -> store; the owner starts and joins |
| Live loop `main_live`, `main_feed` | metrics | take a snapshot, score, signal, count; sample the queue | own a feed, read its store |
| Backtesters, `SectorIndex`, signals, strategy (`backtest/`, `core/sector_index.*`, `signals/`, `strategy/`) | price buffers, a permutation | `run`, counting sort | sequential |
| AVX kernels (`math/avx_math.hpp`, `simd-timeseries/`) | none | sums, products, scores over arrays | sequential |
| `ThreadSafeQueue` (`market-data-processor/include/lock_based_queue.hpp`) | a `std::queue`, a mutex, a condition variable | `push`, `wait_and_pop`, `try_pop`, `empty` | any number of threads |
| Trading engines (`market-data-processor/src/main_lock_based.cpp`, `main_lock_free.cpp`), queue benchmark, `SignalEngine` and `MarketSim` | `running`, two threads, a queue, latencies | make ticks, process ticks, report, export | user input stops the engines, the number of ticks the benchmark |
| `LimitOrderBook` (`limit-order-book/`) | volume per price, for two sides | `add_order`, `print_book` | sequential |
| `TimeSeries` (`simd-timeseries/`) | a ring of prices in an aligned array | `add_tick`, `clear`, `get_mean`, `get_mean_simd` | calls a kernel |
| `OnlineStats` (`online-stats/`, its twin in `derivlib/`) | count, mean, sum of squares | `add`, mean, variances | used by the pricers |
| Monte Carlo pricers (`derivlib/`, `mc-option-pricer/`) | draws, a path, statistics | `price`, `price_antithetic` | sequential, floating point |

Hard behaviours, and what makes each component correct:

- the ring buffer has no lock: its slots must be free of data races by the
  acquire/release pairs alone, and it must be FIFO with stale indices;
- `size()` reads two indices while both move;
- a snapshot is copied while it is being overwritten and must be one state of
  the store;
- the feed is stopped, joined and started again with items in flight;
- `wait_and_pop` sleeps: no wakeup may be lost, no item taken twice;
- the lock-based engine is stopped while its consumer may be asleep, the
  lock-free one while its producer retries at a full queue;
- the latencies are sorted for a report and exported in order of arrival;
- a trading cycle computes with buffers of earlier cycles beside the writer;
- the matching loop erases the map entries it walks over;
- an AVX kernel takes two paths through an array, and some need alignment, which
  their callers must see to;
- the sector backtester permutes its arrays back and forth and swaps buffers;
- the time series is a ring that can be cleared when it is full, and its
  vectorized mean needs the right length and alignment;
- Welford's recurrence uses the mean before and after its update, and the
  pricers use their buffers of draws again, negated.

`PROJECT.json` lists these as hazards, at their lines, with the properties that
cover them.

## The modules

| Module | Models | Notes |
|---|---|---|
| `Fifo` | what a queue promises | abstract: a bounded channel |
| `LockFreeQueue` | push and pop, one memory operation per step | implements `Fifo` |
| `QueueDepth` | `size()` called by a third thread | extends `LockFreeQueue` |
| `AtomicStore` | what the store promises | abstract: replaced and read in one step |
| `SnapshotStore` | Seqlock, `update_tick`, the copy and retry loop | implements `AtomicStore` |
| `LiveLoop` | `main_live.cpp`: cycles beside the writer of the feed | extends `SnapshotStore` |
| `MarketFeed` | start, stop, both loops | composes: uses `Fifo` for the queue and one step for a Seqlock section |
| `OrderBook` | what an order does to a book, in closed form | abstract: reference definition |
| `LimitOrderBook` | `add_order`, one iteration per step | implements `OrderBook` |
| `ThreadSafeQueue` | mutex, condition variable, the three operations | |
| `LockBasedEngine` | `main_lock_based.cpp` | extends `ThreadSafeQueue` |
| `TickPrograms` | `main_lock_free.cpp`, both runs of `queue_benchmark.cpp`, the latencies of `SignalEngine` | composes: uses `Fifo` for either queue |
| `AvxMath` | the loops of all AVX kernels | a sum is the set of the elements in it |
| `SectorIndex` | the counting sort, one iteration per step | |
| `SectorBacktester` | both backtesters, one statement of the loop per step | extends `SectorIndex` |
| `SlidingWindow` | what a time series promises | abstract: the last prices |
| `TimeSeries` | the ring, `clear`, the means | extends `AvxMath`, whose loops `get_mean_simd` runs; implements `SlidingWindow` |
| `Rationals` | exact arithmetic | in place of doubles |
| `OnlineStats` | Welford's recurrence | against the definitions of mean and variance |
| `MonteCarlo` | the pricers | extends `OnlineStats` |
| `*Proofs` | theorems of the module they are named after, and of those that extend it or that it extends; `CrossSectionalProofs` is about `MarketFeed`, `SnapshotStore` and `LiveLoop` | TLAPS |
| `MC*` | model values of the TLC runs | |

Every module that models code has a section *Slips*: mutated forms of its
definitions, used only to show that each property notices a plausible bug.

**LockFreeQueue.**  The variables `buffer_`, `head_`, `tail_` are the members.
`push` is `PushFull`, or `PushBegin`, `PushWrite`, `PushPublish`; `pop`
likewise.  An acquire load may return an old value, so `headVis` and `tailVis`
are the values the other thread's loads return now; they catch up in steps of
their own.  To state that there is no data race the model tracks happens-before
per slot: `headMsg[h]` is the set of slots whose last write a load of `h`
synchronizes with, `consKnows` those the consumer is synchronized with, and the
same the other way round.  `NoDataRace` says that a thread about to touch a slot
is synchronized with the other's last access.  `ImplementsFifo` is a refinement:
the item is in the channel when `head_` is stored, out of it when `tail_` is.

**QueueDepth.**  `main_feed.cpp` samples `size()` from its own thread.  The two
loads are two steps, anything happens in between.  The loads return the values
in memory (x86; they are relaxed).

**SnapshotStore.**  The members `prices_` and `volumes_` are `cells`.  Writer
and readers race on plain memory, which the C++ standard leaves undefined; the
program is built with AVX2 for x86, where a locked `fetch_add` is a full
barrier, stores become visible in order and loads are done in order.  What is
left to the compiler is the order of the stores within a section and of the
loads within a copy: the model does them in any order.  A section may update
any number of assets (one in the feed, all in `snapshot_test.cpp`).  `bids_` and
`asks_` are written alike and read by nobody, so they are left out.

**LiveLoop.**  `main` is one of the readers of `SnapshotStore`, the consumer of the
feed its writer, here with one update per section.  A cycle takes a snapshot,
and what follows (`calculate_zscores_avx`, `generate_trading_signals`,
`record_cycle`) is private to `main` and one step, `Record`.  The z-scores are
exact: price minus mean and the variance are integers once scaled by the number
of assets, and `|z| > Threshold` is compared in squares.  `Threshold` is 2 in the
program; the run takes 0, for two assets are never further than one deviation
apart from their mean.  `seen` is history.

**MarketFeed.**  The owner's steps are those of `start()` and `stop()`
(creation and join of each thread), `ppc` and `cpc` the places in the two
loops.  The price walk is left open: an update has an asset and a serial
number.  `made`, `applied`, `lost` and `runs` are history.

**LimitOrderBook.**  `levels` is `bids` and `asks`; the two mirror-image
branches of `add_order` are written once for a side and its opposite.  The
refinement maps a book in the middle of the loop to the book as it will be at
its end (`Settled`), computed by the closed form.

**ThreadSafeQueue, LockBasedEngine.**  A step is the taking of the mutex, what
is done under it, or the release.  `wait` is the predicate test, blocking with
release of the mutex, and after a notify or a spurious wakeup taking it again.
The engine adds its three threads; `Script` is the order of the statements of
`main`.

**TickPrograms.**  `program` says which of the three programs runs; they differ in
the tests of their loops and in what `main` does in the end.  A tick is its serial
number; a latency is the difference of two clock readings and left open.  The
volume-weighted sums of `SignalEngine` are read by nobody and left out.  The
report sorts a copy; the export writes the latencies as they are, or nothing
when the file cannot be opened.

**AvxMath.**  One module stands for all kernels of `avx_math.hpp`, for
`ZScoreStrategy` and `sum_avx2`: they differ in what they do with an element, and
that is left out.  `kernel` says whether it reduces or maps, needs alignment,
and takes the early exit of a z-score without deviation.  `lanes` are the
accumulators, `total` is the scalar sum or the elements written.  `site` is who
calls; it decides whether the aligned version is taken (`CallAligned`) and where the
arrays lie.  `reads` and `writes` are their addresses, each its own: those of the
program are where an `AlignedAllocator` may put them (`allocate`), those of a sector
begin anywhere inside (`PlacesAt`), and the array that the caller of
`calculate_zscores_avx` passes for the scores is at any address (`WrittenAt`).  An
aligned access at another address is undefined: the kernel stops (`Fault`) or goes on.

**SectorIndex, SectorBacktester.**  The constructor's three loops, then the
statements of `run()`.  Instead of numbers the model follows their origin: a
price is an asset and a period, a score a price and those it is compared with, a
profit the signal and return of each asset.  The kernels are one step
here; `AvxMath` is about them.

**TimeSeries.**  The variables are the members; `mean` is what the last call
divided.  `get_mean_simd` calls the kernel with the number of prices in use and
runs its loops step by step; `get_mean` is one step.  The same module lets
any other caller run a kernel on any array, so that its run checks the kernels as
well.  The refinement reads the ring from its oldest element.

**OnlineStats, MonteCarlo.**  `Add` is the recurrence over rationals; rounding is
left out.  A pricer draws an array of variates for a path, builds the path from
them, and adds the payoff; the antithetic one negates the same array in place.
Powers of 2 stand for those of e, so that prices stay rational (`Scaled`), and the
square of the standard error is kept; `Undefined` is the 0 / 0 of no path.

## The runs

| Run | Shows | Bounds, and why they are enough |
|---|---|---|
| `queue` | no data race, FIFO, depths in range, progress | 2 items (3 slots), 2 values: indices wrap, full and empty both occur, both values distinguish order, the consumer can overtake a sampled head |
| `queue_depth` | finding: a depth never reached | the same |
| `live` | no torn read, atomicity, a snapshot returns, a cycle counts the signals of a state of this cycle | 2 assets, 2 prices, 2 cycles, 2 sections (`MaxSeq` 4): a copy may be overlapped by one or both; 1 reader, since readers only read what they share |
| `feed` | accounting of updates over restarts, `stop()` returns, updates are applied | queue of 2, 5 updates, 3 starts, stores of 0 and 2 assets |
| `feed_drops` | finding: an update is dropped | queue of 1, 3 updates |
| `book` | refinement, uncrossed, conservation, termination | 3 prices, quantities 0..3, 6 resting: several levels per side, partial and multi-level fills |
| `lock_queue` | no lost wakeup, no pop of an empty queue | 4 threads in any role, 3 items, 1 value |
| `lock_engine` | the engine ends when stopped, order | 4 ticks and the dummy |
| `tick_programs` | ticks in order and once, the benchmarks report on all of them, the programs end | 7 ticks, a ring of 2: full and empty both occur, stopped at any moment; 2 latencies, so that order and percentiles tell |
| `backtest` | stable order, no look-ahead, sector-neutral scores | all assignments of 4 assets to 3 sectors (empty sectors, permutations that are not their own inverse), 2 periods: the buffers are swapped twice |
| `series` | the ring is a sliding window for both means; each element once; a misaligned access only to an array that was passed misaligned | registers of 4, capacity 5 (one register and a tail), lengths 0..14 for other callers: none, below one register, one to three with every tail; a sector anywhere in its array, the array passed for z-scores at any address; prices 1 and 10, whose sums tell how often each occurs |
| `pricers` | the recurrence is exact, the pricers price their draws | 0 to 4 paths, 0 to 2 steps, draws up and down; prices above, at and below the strike |

`MCMarketFeed*`, `MCLockBasedEngine`, `MCLiveLoop`, `MCTickPrograms`, `MCTimeSeries`,
`MCMonteCarlo` and `MCSectorBacktester` switch deadlock detection off: there the program
stops (the bounds on runs are used up; `main`, the kernel, the pricer or `run()` has
returned).

Bounds that the code does not have: `MaxSeq` (the sequence number is 64 bits),
`MaxUpdates`, `MaxRuns`, `MaxVolume` (levels are `int`; the model stays below),
`MaxItems` (the queue is unbounded), `MaxTicks`, `NUM_TICKS` for the lock-free engine
(a constant of the benchmark only), `MaxCycles` (the loop runs for a given time),
`MaxSize` (lengths of arrays), `MaxPaths`, `MaxSteps`.

### Fairness

- `LockFreeQueue`: a started push runs on, the consumer polls (both consumer
  loops of the repository do), a store becomes visible eventually.  The
  producer need not push.
- `SnapshotStore`: each reader runs; a section has finitely many ticks, so its
  `write_unlock` comes (strong fairness).  Nobody has to start one.
- `LiveLoop`: `main` is scheduled, and the consumer ends a section it has begun.
- `TickPrograms`: the three threads are scheduled; the user need not press Enter.
- `MarketFeed`: the three threads are scheduled; the owner need not call.
- `LimitOrderBook`: `add_order` runs until it returns.
- `LockBasedEngine`: the threads are scheduled, and a mutex that becomes free
  again and again is obtained (strong fairness of `Lock` and `Relock`): without
  it the spurious wakeups of one thread could keep another from the mutex.
  A spurious wakeup is never assumed.

## Findings

1. `PERFORMANCE.md:155` promises no packet drops; an update whose push is
   refused when `stop()` is called is dropped (`NoDrops` violated).
   `OneLossPerStop` shows that it is at most one per `stop()`.
2. `PERFORMANCE.md:149` reads a depth of 100% as a full queue; `size()` loads
   `head_` before `tail_` and can report a full queue that is nearly empty
   (`DepthWasReached` violated).  `ExactUnlessOvertaken` says when it is right.

Two remarks.  `avx_math.hpp:119` requires aligned pointers of the callers of
`avx_zscore`, but `signal_engine.hpp:18` does not pass this on, and
`signal_engine_test.cpp:75` gives `calculate_zscores_avx` a plain `float[]`, which the
compiler need not align.  `FaultsAtPassedArrayOnly` shows that this is the only array
that can be misaligned; the run reaches `Fault` with it.  `main_lock_based.cpp:46` prints "Engine stopped cleanly." before the
threads are joined; they do end (`StopCompletes`).

## The proofs

All of them are inductive-invariant proofs, checked by TLAPS for every value of
the constants under the named assumptions of the modules.

- `LockFreeQueueProofs`: type correctness, `NoDataRace`, and the refinement of
  `Fifo`, for a buffer of any size and any items.  `NoDataRace` is not
  inductive.  The strengthening says where the four indices lie around the ring
  (`tailVis`, `tail_`, `headVis`, `head_`, in this order, within one turn),
  which slots each message covers, and which slots each thread knows.  The
  lemmas are about distances on the ring, where subtraction wraps.  The last part
  is about `QueueDepth`: `DepthInRange` and `ExactUnlessOvertaken`.  Its invariant
  relates the head loaded, the pops since then and the distance from `tail_`,
  and rests on the invariant of the queue.
- `CrossSectionalProofs`, first about `MarketFeed`: type correctness, `Accounted`,
  `OneLossPerStop`, `CountSettled` and `OneThreadEach`, for a queue of any size and any
  number of starts and stops.  The invariant: what a thread holds where it holds
  something, where the threads are at each place of the owner, the counter against the
  history, the losses against the runs, and `Accounted` itself.  Two lemmas carry it: a
  new update goes to the end of the journey, one given up is taken from its end; every
  other step leaves the journey as it is, for an update moves from the end of one
  part to the beginning of the next.
  `StoppedThreadsWindDown` is what `StopReturns` rests on: when `stop()` has cleared
  `running_`, every step of a thread lowers a count of the steps the two have left,
  seven at most, whether the queue is full or empty.
  Then about `SnapshotStore`: type correctness, `NoTornRead` and
  the refinement of `AtomicStore`, for any number of assets and readers.  The
  invariant: the number is odd exactly in a section, a reader's number is never
  above it and even, and while they are equal each cell copied is the published
  one.  Last about `LiveLoop`: `CyclesAreCurrent`, for any number of assets, readers and
  cycles, and that the loop is a behaviour of `SnapshotStore` (so its theorems hold
  in the loop).  The invariant adds to that of the store that, while a snapshot is
  under way, the present state of the store is among those seen, and that what has
  been returned is one of them; it rests on `result` being a published state.
- `TickProgramsProofs`: `TicksInOrder` and `ReportsAllTicks`, for a queue of any size
  and any number of ticks, in all three programs.  The invariant is of the same kind:
  what each thread holds at each place, that only an engine gives up a tick, when it
  has been stopped, and then its last; and for the report, that what is kept are the
  latencies in order of arrival, that a thread of a benchmark ends with all
  its ticks made or processed, and that main waits for both.  `Ascending` states what
  `std::sort` promises; the lemmas show that such an arrangement exists
  (an element goes to the place that is its rank) and that it has as many values up
  to each latency as what was kept has.
- `LimitOrderBookProofs`: type correctness, `Uncrossed`, `Balanced` and the refinement
  of `OrderBook`, for any set of prices and quantities.  `Uncrossed` needs that a best
  level exists (prices are bounded, so a nonempty set of them has a least and a
  greatest member, from well-founded induction on sets) and that when the loop
  ends no opposite level crosses the order.  `Balanced` needs what a sum over
  the levels does when one level is added, changed or removed: the sum is a fold
  over a set in an order that is not known, and two facts about it follow from the
  least size of a set for which they would fail (`LeastNatural`), in place of an
  induction.  The refinement shows
  that an iteration does not change the closed form of what is still to come:
  the level it takes is the first of those the order crosses.
  `IterationsTrade` is the measure of the loop: every iteration lowers the quantity
  left to match.  `AddOrderReturns`, which TLC checks, rests on it.
- `TimeSeriesProofs`, first about `AvxMath`: type correctness, `EachElementOnce` and
  `FaultsAtPassedArrayOnly`, for registers of any width (eight floats, four doubles) and
  arrays of any length.  The invariant: the elements below the index have been used
  and no others, and lane `l` holds those that are `l` modulo the width, so that no
  two lanes share one; in the loop over registers the index is a multiple of the width, and
  so is the address of every array of an aligned kernel but one passed by the caller of
  `calculate_zscores_avx` (`WellPlaced`).  Then about the series: the same two properties of the kernel
  it calls, that this kernel never faults (`SeriesNeverFaults`), and that it implements `SlidingWindow`, for any capacity and prices.  A
  push at a full ring moves every place of the window by one, modulo the capacity
  (`TickAppends`).  The means add up the beginning of the array and the window is in
  another order: the sum over other indices of the same values is the same
  (`TotalMapped`), and the places of the window are exactly the beginning of the
  array.  The invariant adds to that of the kernel that it has been given the length
  of the series (`Called`).  The lemmas about sums are those of
  `LimitOrderBookProofs`, stated again, since neither module can extend the other.
- `ThreadSafeQueueProofs`, first about the queue: the mutex, `NoPopOfEmpty` and
  `NoLostWakeup`, for any finite number of threads.  The invariant is their
  conjunction with the function each thread is in at each place (`InCall`).
  `NoLostWakeup` counts: a push adds an item and a thread awake, a pop removes both,
  and a thread goes to sleep only when there is no item.  Then about
  `LockBasedEngine`: that the engine is a behaviour of the queue, and
  `ProcessedInOrder`, for any number of ticks.  The invariant describes the line of
  ticks: what has been processed, the one in the consumer's hand, the queue, and
  the one being pushed are the ticks in the order of making, up to
  the first dummy.  Here `EngineAssumption` (the three threads are distinct, the
  dummy is no tick, every call may be made) is a hypothesis of the theorems, since
  the queue's own theorems do without it; `MCLockBasedEngine` assumes it, so that
  TLC evaluates it.
- `SectorBacktesterProofs`, first about `SectorIndex`: `IndexIsStableOrder`, for any
  number of assets and sectors and any assignment.  The invariant says of each loop
  what the offsets count so far; one lemma says what an asset more does to
  a count, another that before a sector come those before the last one and those in
  it.  Then, that no two assets have the same place (`RankInjective`) and that a
  sector's places are all taken (`RankOnto`: an injection between finite sets of equal
  size is onto).  With these, about `SectorBacktester`: `NoLookAhead` and
  `SectorNeutral`, for any number of periods.  The invariant (`Flow`) says at each
  statement which scores, signals and returns have been computed, of which
  period, and that the profits of closed periods are theirs.

- `MonteCarloProofs`, first about `OnlineStats`: `StatsAreExact`, for any values and
  any number of them.  Two quotients are the same number in lowest terms exactly if
  their cross products are equal (`SameQuotient`: `Lowest` takes the least denominator,
  which equal quotients share), so an equation between rationals is a polynomial
  identity over a common denominator.  The invariant (`StatsInv`) does not mention the
  distances from the mean, which all change with each value: the sum of the samples is
  `count_` times `mean_`, and `m2_` is the sum of their squares, less twice the mean
  times their sum, plus `count_` times the mean squared (`Expanded`).  One lemma says
  that this is kept by the recurrence (`SquaresStep`), another that it is what the squared
  distances add up to (`SquaresExpand`).  Then about `MonteCarlo`: `PricesItsDraws`, for
  any draws, paths, steps, spot, strike, drift, volatility and discount.  A path is
  built by scaling, and to scale twice is to scale by the sum of the exponents
  (`ScaledTwice`), so its last price depends on the sum of the draws only (`PathEnds`), and
  that of the mirror image on the negated sum.  The invariant (`PricerInv`) adds to that
  of the statistics that the samples are what the finished paths are worth, and what
  the array at hand and `first` are while a path or its mirror image is under way.

Where the code recurses or adds up (`PowerOfTwo`, `generate_path`, the sums), the proofs
show that the function meant exists, and reason about the least number for which a
statement would fail (`LeastNatural`), in place of an induction.

Only model-checked: all liveness (`ItemsArePopped`, `FullPasses`, `SnapshotsReturn`,
`StopReturns`, `UpdatesAreApplied`, `AddOrderReturns`, `StopCompletes`, `ProgramEnds`);
fairness and `ENABLED` are out of the prover's reach.  `IterationsTrade` and
`StoppedThreadsWindDown` prove the measures that two of them rest on.

## Not modelled

- Floating-point rounding, random number generators, formatting, wall time and
  throughput.
- `SignalPipeline` and `MomentumSignal`: a fold over stateless calls and one call of a
  kernel; they keep no state.
- `print_book`, `empty()`, getters, summaries: they change nothing.
- `demo/crash_test.cpp`: a data race on purpose, which promises nothing.
- Tests and benchmarks other than the queue benchmark: they drive the components
  above.
- Memory models weaker than x86 for the Seqlock.
- `OnlineStats` over the integer types its README allows: the model is exact.
- Orders with a negative quantity: `int` admits them, nothing in the program makes one.
- `BlackScholesModel` computes drift and volatility per step from `dt`: the model takes
  both as given, so it would not notice a wrong `dt`; and since `generate_path` writes
  every element of the path buffer, the model makes the path anew each time.
- Overflow of a level's `int` (`LimitOrderBook.cpp:19`): undefined, and nothing is
  promised about it.

## Plan

Done: every component that keeps state is modelled, and every safety property the runs
check is proved.  Left: shorter proofs.  The lemmas about sums are stated in
`LimitOrderBookProofs`, `TimeSeriesProofs` and `MonteCarloProofs` (there for rationals),
since none of these modules can extend another; a module of sums with an operation as a
parameter would need theorems with operator parameters, which the provers do not
instantiate.  And, for the liveness properties other than `AddOrderReturns` and
`StopReturns`, the measures that decrease.
