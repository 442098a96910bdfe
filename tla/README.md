# Verification of the order matching engine

The repository is an order matching engine behind an HTTP API
(Rust, axum, parking_lot). Clients submit limit and market orders for a symbol,
cancel them, and query orders, books and metrics. This project models the part
that decides what is bought and sold (the orders, the order book, the matching
engine, and the threads that call it), what the clients are told of it, every
lock the program takes, and the metrics that are read while the engine runs; and
it replays the repository's own unit tests on the models. All paths below are relative to
`src/src/`.

Contents: [the system](#1-the-system), [the modules](#2-the-modules),
[the properties](#3-the-properties), [the runs](#4-the-runs-and-their-bounds),
[fairness](#5-fairness), [the proofs](#6-what-is-proved),
[what disagrees with its comments](#7-where-code-and-comments-disagree),
[what is left out](#8-what-is-not-modelled), [the plan](#9-plan).

## 1. The system

| component | code | state | operations |
|---|---|---|---|
| Orders | `models/order.rs` | per clone: `filled_quantity`, `status` (the rest never changes) | `validate`, `new`, `fill`, `cancel`, `remaining_quantity`, `is_filled` |
| Price level | `orderbook/price_level.rs` | a `VecDeque<Order>`, the cached `total_quantity` | `add_order`, `remove_order`, `front_mut`, `pop_front`, `reduce_total_quantity` |
| Order book | `orderbook/book.rs` | bids and asks (`BTreeMap<u64, PriceLevel>`), `order_locations` | `add_order`, `remove_order`, `remove_order_location`, best prices, side totals, count, `to_response` |
| Matching engine | `matching/engine.rs` | `order_books`, `orders`, `trade_count`, each behind an `RwLock` | `submit_order` (market, limit), `cancel_order`, getters |
| Trades | `models/trade.rs` | none | records made by the engine and told in answers; `TradeSummary` (no caller) |
| Metrics tracker | `metrics/tracker.rs` | a histogram and a counter, each behind an `RwLock` | `record_latency`, `reset`, percentile and throughput reads, `get_metrics` |
| API | `api/handlers.rs`, `api/routes.rs` | none | one handler per endpoint, each one call of the engine or the tracker |
| Application state | `state.rs` | two `Arc`s: every handler shares one engine and one tracker | `new`, `clone` |
| Errors, response types | `error.rs`, `models/*` | none | errors to status codes; records for the answers |
| Start-up | `lib.rs`, `main.rs` | none | configuration, sockets, logging |

How they interact. A handler runs on a thread of the tokio pool and calls the
engine synchronously, so any number of calls run at once and meet only at the
three locks. A submission makes its order first (`engine.rs:86`), then takes
`order_books` for writing and keeps it until it returns; under it, it takes
`orders` once per price level, `trade_count` once, and `orders` again to store
its own order. A cancellation takes `orders` to check, `order_books` to remove
and `orders` to mark, one after the other, and holds nothing in between. An
order exists in up to three copies: the submission's own, the clone queued in a
price level, and the clone in the `orders` map that status queries read.

What is hard about it:

* *Three copies of one order.* The clone in the book is filled trade by trade,
  the stored one only when its level has been swept. Nothing but the order of
  the statements keeps them together.
* *A cancellation that acts on an old answer.* The order it checked may be
  filled, partly filled or cancelled before it is removed, and again before it
  is marked.
* *Redundant state.* `total_quantity`, `order_locations` and the empty-level
  clean-up are maintained at three places by three mechanisms (the sweep pops
  the queue directly), and market orders are admitted by the cached totals.
* *An assertion after the fact.* `engine.rs:129` asserts that an admitted market
  order is filled, after its trades have been applied.
* *u64.* `price_level.rs:28` adds without a check and the side totals sum
  without one: a debug build panics, with the write lock held and the location
  already recorded, and a release build wraps.
* *Told, stored, counted.* A trade is pushed to a result, counted after the
  sweep, stored in its orders level by level, and told at the end; the kind of
  an answer and the status in it are chosen apart from the stored status.
* *Torn reads.* `get_metrics` reads nine fields under nine separate locks, in
  the middle of whatever the engine and the tracker are doing.
* *Lock order.* Five locks, up to two of them nested, and readers that wait for
  writers that wait for readers.
* *Arrival.* Id and timestamp are taken before the lock, the place in the queue
  under it.

What makes each component correct:

* orders: fills only grow, never exceed the quantity; cancelled is final;
* price levels and book: every queued order is in the one queue of its own side
  and price, once; the cached total is the sum of what the queue has left; no
  empty levels; the locations are exactly the queued orders;
* engine: best price first and first come first served within a price; no
  crossed book; what buyers bought is what sellers sold; no order is lost; an
  admitted market order is filled; the lock is released on every way out; every
  call returns;
* trades and answers: every trade is between a buyer and a seller, at the price of
  the one who waited; all trades that happened are told, once; an answer says
  what a status query says from then on; the book that is shown is the orders
  that are open;
* metrics: each stored order is recorded once and nothing else is; an answer of
  `get_metrics` mixes several moments, but the engine's four counters in it never
  fall, and its throughput counts at least the orders its percentiles are
  quantiles of;
* the locks: no circle of waiting threads, and every call ends.

## 2. The modules

```
Order  <-  OrderBook  <-  MatchingEngine  <-  EngineProperties  <-  EngineInvariant  <-  MCEngine
EngineInvariant  <-  EngineProofs  <-  BookProofs  <-  TotalsProofs  <-  RefinementProofs
SumLemmas                  <-  TotalsProofs, LocksProofs
RefinementProofs, Api      <-  ApiProofs
TotalsProofs, Metrics      <-  MetricsProofs
Locks                      <-  LocksProofs
Order  <-  LimitOrderBook  (abstract; EngineProperties has the INSTANCE the engine implements)
OrderBook                  <-  Trades
EngineProperties, Trades   <-  Api      <-  MCApi
EngineProperties, Tracker  <-  Metrics  <-  MCMetrics
EngineProperties           <-  Traffic
Api, Tracker               <-  DataTests  <-  EngineTests
Locks
```

**Order** (`models/order.rs`). A request is a record of the fields that never
change; the requests accepted by `Validate` are `Request`. A clone of an order
is a *copy* `[filled, status]`, with `Fill`, `Cancel`, `RemainingQuantity` and
`IsFilled` as in the code. Status "Absent" marks an id that a map or a queue
does not hold.

**OrderBook** (`orderbook/`). One side of a book is a function from the prices
that have a level to `[orders, total_quantity]`; `orders` is the queue of ids.
`AddOrder`, `RemoveOrder`, `ReduceTotalQuantity`, `DropIfEmpty` are the
operations, `SideResponse` is a side of `to_response`, with u64 as wide as the constant `U64Max` says. `order_locations`
maps an id to the side and the price its order has anyway, so only its set of
keys is kept.

**MatchingEngine** (`matching/engine.rs`). The state of the engine, the threads
(`Tasks`), and one action per step of a call:

| action | code |
|---|---|
| `Refuse` | a request `validate` refuses; cancellation of an unknown, filled or cancelled order |
| `SubmitOrder` | `submit_order` up to the lock: the order and its id are made |
| `StartMatching`, `RejectMarket`, `PanicInSum` | taking `order_books`; the liquidity check of a market order, its early return, the debug build's overflow in the sum |
| `Trade` | one turn of the loop of `match_at_price_level` |
| `FinishLevel` | what follows the loop: total, stored fills, locations, empty level |
| `CountTrades` | return of `match_order`, the assertion, `trade_count` |
| `StoreFilled`, `StoreResting`, `PanicInAdd` | storing the order, adding it to the book, the overflow in `PriceLevel::add_order`; each drops the guard |
| `CancelCheck`, `CancelRemove`, `CancelMissed`, `CancelMark` | the critical sections of `cancel_order` |

`writer` is the write holder of `order_books`. The locals of a submission that
holds it are global variables, because at most one submission has any. The
critical sections of `orders` and `trade_count` take no other lock while they
run, so each is one step together with the code around it. No thread reads or
writes the books without the lock, so cutting a submission into these steps
loses no interleaving that another thread could notice: `orders` is the only
shared state that is touched outside `order_books`, and every write to it is a
step of its own.

Ids are Uuids in the code; here they are 1, 2, ... in the order of the
`Order::new` calls. Nothing
compares them (section 7). The engine's `OrderBook` of a symbol is created on demand and never removed, and no operation tells an empty
one from none; a symbol with nothing in it stands for both, including the one a
rejected market order creates.

**LimitOrderBook** is what the engine promises, with none of its mechanisms: a
line per symbol, side and price; one order at a time arrives, trades with the
first order of the best line it accepts as long as there is one, and what is
left of a limit order joins the end of its line. A market order cannot leave
before it is filled. A limit order is turned away only if it has not traded,
accepts no offer, and the line it would join is full: what waits there leaves no
room in a u64 for it. `BookSpec` is this market; `BusyBookSpec` is the same
market with requests that never stop (`AskAgain`) and fairness of its own steps.

**Trades** (`models/trade.rs`, the `MatchResult` of `engine.rs`). A trade is the
record that `Trade::new` makes, without id and time; `TradeSummary` with it.

**Api** (`api/handlers.rs`, the responses of `models/`, `error.rs`) is the engine
with what its clients are told. `result` is the `MatchResult` of the submission
that holds the lock; `ledger` is the list of all trades that answers have told,
which no program variable holds and which the properties compare with what the
engine stores. Every action is an action of the engine together with what it
does to these two: `Match` appends the next trade to the result, `Succeed` tells
it, `TurnDown`, `Panic`, `Confirm` and `Silent` tell no trades. The answers are
operators (`SubmitAnswer`, `InsufficientLiquidity`, `CancelAnswer`, `GetOrder`,
`GetOrderBook`, ...), computed from the state of the step that returns.

**Tracker** (`metrics/tracker.rs`) is the data of the tracker: the clamp, the
refusal of the histogram, percentiles of an exact histogram.

**DataTests** and **EngineTests** are the repository's tests. The unit tests of
the data structures (orders, trades, price levels, books, tracker, errors) are
definitions named like the tests and gathered in assumptions that TLC
evaluates. The tests of the engine, the API and the shared state are scripts, named
likewise: the calls a test makes, each with what it asserts of the answer.
`Begin`, `Continue`, `Refusing` and `Reading` run the next call of the script
through the actions and answers of `Api`, and `TestsPass` compares. A model that
disagreed with a test could not be a model of this code.

**Metrics** (`metrics/tracker.rs`, `api/handlers.rs`) composes the engine with
the tracker and a monitor. `EngineStep` is any step of the engine by a task that
owes no record; a submission that succeeds makes its task owe one; `RecordLatency`
and `CountProcessed` are the two halves of `record_latency`, between which the
histogram is locked; `GetMetrics` and `ReadField` are a call of `get_metrics` and
each of its nine reads. Of a latency the model asks only whether the histogram takes it
(`Durations` has one that rounds to nothing and one above the bound). The five
counts of the engine are read as they are (`metrics`). Of the other four fields,
three quantiles and a rate, the model keeps no value, for it has neither durations nor a
clock: `samples` is how many records each was computed from. Their values
go up and down, and no property is about them.

**Traffic** (`matching/engine.rs`) is the engine under calls that never stop
coming. An order that is over (filled, cancelled, turned down, and known to no
call and no book) can never change again, so `SubmitAgain` gives its number to a
new one; `MaxOrders` then bounds the orders that are alive at a time and not the
length of a behaviour. Only here can other threads keep taking the lock for
ever while one waits for it, so the liveness properties of the engine are stated here.

**Locks** (all of the above) forgets the data and keeps every lock operation. A
call is the sequence of its operations (`SubmitOrder(n)` for a submission that
sweeps n levels, `FailedOrder`, `CancelOrder`, `GetMetrics`, ...); a thread is
what its call has still to do. The locks are parking_lot's: a writer claims a
lock that has readers, waits for them to leave, and admits no new one. It is what
justifies two simplifications of MatchingEngine: that the inner critical sections
can be single steps, since nobody can be stuck in one, and that readers of
`order_books` need not be shown, since they delay a writer and never stop it.

**EngineProperties** states the properties and the refinement mapping;
**EngineInvariant** the inductive invariants; **MCEngine** the symmetry for TLC;
the modules named ...**Proofs** the proofs (section 6), and **SumLemmas** what they
need of sums over finite sets. Definitions commented "Mutant" are plausible
mistakes in the definition that follows them: each property is known to fail
when its mutant is put in place.

## 3. The properties

Those marked *unlocked* hold whenever nobody holds `order_books` for writing,
which is exactly when a reader can look at the books.

| property | says | a bug it would catch |
|---|---|---|
| `TypeOK` | types and ranges, also: an idle task is bound to no order | a call that returns with its state left behind |
| `LockDiscipline` | the lock is held by exactly the task between taking it and returning | a guard that survives the panic of its thread |
| `BookMirrorsStorage` | queued clone = stored order + fills pending for this level; each order once, in its own line | fills stored for the removed orders only; a filled order left in the queue |
| `NothingLost` | an active stored order is queued, just swept out, or between removal and mark | dropping a level that still has orders |
| `LocationsMatchQueues` (unlocked) | `order_locations` = the queued orders | a removal that forgets one of the two |
| `LevelTotals` (unlocked) | cached total = sum of what is left; no empty level | a pop without a reduction |
| `LiquidityNotOverstated` (unlocked) | the (wrapped) side total never exceeds what the side really has | as above, in the build where totals wrap |
| `Uncrossed` (unlocked) | every bid below every ask | an order that does not meet its own price |
| `Conservation` (unlocked) | per symbol, stored fills of buyers = stored fills of sellers | one side of a trade not stored |
| `MarketOrdersFill` | the assertion at `engine.rs:129` cannot fail | an admission check against the wrong side |
| `TradesAreBounded` (unlocked) | no more trades than filled orders | trades that finish neither order |
| `CancelledIsFinal` | no fill and no change of status reaches a cancelled order (a second cancellation touches its `updated_at`, which is left out) | a cancelled order that stays in the book and trades |
| `FillsOnlyGrow` | a stored order loses no fill and is not overfilled | a fill quantity that forgets one of the two orders |
| `RemovedTradesNoMore` | no trade reaches an order between the removal and the mark of its cancellation | an order marked before, or without, its removal from the book |
| `PanicLosesNoTrade` | the order dropped by an overflow panic has not traded | trades whose taker is in no map |
| `PriceTimePriority` | the engine implements `LimitOrderBook!BookSpec` | wrong direction of the levels, wrong end of the queue |
| `SweepsEnd` | each step of the holder of the lock leaves less of its submission to do; no step of another thread changes that | a loop that neither takes an order out nor moves to the next price |
| `CallsReturn` | every call returns, though others keep taking the lock for ever | a guard that is never dropped; a lock that may pass over a waiter for ever |
| `ArrivalsAreHandled` | the engine implements `LimitOrderBook!BusyBookSpec` | a loop that does not end when its level is empty |

Of the answers and the trades in them:

| property | says | a bug it would catch |
|---|---|---|
| `ApiTypeOK` | a result belongs to the submission that holds the lock, and has the trades that are counted | trades carried over into the next answer |
| `LedgerBalances` (unlocked) | for every order, the stored fill = the sum of the trades told of it; the counter = the trades told | trades of an order that then rests, or panics, told nowhere |
| `TradesAreFair` | each trade has its buyer, seller and symbol right, the resting order's price, which the taker accepts; a taker's prices only get worse; submissions do not interleave | buyer and seller not swapped for a selling taker |
| `ServedInTurn` | while an order that has traded as a maker waits, nobody of its side at a price that is not better trades as a maker | a new order put in front of a partially filled one |
| `StatusIsBetween` | at any moment, also during a sweep: told <= stored fill <= told + the trades of the answer being made | fills stored for the orders that were popped only |
| `AnswersTellTheTruth` | status, fill, remainder and trades of an answer agree with what is stored by the same step; the order waits exactly if it is not filled; a confirmed cancellation waits nowhere | the remainder computed before the fills |
| `BookResponseShowsOpenOrders` (unlocked) | at every depth, `get_order_book` lists the best prices of the active orders, best first, with what they have left | a cached total that misses a fill; a level skipped |
| `RejectedOnlyWhenShort` | a market order is turned down only if the other side has less left than it asks for (debug build) | the check made against the wrong side |
| `TestsPass` | every answer of every script is the one its test asserts | anything the tests catch |

Of the metrics and the locks:

| property | says | a bug it would catch |
|---|---|---|
| `MetricsTypeOK` | ranges; only a task between two calls owes a record; only such a task records | an order that is recorded again and again |
| `EveryOrderIsRecordedOnce` | stored orders = recorded + owed; histogram and counter agree but inside `record_latency` | recording rejected submissions; a slow one that the histogram refuses |
| `ThroughputCoversPercentiles` | in one answer, throughput counts at least the orders the percentiles are quantiles of (the numbers of records behind them, not their values) | reading the fields in another order |
| `CountersNeverFall` | orders received, matched and cancelled and trades executed never fall from one answer to the next (`orders_in_book` does, and throughput and percentiles may) | a cancellation that forgets the fills |
| `Locks!TypeOK` | one writer or readers; an idle thread holds nothing | a guard that outlives its call |
| `NoCircularWait` | among any threads one waits for none of the others | the guard of the check alive during the removal |
| `EveryCallEnds` | every call of the API ends | a lock read twice in one call |

The refinement mapping of `PriceTimePriority` maps the line of a price to the queue
of its level, the taker to the order of the task that holds the lock, and what
an order has traded to the copy that is ahead: the taker's own, the queued
clone, or the stored order with the fills that have still to reach it.
`FinishLevel`, `CountTrades`, the rejections, the checks and the marks of
cancellations are invisible; `Trade`, `StartMatching`, `StoreFilled`,
`StoreResting`, `PanicInAdd` and `CancelRemove` are `Trade`, `Arrive`, `Done`,
`Rest`, `TurnAway` and `Withdraw`.

`PanicLosesNoTrade` deserves a word. When `add_order` panics, the incoming
order is dropped after it may have traded. That it has not follows from the
overflow itself: the level it joins already holds at least one order, so its
price is in the book uncrossed by the other side, and nothing the order crossed
can have been there.

## 4. The runs and their bounds

| run | instance | question |
|---|---|---|
| `engine_core` | Api, 2 threads, 3 orders, prices {1,2}, quantities {1,2}; 346 thousand states | do copies, caches, locations, priority, trades, answers and status queries survive every interleaving of submissions and cancellations, and does every sweep make progress? |
| `engine_depth` | Api, 1 thread, 4 orders, the same prices and quantities, u64 up to 4, additions panic; 738 thousand states | over longer histories (queues of three, sweeps over two levels, cancellation in the middle, panics), are the trades told and the views shown what is stored, and are clients served in turn? |
| `engine_traffic` | Traffic, 3 threads, 2 orders alive at a time, one symbol and price, quantities {1,2}, with fairness; 67 thousand states | does every call return, and is every arrival handled to the end, while the others submit and cancel for ever? |
| `engine_debug_overflow` | 2 threads, 3 orders, u64 up to 3, quantities {1,3}, additions panic; 331 thousand states | is the lock released by a panic that holds it, and is the engine sound afterwards? |
| `engine_release_overflow` | the same, additions wrap; 354 thousand states | can a wrapped total let a market order in that cannot be filled? |
| `engine_metrics` | 2 threads, 2 orders, quantities {1,2}, u64 up to 2, a monitor; 1.2 million states | what may a reader of several locks rely on? |
| `engine_locks` | 3 threads, all calls, sweeps of one level; 104 thousand states | can the locks of the program deadlock or starve a caller? |
| `engine_tests` | 59 scripts, the tests' own symbols, prices and quantities; 628 states | does the model give the answers that the repository's tests assert? |

and four runs that show a comment of the source refuted (section 7).

A property is checked in the run whose interleavings or bounds can break it,
seldom in two: `engine_core` checks the answers and the trades, for it has the races of
cancellations and submissions that could interleave, and `engine_depth` the ledger and the
views, for it has the longest sweeps and queues. `LockDiscipline` is checked in
`engine_debug_overflow`, where a submission leaves by success, by rejection, by
a panic in the sum and by a panic in the addition. (`StatusIsBetween` with nobody holding the lock is
`LedgerBalances` but for the counter, so the races are there as well.) The
theorems of section 6 have no such bounds.

Why these bounds are enough to be interesting. Two threads give every race of a
cancellation with a submission or with another cancellation: only one thread
can hold the lock, and each race is between its steps and one critical section
of the other. Starvation needs a lock that is taken for ever: in `engine_traffic`
the orders that are over make room for new ones, and one thread or two can keep
the lock busy while another waits. Three orders are two resting and
one incoming, the least that shows time priority, a sweep and an order that
gets none; the fourth of `engine_depth` adds the middle of a queue and two
levels with a queue. Two prices and two quantities give better and worse,
equal, partial and exact fills. In the overflow runs `U64Max` = 3 is reached by
one order of 3 and passed by one more, in one level or over two levels; in
`engine_depth` `U64Max` = 4 is reached by a queue of three and passed by two
orders of two and any third. `engine_core` and `engine_traffic` have
`U64Max` = 100, out of reach. `MaxOrders` is the only bound that
stops anything: the program accepts orders for ever, and so does `engine_traffic`. In `engine_metrics` two
orders that fill the level make the debug build panic, so that every way out of
a submission occurs. `engine_locks` needs three threads so that two readers can
overlap for ever before a writer; a longer sweep repeats the same nested section.

`engine_tests` has one thread, as each of its tests has, and `U64Max` = 10^9,
which none of them reaches (TLC's integers end at 2^31). `MaxOrders` = 12 is one
more than the longest script submits, so that the last id, which stands for a
fresh Uuid (`FakeId`), is never an order's. The run ends in states where a script
is over; a script that got stuck would be a deadlock. Not replayed: `test_concurrent_safety`
(ten threads, bounds only), handlers' `test_get_metrics` and routes'
`test_metrics_route` (that the fields are numbers), the tracker's throughput test
(time), the tests of the configuration, and the integration and performance
tests outside `src/`, which repeat these over HTTP.

Symmetry (tasks and symbols are interchangeable) is used in the runs without
liveness properties. Deadlock is checked everywhere: a call that is refused is
always possible in an idle task, so a deadlock would be a task stuck inside a
call with every other one stuck too.

## 5. Fairness

`Fairness` is weak fairness of a thread's own steps (`Proceed`), which says that
a runnable thread is scheduled, and strong fairness of the steps that take the
write lock (`Acquire`), which is parking_lot's documented eventual fairness: an
unlock hands the lock to a waiter from time to time, so a waiter is not passed
over for ever although others keep taking it. Weak fairness would not do, and
`engine_traffic` tells the two apart: with `WeakFairness` in place of `Fairness` TLC finds
a thread that waits to submit while another stores, cancels and submits again
in a circle, so that the lock is free again and again and never for good. No fairness is assumed of clients: nobody has to
submit or cancel. Panics are not fair or unfair, they are determined by the
state. `Locks` assumes the same of every lock, by strong fairness of each thread's
lock operations.

## 6. What is proved

All theorems hold for any set of threads, symbols, prices and quantities, any
`MaxOrders`, any `U64Max` and, where not said otherwise, either build. They
assume `DomainAssumption` and `EngineAssumption` only (prices and quantities are in
1..U64Max; "no symbol" and "no task" are not a symbol and a task). Three kinds of
hypothesis are named where they are needed. *Exact* is `OverflowChecks \/ Fits`: additions
panic when they overflow, or `Fits`, `MaxOrders` orders of any of the `Quantities` add
up to no more than `U64Max`, so that nothing can overflow. *No panic* is
`~ OverflowChecks \/ Fits`. And one theorem needs finitely many symbols.

| module | theorem | statement |
|---|---|---|
| `EngineProofs` | `Invariance` | `Spec => []IInv` |
| | `TypeCorrect` | `Spec => []TypeOK` |
| | `Locking` | `Spec => []LockDiscipline` |
| | `Mirroring` | `Spec => []BookMirrorsStorage` |
| | `NoOrderLost` | `Spec => []NothingLost` |
| | `CancellationIsFinal` | `Spec => CancelledIsFinal` |
| | `FillsGrow` | `Spec => FillsOnlyGrow` |
| `BookProofs` | `Crossing` | `Spec => []CrossingInv` |
| | `BooksUncrossed` | `Spec => []Uncrossed` |
| | `PanicsLoseNoTrade` | `Spec => PanicLosesNoTrade` |
| `TotalsProofs` | `Totals` | `Spec => []TotalsInv` |
| | `Located` | `Spec => [](SweptInv /\ LocationsInv)` |
| | `LocationsMatch` | no panic: `Spec => []LocationsMatchQueues` |
| | `LevelsAddUp` | exact: `Spec => []LevelTotals` |
| | `LiquiditySafe` | `Spec => []LiquidityNotOverstated` |
| | `NoOverflow` | `Fits`: no step of `Spec` is a `PanicInAdd` or `PanicInSum` |
| | `RejectionsJust` | exact: `Spec => RejectedOnlyWhenShort` |
| | `Supply` | `Spec => []SupplyInv` |
| | `MarketOrdersAreFilled` | `Spec => []MarketOrdersFill` |
| | `Bounded` | `Spec => []BoundInv` |
| | `FewTrades` | `Spec => []TradesAreBounded` |
| `RefinementProofs` | `Implementation` | `Spec => PriceTimePriority` |
| | `RemovalStopsTrading` | `Spec => RemovedTradesNoMore` |
| | `SweepsShrink` | `Spec => SweepsEnd` |
| | `Traded` | `Spec => []TradedInv` |
| | `Conserved` | `Spec => []Conservation` |
| `ApiProofs` | `Telling` | `ApiSpec => []ToldInv` |
| | `ResultsBelong` | `ApiSpec => []ApiTypeOK` |
| | `FairTrading` | `ApiSpec => []TradesAreFair` |
| | `Balance` | `ApiSpec => []BalanceInv` |
| | `Balanced` | `ApiSpec => []LedgerBalances` |
| | `AnswersAreTrue` | `ApiSpec => AnswersTellTheTruth` |
| | `ViewsAreTrue` | exact: `ApiSpec => []BookResponseShowsOpenOrders` |
| | `StatusesAreBetween` | `ApiSpec => []StatusIsBetween` |
| | `OrdersAreServedInTurn` | `ApiSpec => []ServedInTurn` |
| `MetricsProofs` | `RecordedOnce` | `MetricsSpec => []EveryOrderIsRecordedOnce` |
| | `ThroughputCovers` | `MetricsSpec => []ThroughputCoversPercentiles` |
| | `CountersGrow` | `MetricsSpec => CountersNeverFall` |
| | `MetricsTypes` | finitely many symbols: `MetricsSpec => []MetricsTypeOK` |
| `LocksProofs` | `LocksInOrder` | `Spec => []LocksInv` (the `Spec` of `Locks`) |
| | `LockTypes` | `Spec => []TypeOK` |
| | `NoDeadlock` | `Spec => []NoCircularWait` |

So every safety property that a passing run checks is a theorem, but for the
replayed tests.

**The engine.** All theorems rest on one inductive invariant, `IInv`, whose
parts need each other:

* `TypeInv`: the types, the lock discipline, and that a market order that is
  stored is filled. Without the last, `StoreResting` would add an order without
  a price to the book. It holds because of the assertion, which the model
  keeps as a guard of `CountTrades`; that the assertion never fails, and so the
  guard never holds anything up, is `MarketOrdersAreFilled`.
* `LinesInv`: every queued order is in its own line, once. An order is new to
  every line when it joins its own, which needs `TasksInv`.
* `WaitingInv`: a queued clone is active, not filled, and ahead of the stored
  order by exactly the pending fills. This is what makes `StoreFills` arrive at
  the right number, and what `BookMirrorsStorage` says in the client's terms.
* `PendingInv`: pending fills belong to active orders, do not exceed their
  quantities, and are gone when no task is matching; what was popped has all it
  asked for. This makes `CancelledIsFinal` and `FillsOnlyGrow` hold at
  `FinishLevel`, the only step that fills stored orders.
* `TasksInv`: an order that is being submitted is not stored and belongs to one
  task; one that is being cancelled is stored, and once its removal is over it
  is queued nowhere and has no pending fill. It is why an old answer of
  `cancel_order`'s check does no more harm than section 7 says: after
  `CancelRemove` or `CancelMissed`, and under the same lock, no sweep can reach
  the order any more.
* `StoredInv`, `IncomingInv`: statuses tell fills, and no copy is overfilled.
* `NothingLost` itself.

The proof has a lemma per action (`StartMatchingIInv`, `TradeIInv`, ...), and
lemmas for what several actions have in common: what a fill does to a copy, what
the steps that leave the queues alone preserve, what the steps that store or
release preserve, and what the operators on levels and sequences do to lines.

**The gap between the sides.** `Uncrossed` is not inductive: it speaks of the
moments when nobody holds the lock, and what it needs is true during a sweep.
`CrossingInv` has `SidesApart` (every bid below every ask, always), `SweepInv` (a
submission visits only levels it crosses and, while it is not filled, has still
to visit every level it crosses, so that it crosses none when it comes to rest)
and `OwnLevelInv` (if there is already a level at the order's own price, then by
`SidesApart` it crosses nothing and has traded nothing). `StoreResting` keeps the
gap by `SweepInv`; the panic of `PanicInAdd` needs a level at the order's own price,
because one order alone fits into a u64, and so loses no trade by `OwnLevelInv`.

**The refinement.** The invariants used are `IInv`, `CrossingInv`, `TotalsInv` (below)
and `RestingInv` (a clone that is not `Absent` belongs to an order that waits, so that
`FilledSoFar` reads the right copy). There is a lemma per action that says which action of
`LimitOrderBook` it is, or that it is invisible. Four of them carry the weight.
`Trade` is the market's trade: `BestPrice` is a price the order has still to visit,
hence by `SweepInv` one it crosses, and no line that it accepts is better, hence the
market would choose it as well; that a best price exists is an argument by least and
greatest elements, for `prices` is any set within u64. `FinishLevel` is invisible:
the stored order takes over from `filled_qty` what it is ahead by, so
`FilledSoFar` does not move, although `orders`, `levels` and `filled_qty` all do.
`CancelRemove` withdraws one order and leaves the line of the others in order.
`PanicInAdd` is `TurnAway`: the cached total that overflows is what the orders of the
line have left (`TotalsInv`, exact where overflow panics), so the line is full in
the market's own terms (`PanicFull`), and by `OwnLevelInv` there is no offer to accept.

`RemovedTradesNoMore` is read off the refinement (`OnlyTheseTrade`): in the market
only a taker and the first of a line trade, an order between its removal and
its mark is in no line by `TasksInv`, and its task is not the one that matches.

**Sweeps end.** `SweepsEnd` is the part of `CallsReturn` that needs no fairness.
`StepsLeft` counts what the holder of the lock has still to do: the prices it
has to visit, the orders that wait there (`Ahead`), one if its order is not yet
filled, and the two steps that count its trades and store it. A trade fills the
maker, and then the queue loses it, or it fills the taker (`TradeShrinks`); the
end of a level is one price less and, what is left in that queue being ahead no
longer, no order more (`FinishShrinks`); and nobody else touches the books or the
locals while the lock is held (`OthersApart`). That queues are disjoint sets of
orders, each order once, is `LinesInv`; without it a popped order could be ahead
at another price as well. So the number of steps for which the lock is held is
bounded when it is taken, and fairness is needed only for the thread to take them.

**Sums.** The model's sums (`MapThenSumSet`, `SumFunctionOnSet`) are folds, that
is a `CHOOSE` of a function that satisfies a recursive equation. The provers
cannot instantiate the library's induction over finite sets, whose hypothesis is
an operator; `SumLemmas` has it for a set of sets instead (`SetInduction`: if a
set of subsets of S has every T of which it has all the `T \ {x}`, it has them
all), from a smallest subset that it would lack, which exists because `<` is
well-founded on the naturals (`Least`). With it, a solution of the equation
exists and is unique (`SumExists`, `SumUnique`), so a sum is what the equation
says (`SumEquation`), which element is taken first does not matter (`SumSplit`),
and the rest follows: adding an element, changing a value, monotonicity,
disjoint unions, sums of sums (`SumOfSums`), images, counting.

**The totals.** `TotalsInv` says of every level at all times that it caches what
its orders have left, and for the level being swept, in addition, what the sweep
has filled and not yet taken off (`Owed`, the `quantity_to_reduce` of
`match_at_price_level`); and that only a level that is owed something may have
an empty queue, which `FinishLevel` then drops. `LevelTotals` is the case where
nothing is owed. Where additions wrap, a level caches *at most* that much: a sum
modulo `U64Max + 1` is not above the sum, and subtractions saturate. This is
enough for `LiquidityNotOverstated`, for any `U64Max` and either build; equality
is not true there (section 7, `release_rejects_liquid`), hence the hypothesis
*exact* of the theorems about totals, rejections and views. With `Fits` the sum
of the quantities of all orders is at most `U64Max` (`AllFit`), and no step
overflows.

**Market orders.** `SupplyInv` says that a market order under way lacks no more
than the orders queued on the other side have left. It begins with the check and
`LiquidityNotOverstated`; each trade takes the same quantity from both, and
orders that are popped have nothing left. When the loop is over, either nothing
is lacking or by `SweepInv` there is no level left, so nothing is queued and
nothing is lacking. So the assertion of `engine.rs:129` cannot fail, in either
build.

**Conservation.** `TradedInv` has what buyers and sellers have traded, the trades of the
sweep under way included, in terms of `FilledSoFar` of the refinement: only a
trade moves it, on both sides by the same quantity (`BothFill`).

**The locations.** `LocationsInv` says what `order_locations` has at all times:
orders that are queued, or that the sweep under way has popped
(`RemoveLocations` takes them out when it ends; `SweptInv` says that they are of
the symbol it removes from), or that an overflow panic dropped and that no
thread and no map has (`Unwound`). There are no such panics in the release
build, nor where the orders fit. In any other debug build the theorem says how
bad it can get: what `panic_leaves_location` shows is the only way.

**The trades.** `DoneOrders` are the orders out of the market for good: stored filled,
swept out, or incoming and filled. No step takes one out of this set and every trade
puts one in, so there are no more trades than done orders (`BoundInv`).

**The answers.** Every step of `ApiSpec` is a step of `Spec`, so the above holds
under the API. `ToldInv` has what is told (by stored orders, in `LedgerInv`) and what
is still to be told (by the order being matched, in `ResultInv`). They cannot have a
taker in common, which is why a taker's trades are contiguous; and no price that
a submission has still to visit is better than one it traded at.

`BalanceInv` says, of every order and at every step, that the trades told and
those of the result being built add up to what the order has traded
(`FilledSoFar`); the two sums are over the indices of lists, and grow by one
term (`TotalIsSum`). Between two submissions that is `LedgerBalances`; at the
step that answers it is `AnswersTellTheTruth`: the total of the trades in an
answer is the filled quantity that is stored at that step.

Between two submissions `StatusIsBetween` is `LedgerBalances`. During one, `PendingTold`
says that the fills which have still to reach the map are of trades in the
result, so the stored fill, which by `BalanceInv` falls short of told plus result
by what is pending, is not below what was told; of the order being matched itself
nothing has been told yet (`TakerUntold`).

For `ServedInTurn` the invariant is `TurnInv`: besides the property, whoever has
traded as a maker and still waits is the first of its line (`FirstInLine`). The
first of a line stays first as long as it is there, because lines only lose
elements and grow at the end. That they do is not looked up in the actions of
the engine but in those of the market (`LineSteps`, by the refinement). The next
trade is with the first of the best line, so no maker before it at a price as
good can be waiting (`MatchTurn`): it would be first of the same line, or of a
better one that the trade passed by. A panic drops the result, and what holds
of a list holds of its beginning (`TurnOfBeginning`).

For the views, a level's place in a response is one more than the number of
better levels. The places are 1 to the number of levels, each of one level: that
there are no gaps is by counting, a one-to-one map from the levels to as many
places (`PlacesInOrder`). So a response of depth n is the n best levels in
order, and by `TotalsInv` each shows what its orders have left, which are the
open orders of its price (`LevelsOpen`).

**The metrics.** `RecordInv` counts what is stored against what is recorded and
owed. `ReadInv` says of what `get_metrics` has read that it is not more than is there
now, and of the percentiles that they were counted before the throughput is read.
What a counter counts only grows, by `CancellationIsFinal`'s and `FillsGrow`'s argument.
`MetricsTypes` bounds the engine's five counts, and the samples of the other fields, by
the number of orders: the trades by `BoundInv`, and `orders_in_book`, a sum over the books, because by `LocationsInv` no order has
locations in two books. It is a sum over the symbols, so they must be finitely many.

**The locks.** A call is a sequence of lock operations, for a sweep of any
number of levels. `Leads(q, H, K)` says that the operations q lead from the
guards H to the guards K and never take a lock that does not come after all
those held, in the order `order_books`, `orders`, `trade_count`,
`latency_histogram`, `orders_processed`. Parts of calls that fit together lead
from the first's guards to the last's (`BothLead`), also when they are flattened
(by `FlattenSeq`, by the least place where it could go wrong), and so every call
leads from no guards to none. `LocksInv` says that what a thread has still to do
leads from the guards it holds to none, and that who has claimed a lock waits
for that lock. For `NoCircularWait`, give a waiting thread the height 2 * rank
of its lock, plus one if it has claimed it: it waits for one who holds the lock,
and who if it waits at all waits for a later one, or for one who has claimed it
and waits for its readers. Heights rise along every wait, so the highest of a
set of waiting threads cannot wait for another of them. Heights are at most 11,
so this holds of infinitely many threads as well.

**What is not proved.** `LocationsMatchQueues`, `LevelTotals`,
`BookResponseShowsOpenOrders` and `RejectedOnlyWhenShort` are not true without
the hypotheses they are proved under: section 7 shows what happens then. The
runs that check them are within the hypotheses. Only model-checked: the tests
(`TestsPass`) are finite scripts, which the run settles. Everything that assumes
fairness (`CallsReturn`, `ArrivalsAreHandled`, `EveryCallEnds`) is out of the
provers' reach, as is `ENABLED`.

## 7. Where code and comments disagree

| run | what it shows |
|---|---|
| `filled_then_cancelled` | an order filled between the check and the mark of its cancellation ends "Cancelled", its caller being told so, with all its trades done (`engine.rs:387`: "Cannot cancel filled orders") |
| `cancelled_twice` | two cancellations of one order both succeed (`engine.rs:392`: "Cannot cancel already cancelled orders") |
| `panic_leaves_location` | a debug build that panics in `PriceLevel::add_order` keeps the location of an order that is nowhere else, and counts it for ever (`book.rs:182`: "total number of orders in the book") |
| `release_rejects_liquid` | in a release build a level's total wraps, and a market order that the level could fill is turned down (`error.rs:18`: "Insufficient liquidity for market order") |

The last run errs on the safe side: `engine_release_overflow` shows that no market
order is admitted that cannot be filled. `engine_debug_overflow` shows that the
debug build turns nobody down wrongly: it panics first.

Two comments are right or wrong according to what "oldest" means:
`price_level.rs:11` ("front = oldest, back = newest") and `price_level.rs:44`. The
queue is in the order in which submissions took the lock (`engine.rs:159`), and
that is the priority that `PriceTimePriority` and `ServedInTurn` are about. The
id and the `created_at` of an order, which clients see, are drawn before
(`engine.rs:86`), so of two concurrent submissions the one with the later
`created_at` can be ahead in the queue. Nothing in the engine reads either, and no
run is about it.

## 8. What is not modelled

* Timestamps, message texts (but for the reasons of `validate`, which are told
  apart), trade ids, uptime, the values of throughput and percentiles while the
  engine runs (`Metrics` has the numbers of records behind them), HTTP extractors, JSON, logging.
* The precision of the histogram: a percentile of `Tracker` is exact, the
  library's is within three significant figures.
* `trade_count` has no width: it is a u64 that grows by one per trade.
* `OrderBook::remove_best_bid_if_empty`, `remove_best_ask_if_empty` and the level
  iterators: no caller and no test. `PriceLevel::pop_front`, `TradeSummary` and
  `MetricsTracker::reset` have no caller but tests and are operators that the
  tests exercise; `Locks` has `reset` as a call all the same.
* `SymbolNotFound` (`error.rs:13`), which nothing returns.
* `NoSymbol`, zero quantities and prices a client may send are refused by
  `Validate`; the Uuid generator is taken to give no id twice.
* Crashes: nothing is persisted, a restart is `Init`.
* Memory: finished orders and empty books are kept for ever by the program; the
  model bounds the orders by `MaxOrders` and tells an empty book from none by nothing.
* Start-up, configuration and shutdown (`lib.rs`, `main.rs`).

## 9. Plan

The order was: the engine and what it promises first, then its inductive
invariant and the proof, then the locks it relies on and the metrics that watch
it, then the answers, and the tests against all of it, then the proofs: uncrossed
books, the refinement, the locations, trades, answers and metrics, and last
what compares sums (totals, liquidity, conservation, the balance and truth of answers, the
views of the book), the order of the locks, the variant of a sweep and what clients
can tell of turns and statuses. What is left:

1. The refinement under the API: a specification of what clients see (requests
   in, answers out) that `ApiSpec` implements, now that `AnswersAreTrue` says of
   each answer that it is right when it is given.
2. Shorter proofs: `EngineProofs` and `ApiProofs` have steps that today's lemmas
   would do in one.
