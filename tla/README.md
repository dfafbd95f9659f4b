# TLA+ models and proofs of the HFT order book simulator

The repository is a single-threaded limit order book, a lock-free slab allocator, a
single-producer/single-consumer (SPSC) ring buffer and a market data feed that
drains such a ring on a thread of its own. This directory holds TLA+ modules of
its core, TLC configurations that check them on small instances, and proofs
for every value of the constants, checked by TLAPS.

Line numbers refer to the files of the repository (`src/`).

## 1. The system

### Components

| Component | State | Operations | Callers, calls |
|---|---|---|---|
| **Matching engine**, `order_book.hpp`, `order_book.cpp` | `bids_`, `asks_` (maps from price to `PriceLevel`, best first), `order_map_` (id to order), `pool_`, `id_counter_`, statistics, last trade | `add_order`, `cancel_order`, `amend_order`; internally `match_order`, `match_against_asks`, `match_against_bids`, `check_fok_fillable`, `execute_trade`, `rest_order`, `remove_from_book`, `publish_market_data`; queries | one thread; owns a `MemoryPool`; calls `on_trade_` and `on_market_data_` |
| **Price level and order**, `order_types.hpp`, `order_book.hpp:19` | intrusive list (`head`, `tail`, `prev`, `next`), `total_qty`, `order_count`; `Order` | `push_back`, `remove`, `empty` | the engine |
| **Memory pool**, `memory_pool.hpp` | slots, lock-free free list, `allocated_` | `allocate`, `deallocate`, counters | the engine, from one thread; made for more |
| **SPSC ring**, `spsc_ring_buffer.hpp` | `head_`, `tail_`, `buffer_` | `push`, `pop`, `peek`, `size_approx`, `empty`, `full` | two threads; the feed |
| **Market data feed**, `market_data_feed.hpp/.cpp` | ring, `running_`, consumer thread, three counters | `start`, `stop`, `publish`, `consumer_loop` | a publishing thread, a controlling thread, its own consumer thread |
| **Latency timer**, `latency_timer.hpp` | samples | percentiles | drivers |
| Driver and tests, build | - | - | `main.cpp`, three test programs, `makefile`, `git_workflow.sh` |

The engine and the feed meet only through `on_market_data_`: nothing in the
repository connects the callback of one to `publish` of the other, although the
README draws that arrow. They are modelled apart. What does meet is modelled in
layers: the engine on the stack of slots that the pool implements, the feed on
the queue that the ring implements, the driver's protocol on the feed.

### What is hard, and what has to hold

*Engine.* It is sequential; the difficulty is long sequences of legal calls
over five structures that must agree (two maps, intrusive lists, lookup table,
free list), while slots are freed and reused in the middle of a matching loop.

- The book never crosses, and every trade serves the best price first and the
  earliest order at that price, whatever partial fills, cancels and amendments
  came before.
- Links, lookup table and free list name each order once: `remove` on a level
  the order is not in would corrupt the lists without an error.
- The aggregates `total_qty` and `order_count`, adjusted in five places by
  different amounts, equal what the queue adds up to; `total_qty` has 32 bits.
- FOK is all or nothing, though the loop itself never looks at a FOK's price.
- Each path of an order gives its slot back; the matching loop ends.
- Between calls the last tick published shows the present top of the book.

- What the engine reports (trades, volume, depth, the id `add_order` returns)
  agrees with orders that may be destroyed by the time it is read, also when the
  handler of a tick calls the book from inside `add_order`.

*Price levels.* `push_back` and `remove` change up to four orders and a level;
the lists must stay whole in both directions and never touch each other.

*Ring.* Two threads without locks; each decides on a value of the other's index
that may be old. No slot may be written and read at once, nothing may be lost,
repeated or reordered, and one slot must stay empty.

*Pool.* A slot may not be handed out twice while several threads give slots
back, and the compare-exchange loops may not keep each other from finishing. A
second allocating thread is out of contract: it would meet ABA.

*Feed.* Shutdown must deliver what was published before; `start`, `stop` and a
restart may overlap; a publisher that never rests keeps `stop` waiting.

*Timer.* A percentile index at the boundaries of the number of samples.

The full list, each at its line, is `hazards` in `PROJECT.json`.

## 2. Modules

| Module | What it is | Uses |
|---|---|---|
| `OrderBook` | the matching engine, with levels, lookup table and free list | implements `Clob`, uses the pool as `SlotPool` allows |
| `Clob` | what the engine promises: one set of orders in price-time priority | |
| `OrderBookReports` | what the engine tells: trades, statistics, queries, ids, handlers that call back | extends `OrderBook` |
| `PriceLevel` | the doubly linked lists in memory | |
| `SPSCRingBuffer` | the ring with stale views of the other thread's index | implements `LaggingFifo` |
| `LaggingFifo` | a queue that its two ends see with delay: what the ring promises | |
| `MarketDataFeed` | `start`, `stop`, `publish` and the consumer thread | on `LaggingFifo` |
| `FeedDriver` | the feed test of `main.cpp` | extends `MarketDataFeed` |
| `MemoryPool` | the lock-free free list and its counter | implements `SlotPool` |
| `SlotPool` | a stack of free slots | |
| `LatencyTimer` | samples and percentiles | |
| `OrderBookProofs`, `PriceLevelProofs`, `SPSCRingBufferProofs`, `MarketDataFeedProofs`, `MemoryPoolProofs`, `LatencyTimerProofs` | theorems, each about the module it is named after; those about `FeedDriver` are at the end of `MarketDataFeedProofs` | extends it |
| `OrderBookQuantityProofs` | theorems about what quantities add up to, about `OrderBookReports`, and about `Clob` | extends `OrderBookReports`, `OrderBookProofs` |
| `Arithmetic` | lemmas about remainders, induction over finite sets, and sums over them | used by the proofs |
| `MC...` | instances for TLC | |

The names ending in what a bug would do (`PushFront`, `UnlinkHead`,
`PublishBefore`, ...) are seeded faults. No action uses them. Each stands next
to the definition it could replace, and shows that the property listed with it
under `mutants` in `PROJECT.json` notices.

### OrderBook

| Variable | Code |
|---|---|
| `free` | the pool's free list, top first (`free_head_` and the `next` links) |
| `order` | the `Order` in each slot; a free slot holds `DefaultOrder`, `id = 0` |
| `order_map` | `order_map_` |
| `book` | `bids_` and `asks_`: side to price to level; a level's list is the sequence of its slots |
| `id_counter` | `id_counter_` |
| `pc`, `taker` | where a running `add_order` is, and `match_order`'s `incoming` |
| `tick` | the last `MarketDataTick` passed to `on_market_data_` |
| `clock`, `Order.rank` | history: when an order last joined the back of a level |

`CancelOrder`, `AmendUp`, `AmendDown`, `RefuseAdd` and `RefuseChange` are whole
calls. `add_order` is split at its loop: `AddOrder` runs up to `match_order`;
`RejectFok` or `StartMatching` is the FOK check; each `Trade` is one pass of the
inner loop, with its erasure of the level where that follows; `FinishFilled`,
`RestResidual` and `CancelResidual` are the rest of `match_order`. `Trade`
takes the head of the best level each time: in the code the inner loop's next
order is the head again, because every pass removes the maker or ends the loop.
The two mirrored functions for asks and bids are one action with `Better` and
`Opposite`.

`Quantity` is arithmetic modulo `QtyMod` (2^32 in the code) in the aggregates
and in the sum of the FOK check. A market data callback is assumed to be
registered.

`UsesSlotPool` says that `free` changes as `SlotPool` allows: the engine takes
the slot on top, and gives each back once, on top. That is what `MemoryPool`
implements for one allocating thread, so the two fit together.

### OrderBookReports

Adds `last_trade`, `stats`, the trades passed to `on_trade_` (`tape`), and the
calls of `add_order` that are running. The last matter because `add_order` reads
`o->id` after `match_order`, which may have destroyed the order, and after
`on_market_data_` has run. `calls` is the stack of `add_order`s, for the handler
of a tick may call the book (`MayCall`): the book is consistent then, and `pc` is
"idle" again. `stored` is the id in the memory of each slot; a slot that was
given back keeps it until its next owner writes its own. The queries
(`Best`, `BestQty`, `Spread`, `Depth`, `OrderCount`) are operators; the i-th price
that an iteration over `bids_` or `asks_` meets is the one with i - 1 better ones
(`PriceAt`).

### PriceLevel

`prev`, `next`, `head`, `tail`, `order_count`, `total_qty` as in memory, beside
the sequence (`queue`) by which `OrderBook` describes a level. `Rest`,
`RemoveOrder`, `Fill` and `Reduce` are the four ways the book changes a level,
each with its own amount taken from or added to the total. An order rests only
if it is in no level and is removed only from its own; `OrderBook`'s
`QueuesAreSound` and `PoolIsPartitioned` are what makes that so.

### Clob

The resting orders are a set of records with an open quantity; there is an
incoming order at most. `Submit`, `Admit`, `Reject`, `Fill`, `Complete`, `Rest`,
`Discard`, `Cancel` and `Amend` say what callers may rely on: the order that
trades precedes all others the incoming one may meet; FOK is let in only if it can
be filled at once, and turned away only if it cannot or if more rests within its
price than a `Quantity` can count (`Width`, section 4). `OrderBook!Promise`
instantiates it: `RestingOrders` are the orders the queues link to, each as
`Shown`, and `IncomingOrders` is the taker, as `Arriving`. `Clob` describes IOC as
the code treats it, without a price limit (section 4).

### SPSCRingBuffer

`head` and `tail` are the modification orders of the two atomics: sequences of
all values, the last one present. The thread that does not write an index reads
it at the position its view (`headSeen`, `tailSeen`) has reached; `SeeHead` and
`SeeTail` move the views forward at any time, so a load may be arbitrarily old.
A push is check, write, store and a pop is check, read, store, with the slot's
access between two steps; a peek holds its pointer across steps of the producer.
Release and acquire are modelled by making the writes of a slot visible together
with the index that follows them. `size_approx`, callable from a third thread,
makes its two loads in two steps. `sent`, `received` and `sizes` are history.

`LaggingFifo` is what is left for the two threads: a queue `q` of which the
consumer sees the first `seen` items and of whose empty places the producer takes
`unseen` for full. `ImplementsView` maps the one to the other.

### MarketDataFeed

| Variable | Code |
|---|---|
| `ring`, `seen`, `unseen` | `ring_`, as `LaggingFifo` |
| `running`, `joinable`, `handler` | `running_`, `consumer_thread_.joinable()`, `handler_` |
| `published`, `consumed`, `dropped` | the counters, modulo `CounterMod` (2^64) |
| `consumer`, `publisher`, `controller` | where `consumer_loop`, `publish` and each thread's `start`, `stop` or destructor are |
| `alive`, `aborted` | the object's lifetime; `std::terminate` |
| `flush`, `raced` | history: how many ticks in the ring the caller of `stop` knew of; whether two calls of `start` and `stop` on this feed have overlapped |

Each atomic operation and each ring operation is a step: `publish` is push, then
count; the loop is load of `running_`, load of `empty()`, pop, handler, count;
`start` is exchange, then assignment of the thread; `stop` is exchange, then
join. Assigning over a joinable thread, or destroying one, ends the process.
The acquire load of `running_` that reads the `false` stored by `stop` brings
along all that `stop`'s caller knew of (`LoadRunning`). That is the happens-before
by which the following `empty()` cannot miss such a tick. The caller knows of any
number of the ticks in the ring: it is the publisher, or has heard from it.

`FeedDriver` lets one thread do what `test_market_data_feed` does: register,
start, publish each tick until it is taken, wait for the handler's count, stop,
compare the counters, destroy.

### MemoryPool

`next` and `free_head` are the list, `call` holds the local variables of each
thread's `pop_free_slot` or `push_free_slot`. Load, read of `next`,
compare-exchange and counter are steps of their own. `free_head_` is changed by
read-modify-write operations only, each a release; so a thread that acquires any
value of it sees the `next` written before, and the steps can work on one memory.
`Allocators` are the threads that allocate: one in the instance, as the class
asks ("single-writer alloc"); with two, `SlotsAreShared` fails by ABA, which is
what the seeded fault `PopLoadByAnyone` shows. `SlotPool` is the abstraction.

### LatencyTimer

The samples are a bag, as `compute()` sorts them before it looks. `Index` is the
index of a percentile. `ceil(p * n)` is computed in doubles; for the four values
of `p` in the code the ceiling is the exact one at least up to 5,000,000 samples
(compared number by number with IEEE doubles), so permille stand for `p`.

## 3. What the runs check

All of them together take about five minutes on two cores.

| Run | What it asks | Bounds |
|---|---|---|
| `book_matching` | Are queues, lookup table, free list and ticks consistent, is service in price-time order, does the engine do what `Clob` promises and use its pool as `SlotPool` asks, does every call end? `TypeOK NoCross QueuesAreSound PoolIsPartitioned TickIsCurrent PriceTimePriority PlaceIsKept ImplementsClob UsesSlotPool MatchingEnds` | 3 slots, 4 ids, prices 1 and 2, quantities 0-2 modulo 3 |
| `reports_told` | Do statistics, trades, queries, aggregates and returned ids tell the truth, is a price limit kept, does an admitted FOK fill? `LevelAggregates FokCompletes LimitRespected VolumeIsConserved FillsAreOnTheTape QueriesShowTheBook AddReturnsItsId` | 3 slots, 3 ids, quantities 0-2 modulo 3, one call from a handler |
| `level_links` | Do the pointers follow the queues, do totals add up? `TypeOK LinksAreSound TotalsAddUp` | 4 orders, 2 levels, quantities modulo 3 |
| `ring_fifo` | Can two threads share the ring? `TypeOK NoDataRace FirstInFirstOut ImplementsView EverythingGetsThrough` | 4 slots, 6 pushes, 2 values |
| `feed_threads` | What do two threads that start, stop and destroy a feed leave of the ticks? `TypeOK NeverAborts NothingGetsLost HandledInOrder StopFlushes StopReturnsIfPublisherRests TicksGetHandled` | 2 controllers, room for 2 ticks, counters modulo 5 |
| `driver_test` | Does the feed test end, with its assertions true? `CountersAgreeAtTheEnd DriverEnds` | room for 1 tick, 4 ticks |
| `pool_threads` | Can threads give slots back while one allocates? `TypeOK SlotsAreShared CounterIsExplained ImplementsSlotPool LockFree` | 3 slots, 3 threads, 1 allocator |
| `timer_ranks` | Is each percentile the nearest rank? `PercentilesAreNearestRanks` | up to 1001 samples of two latencies |
| `book_ioc`, `book_count`, `book_fok_wrap`, `ring_size` | disagreements of section 4, each a counterexample | 3 slots, 3 ids; the ring as above |

*Why the bounds suffice to be interesting.* Three slots are a taker with two
orders at one price or at two: enough for a level with a queue, a side with two
levels, a sweep over both, and a pool that runs out. With four ids a slot is
reused, first after a maker was filled in mid-loop and then after a cancel.
Two prices make crossing and not crossing, better and worse. Quantity zero
reaches the refusals. `QtyMod = 3` with quantities to 2 makes a level of two
orders overflow. `MaxId` bounds how many orders are accepted, `MaxRank` how
often amendments requeue, `MaxCalls` how deep handlers call back; none of them
exists in the code. Four orders in two levels have a list with a middle beside
another list. A ring of 4 slots holds 3 items, so 6 pushes go round more than
once. A feed with room for 2 ticks drops some, keeps the order of some, and
fills while one is being handled; its counters wrap, so it has no bound on the
number of ticks. Three slots on three threads let two compare-exchanges fail on
one that succeeds. From 1000 samples on the
99.9th percentile is not the largest sample any more, so 1001 are one past the
last boundary.

*Deadlock* is checked in every run but `driver_test`, whose program ends.
Refusals are stuttering steps of their own and remain possible when the bounds
are reached.

*Fairness.*

- `OrderBook!Spec` has `WF(Matching)`: the thread that entered `add_order` keeps
  running until it returns. Nothing is assumed about calls.
- The ring's threads retry when refused, as the loops of `main.cpp` do, so
  `Push` is weakly fair; `Pop` is strongly fair, because a consumer may peek any
  number of times between two pops but does not peek for ever (`PeekDone`).
  `SeeHead` and `SeeTail` are weakly fair: the C++ standard asks that a store
  become visible to other threads in a finite time.
- The feed: a thread inside `publish`, `start`, `stop` or `consumer_loop` keeps
  running if it can, and stores arrive (`SeeTick`, `SeeRoom`). Nobody has to
  publish, start or stop.
- The driver: its thread and the handler keep running.
- The pool: each thread that is in a call keeps taking steps. `LockFree` excuses
  a compare-exchange that fails for ever without a reason, as `weak` may.

## 4. Where code and documents disagree

With a run that shows it:

- **IOC has no price limit** (`book_ioc`). The price check of the loops
  (`order_book.cpp:138`) is for LIMIT only, under the comment "Price check: bid
  must cross the ask". An IOC bid at 1 buys at 2.
- **A taker that fills is never forgotten** (`book_count`). It stays in
  `order_map_` and keeps its slot (`order_book.cpp:118`), whereas a filled maker
  gives up both. `order_count()`, printed as "Remaining orders", counts it, and
  after `MAX_ORDERS` such takers `add_order` returns 0 on an empty book.
- **FOK is rejected though it can be filled** (`book_fok_wrap`), once the 32-bit
  sum of `check_fok_fillable` or the aggregate of a level has wrapped. The
  converse holds even then (`FokCompletes`, run `reports_told`).
- **`size_approx` is off by more than one** on a third thread (`ring_size`):
  `tail_` may move any distance between its two loads.

Built into the properties that hold:

- **`stop()` may never return.** It is to "Stop the consumer thread and flush
  remaining ticks" (`market_data_feed.hpp:48`), but the loop leaves only when the
  ring is empty (`market_data_feed.cpp:39`), and a publisher may keep it from ever
  being so.
  `StopReturnsIfPublisherRests` is about publishers that rest.
- **Calls of `start` and `stop` that overlap** leave a thread unjoined or
  assign over one, which ends the process (`market_data_feed.cpp:20`, `:24`):
  `start` sets `running_` before there is a thread to join. `NeverAborts` and
  `StopFlushes` are about calls that do not overlap (`raced`).
- **`in_use()` may exceed the capacity** and `available()` wrap below zero for a
  moment (`memory_pool.hpp:92`): `deallocate` frees the slot before it lowers the
  counter. `CounterIsExplained` says by how much it may be off.
- **`add_order` may return the id of another order** (`order_book.cpp:41`,
  against "Returns the assigned order ID", `order_book.hpp:93`): if the order is
  destroyed and the handler of the tick adds one, that one gets the slot and the id
  in it. `AddReturnsItsId` allows just that.

## 5. What is proved

*The engine.* `OrderBookProofs` proves, for every pool size, price set and quantity width and
without the bounds of TLC (`MaxId` and `MaxRank` are arbitrary naturals):

| Theorem | Statement |
|---|---|
| `Invariance` | `Spec => []IInv` |
| `TypeCorrect` | `Spec => []TypeOK` |
| `NeverCrossed` | `Spec => []NoCross` |
| `QueuesSound` | `Spec => []QueuesAreSound` |
| `PoolPartitioned` | `Spec => []PoolIsPartitioned` |
| `TickCurrent` | `Spec => []TickIsCurrent` |
| `Priority` | `Spec => PriceTimePriority` |
| `KeepsPlace` | `Spec => PlaceIsKept` |
| `RefinesPool` | `Spec => UsesSlotPool` |

The only assumption is `OrderBookAssumption`: the pool has a slot, prices lie in
an interval of integers, quantities are below `QtyMod`. The interval is what
makes a best price exist in a non-empty side (`BestPriceIsBest`); for an
unbounded set of prices `BestPrice` would not be defined.

*The inductive invariant.* None of the properties is inductive alone. That a
cancel unlinks from the right level needs that the lookup table leads to a live
order, that an open order other than the taker is queued in the level of its
side and price, and that a queue holds it once. That resting keeps the book
uncrossed needs that matching stopped at its price. That a trade leaves the
queues sound needs that the maker is not the taker, and that a reused slot is in
no queue. `IInv` is the conjunction of

- `TypeOK`;
- `FreeIsSound`: the free list holds each free slot once;
- `MapIsSound`: `order_map_` and the ids of the orders are inverse to each other;
- `BookIsSound`: each level is a `GoodLevel` (open LIMIT orders of its side and
  price, ranks increasing, count right), the taker is in none, no rank exceeds
  the clock, and every open order but the taker is queued where it belongs;
- `TakerIsSound`: the taker is a live order, open exactly as long as it lacks
  quantity;
- `NoCross`.

*The argument.* Ranks increase along a queue, so no slot is in it twice
(`GoodLevelIsInjective`), and `RemoveAt` at the position of an order removes
that order and no other (`UnlinkIsGood`). The relation `In(b, m, s, p)`
abstracts a book to who is where. `SetLevelIsGood`, `SetOrEraseIsGood`,
`RemoveFromBookIsGood` and `RestOrderIsGood` say what each helper does to it,
independently of any action. Each action then has one lemma, in which
`ForgetIsSound` or `KeptIsSound` deals with the pool and the lookup table and
`NothingJoinsIInv` with all that only takes orders out. `TickCurrent` has an
invariant of its own: the tick is current unless a call is matching.
`Priority` follows from `IInv`: only `Trade` changes a queued order, and the
head of the best level precedes all others (`HeadOfBestPrecedes`). `KeepsPlace`
follows because ranks order each queue before and after a step, and the rank of
an order that stays queued never falls and rises only with its quantity
(`RankSteps`). `RefinesPool`
needs of `IInv` that a slot given back is not in the free list already; then
each action takes one slot, gives one back or leaves the list (`StepOnFree`).

*Quantities.* `OrderBookQuantityProofs` proves what adds up, from `OrderBookAssumption`
and `ReportsAssumption`, for every width of `Quantity`:

| Theorem | Statement |
|---|---|
| `Aggregates` | `Spec => []LevelAggregates` |
| `FokAllOrNothing` | `Spec => []FokCompletes` |
| `WithinPrice` | `Spec => LimitRespected` |
| `ReportsKeepTheBook` | `ReportsSpec => Init /\ [][Next]_vars` |
| `Conservation` | `ReportsSpec => []VolumeIsConserved` |
| `FillsAreReported` | `ReportsSpec => []FillsAreOnTheTape` |
| `OwnIdReturned` | `ReportsSpec => []AddReturnsItsId` |
| `QueriesAreRight` | `ReportsSpec => []QueriesShowTheBook` |
| `FokTurnedAway` | a FOK order is rejected only if the liquidity within its price is less than it asks for, or at least `QtyMod` |
| `FokJudgedRightly` | `NothingWraps` implies `Spec => FokRejectedOnlyIfShort` |
| `RefinesClob` | `Spec => Promise!Init /\ [][Promise!Next]_(Promise!cvars)` |

*Sums.* `SumFunctionOnSet` of the community modules folds with a function that it
chooses. `SumIsAdded` in `Arithmetic` shows that there is such a function, and
`SumTakes` that any element may be taken out first; from there on sums are
first-order. The induction behind it (`SetInduction`) is about a set of cases
that hold, not a predicate, and follows from the least element of a set of sizes.
`GroupsAddUp` says that disjoint groups (the levels of a side) add up to what
all their members do, and `SumOfRemainders` and `ModOfSum` that it does not matter
where the sum wraps.

*The arguments.* Each of these adds an invariant of its own to `IInv`.

- `Totals`: the total of each level is the sum of what its queue has left, as a
  `Quantity`. The helpers take from it what they take from the queue (`UnlinkTotal`,
  `TakeQtyTotal`, ...); a step that changes an order outside the queues changes no total
  (`QuietTotals`), and the taker is outside.
- `FokCovered`: until a FOK taker is filled, the orders within its price (`Reach`)
  have at least what it still lacks. The check establishes it: the wrapped sum that
  it compares is never more than the true one (`FillableIsCovered`). A
  trade keeps it because it takes the same from both sides. `LimitRespected` for FOK
  follows: while it lacks something `Reach` is not empty, and the best order is in it.
- `Blank` and `Conserved`: a slot without an order has nothing open, and
  `VolumeIsConserved` holds as a sum over all slots, live or not; each step
  changes one slot (`Orders`), trades (`Trades`), or does nothing of the kind.
- `TapeSound`: the trades that name the id of a live order add up to what it
  filled, and no trade names an id that was not handed out yet; a new order starts
  at zero for that reason, also in a slot used before.
- `CallsSound`: the memory of the slot of each running call has the id of its own
  order or one added inside the call.
- For the queries, `Ranks` numbers the prices of a side by how many are better; the
  numbers are different and below their count, so each occurs (`NumberingIsOnto`), which
  is what makes `PriceAt` and with it `Depth` well defined.

*FOK and `Clob`.* The converse of `FokCovered`, that a FOK order is rejected only if
it cannot be filled, holds as long as the sum over its `Reach` does not wrap
(`UnfillableIsShort`), which gives `FokTurnedAway`. `NothingWraps` says that
`Capacity` orders of the largest quantity stay below `QtyMod`, which for the code's
65536 slots and 32 bits means quantities of at most 65535; the code does not
enforce it, and `book_fok_wrap` shows what happens otherwise. So it is a
hypothesis of one theorem and not an assumption of the module, and `Clob` leaves
the case open. `AsAsked` says that orders carry the quantities callers gave.
`RefinesClob` maps each action to one of `Clob` or to
nothing: an action of the book changes one of the `RestingOrders` or none (`NothingShows`,
`OneGoes`, `OneChanges`, `OneComes`), the orders within reach are those that `Clob` lets the
taker trade with (`FacingIs`, `WithinIsReach`), and sums over slots are sums over
the orders shown, since ids differ (`SameSum`). It is the safety part of `ImplementsClob`.

*Price levels.* `PriceLevelProofs` proves `TypeCorrect`, `ListsAreSound` (`Spec =>
[]LinksAreSound`) and `TotalsAreSums` (`Spec => []TotalsAddUp`) for any set of orders and of
levels. `LinksFollowQueue` is not
inductive without `LevelsAreApart`: that a change of one list leaves the others
alone needs that they share no order, and that appending finds no old links
needs that an order in no level has none. `LinkOne` and `UnlinkOne` are about
one list and four pointers, whatever list it is; `LinkBackKeeps` and
`UnlinkKeeps` carry them to all levels by `OtherList`.

*The ring.* `SPSCRingBufferProofs` proves, from `RingAssumption`, for every
capacity, `TypeCorrect`, `RaceFree` (`Spec => []NoDataRace`), `Fifo` (`Spec =>
[]FirstInFirstOut`) and `RefinesQueue`, the safety part of `ImplementsView`. The
invariant counts positions without wrapping: `SlotOf(i)` is the slot of the i-th
item, and `IndicesCount` says that an index that was stored n times stands at
`SlotOf(n)`. `ViewsAreSafe` keeps each thread within what it has seen of the
other, so that all positions in use are less than `Capacity` apart and different
ones have different slots (`SlotsDiffer`, from `ModIsUnique`). That gives
`RaceFree`, and with it `ItemsAreKept`: a write to a slot cannot hit an item on
its way. Neither would be inductive without the other's positions.

*The feed.* `MarketDataFeedProofs` proves, from `FeedAssumption`, for any set of
controlling threads, ring and counter width, `TypeCorrect`, `NoLoss` (`Spec =>
[]NothingGetsLost`), `InOrder` (`Spec => []HandledInOrder`), `NoAbort` (`Spec =>
[]NeverAborts`) and `StopHasFlushed` (`Spec => StopFlushes`). `TicksFollow`
numbers the ticks in the ring on from the consumer's counter, modulo
`CounterMod`; it survives a change of the consumer thread because there is one at
most, which is `joinable` (`ThreadIsKnown`). `Orderly` says where each call of
`start` or `stop` finds flag and thread, and that the consumer does not leave
while it has something to flush; it holds unless two calls have overlapped
(`raced`), which is all that the two last theorems need.

*The pool.* `MemoryPoolProofs` proves, from `PoolAssumption` and
`SingleAllocator` (the class's contract, an antecedent of each theorem),
`TypeCorrect`, `SlotsShared` (`Spec => []SlotsAreShared`), `RefinesSlotPool`
(`Spec => ImplementsSlotPool`) and `CounterExplained` (`Spec =>
[]CounterIsExplained`), for any number of slots and of threads that deallocate.
The invariant says that there is a sequence `q` that the pointers lead through
(`Linked`), that `q`, callers and threads share the slots (`Shared`), and that
what threads have read is valid (`ReadsAreValid`): the head that the allocating
thread read is in `q` still, because only that thread takes slots out, so nobody
has written its `next` since. That is the step that fails with a second
allocating thread. `ListIs` shows that the operator `FreeList`, which follows the
pointers one by one, is that `q`; `TailOf` and `ConsOf` are pop and push on it.
`CounterExplained` adds that the counter is the number of objects that callers
hold or are giving back; the sum cannot reach `SizeMod`, so nothing wraps but
what `available()` makes of it.

*The driver.* `DriverUsesFeed` proves that the feed test takes only steps of the
feed, so that the feed's invariant holds for it. With it `CountersAgree`
(`DriverSpec => []CountersAgreeAtTheEnd`) needs two facts more: no other thread calls
the feed (`Alone`), and `Accounts`, which ties the driver's own counts to those of the
feed: what was sent is handled, in hand or in the ring. That the counters have not
wrapped is `TickCount < CounterMod` of `DriverAssumption`; the test publishes 200,000
(`main.cpp:312`) and the counters have 64 bits.

*The timer.* `LatencyTimerProofs` proves that the index which `compute()` takes is that of
the nearest rank, for every number of samples and every permille
(`IndexIsNearestRank`), and that for any bag of samples each percentile which
`compute()` reports is a nearest rank and lies between the extremes (`NearestRanks`:
`Spec => []PercentilesAreNearestRanks`). What the sorted array has at position `idx`
is described without sorting, as the latency with at most `idx` samples below it and
more than `idx` up to it (`Sorted`); counting is monotonic, so each position has one.

*Only model-checked.* Liveness and the fairness of the refinements: `MatchingEnds`,
`ImplementsClob` and `ImplementsView` as far as they ask for progress,
`EverythingGetsThrough`, `StopReturnsIfPublisherRests`, `TicksGetHandled`,
`DriverEnds` and `LockFree` need `ENABLED`, which is beyond the prover.
Every invariant and action property that the passing runs check is proved, and so is
that each step of the engine, the ring and the pool is one of its abstraction.

## 6. What is not modelled

- Timestamps: written, never read by a condition.
- Calls of the book from `on_trade_`. The matching loop holds references into a
  level and an order at that point, so a handler that cancels or adds may leave
  them dangling, and what follows is undefined. No handler in the repository does.
- Mean, standard deviation and clock readings of the latency timer, which are
  floating point and hardware; the layout of all that is printed.
- The drivers and tests other than the feed test: they call the library in a
  fixed order. The build and git scripts.
- `empty()` and `full()` of the ring as operations of their own; the use the feed
  makes of `empty()` is in `MarketDataFeed`.
- The widths of price and id: the code only compares and counts with them.

## 7. Plan

What could follow, most useful first:

1. That the prefix of the tape which a call leaves behind determines the order's
   state (`FillsAreOnTheTape` is the first half).
2. `empty()` and `full()` of the ring for third threads, as for `size_approx`.
3. A composition of `MemoryPool` and `OrderBook` in one specification, where
   `UsesSlotPool` and `ImplementsSlotPool` now meet at `SlotPool`.
