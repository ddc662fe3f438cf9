# A TLA+ verification of market-match

`market-match` is a spot matching engine written in Go. One process matches
one or more symbols; for each symbol a chain of goroutines reads a sequenced
order table, matches the orders on one book, and hands the results to a
database, a message queue and a quotation service. This directory models that
program in TLA+, checks small instances with TLC and proves what matters most
for every value of the constants with TLAPS.

All paths below are relative to the repository root; `match/matcher.go:387`
is line 387 of `src/match/matcher.go`.

## 1. The system

    MySQL t_order_sequence
        | puller (one cursor per symbol)               puller/puller.go
        v  ch, 5000
    startMatcher: one goroutine owns the book          market-match.go
        | GenMatchResult -> Match -> a handler         match/matcher.go
        |-> perch, 10000  -> goBatch -> inserters -> MySQL results
        |                                              persistence/persistence.go
        |-> publishChan, 5000 -> batches -> RabbitMQ   match/matcher.go, rabbitmq/
        |-> mrChan, 5000 -> L2 quotes -> Redis, RabbitMQ, L2 snapshot
        |                                              l2quote/, market/
        `-> snapshotChan, 10 -> book snapshot file, S3 snapshotter/

A ticker makes `startMatcher` clone its book into `snapshotChan`; when the
snapshot is due it also sends `"snapshot!"` down `mrChan`, so that the quotes
are saved at the same position. `common.Fatal` is `os.Exit(1)`: any goroutine
may end the process. On start the book is loaded from the last book snapshot,
the quotes from theirs, and the puller continues after the id of the book.

### Components

| Part | State | Operations | What is hard | What makes it correct |
|---|---|---|---|---|
| orders and encounters (`match/order.go`, `match/matcher.go:1016-1258`) | amounts filled, unfilled, cancelled; a state | fill, decrease, cancel, price comparison | decimal division that rounds, a cash budget against a lot size, zero | what is filled, left and cancelled adds up; nobody is overfilled |
| order book (`match/order_book.go`) | two trees and an index, last id | enqueue, dequeue, peek, find, clone, compare | three structures in step; a comparator that must be a total order | trees and index hold the same orders; the head is the best |
| matcher (`match/matcher.go`) | the book, the message being built | one handler per order type, cancel, batch cancel | long sequences of legal orders; four self-trade modes; a loop with six exits | see section 3 |
| puller (`puller/puller.go`) | cursor | select, map the type, send | errors of Scan ignored, unknown types | every row reaches the matcher once, in order, as what it is |
| event loop (`market-match.go`) | goroutine and channel per consumer | match, snapshot | order of the sends, blocked channels, a panic of any goroutine that ends the process (`catch`, market-match.go:92) | consumers see every result once, in order |
| book snapshots (`snapshotter/`) | files, upload list | clone, write, rename, load | crash between write and rename, position of the book against the results | a restart continues from a state the program was in |
| persistence (`persistence/`) | batches in flight | collect, insert | several inserters, an insert that fails is only logged | every result is in the database |
| publishing (`rabbitmq/`, `match/matcher.go:172-204`) | channels, batch, connection | batch, publish, reconnect, publish again | a batch whose size is read from a channel another goroutine fills; a connection lost between two batches | batches hold every message once, in order; the broker sees them in order up to a repetition |
| quotes (`l2quote/`) | klines per period, 24-hour market, marks, Redis, snapshot | apply a message, tick, save, clear, snapshot, recover | two goroutines that each read the clock, results older than the window, dedupe after a restart, marks | a kline shows the trades of its window; klines, market and Redis agree |
| depth (`market/`) | levels of both sides | round, accumulate, cut | a list built by comparing with its last level only | a level holds all that rests at its price |
| replay (`validate/`, `assign/`) | -- | replay orders and compare | comparison that misses differences | differing books are reported |
| scheduler (`scheduler/`, `common/time.go`) | tickers | next window, stop | zones, month ends | windows tile the time |
| configuration, logs, statistics | -- | -- | -- | not modelled |

## 2. The modules

| Module | Models | Kind |
|---|---|---|
| `Order` | `match/order.go`, and what one encounter of a taker and a maker does to both (`match/matcher.go:863-1258`) | operators, no state |
| `OrderBook` | `match/order_book.go` | variables `orders`, `cache`, `buySet`, `sellSet`, the operations on them |
| `Matcher` | `GenMatchResult`, `Match`, all handlers and their loops | specification |
| `Exchange` | what an exchange promises, without trees, states, messages or checks | abstract specification |
| `MatcherRefines` | the mapping of `Matcher` to `Exchange` | refinement |
| `EventLoop` | one symbol from the table to the snapshot files: puller, `startMatcher`, dump goroutine, crash, restart | specification |
| `Persistence` | `EventLoop` with the results' way into the database and the validation at start | composition, extends `EventLoop` |
| `QuotePositions` | `EventLoop` with the quotes: klines in memory, in Redis and in their snapshot, as sets of results | composition, extends `EventLoop` |
| `Depth` | the stepped depth of `market/depth.go` on the matcher's book | operators and a property, extends `Matcher` |
| `Publisher` | `PublishResultChan`, `BatchMatchResult`, `thread`, `sendToMQ`, `BatchMqPub` and the connection pool of `rabbitmq/rabbitmq.go` | specification |
| `Kline` | what one result does to the candles of a period and to the buckets of the 24-hour market (`l2quote/kline.go`, `market.go`) | operators, no state |
| `Candles` | the goroutines of the quotes beside the clock, Redis and the snapshot, with the prices | specification, extends `Kline` |
| `Windows` | `CurWindowTime`, `NextKlineTimeWindow`, `GetListTsOffLen` of `common/time.go` | operators, and a walk along the windows |
| `MCMatcher`, `MCQuotePositions`, `MCCandles`, `MCPublisher`, `MCWindows` | values of the constants for TLC | instances |
| `MatcherProofs`, `TradingProofs`, `EventLoopProofs`, `PersistenceProofs`, `QuotePositionsProofs`, `CandlesProofs`, `PublisherProofs`, `WindowsProofs` | theorems | proofs |

Two models meet in "a book is determined by the rows matched into it": `Matcher`
says what a row does to the book and is a function of book and row (every action
of it is deterministic once the row is chosen), `EventLoop` and its extensions
say which rows get there, and what survives a crash. The quotes are modelled
twice, once for each question: `QuotePositions` knows which results are where,
beside the matcher and with a Redis that fails, and nothing of prices; `Candles`
knows the prices, windows and clocks, and takes from the event loop only that
results come in order and come again after a restart.

### Matcher: state and actions

* `orders[i]` is the Order object with sequence id `i`; `NoOrder` is an object
  nothing points to. `cache` is `OrderBook.cache` (the index by id), `buySet`
  and `sellSet` are the two trees, as sets: their order is `Before`, which is
  `Comparator`. `fromId` is `OrderBook.FromId`. An order's own id and the id of
  its row in the sequence table are one number here.
* `GenMatchResult` takes a row (`Load`): `TakeOrder`, `TakeFok`, `TakeCancel`,
  `TakeBatchCancel`, `TakeUnrouted`, one per branch of `Match`, and
  `TakeSystemCancel`, a row that failed the puller's check of scales.
* A handler's `for` loop is taken an iteration at a time. An iteration peeks at
  the best maker and does one of: stop because there is none, stop because the
  price does not match, stop because of the circuit band, or match the head
  (`MatchHead`), which is `matchOrder` and everything it calls. While
  `phase = "matching"` nothing else happens: the book belongs to one goroutine.
* `results` and `lastPrice` are the items and the price of the message.
* `phase = "dead"` is `common.Fatal`.

Money is integer: prices, amounts and cash are in units of their scales, as in
the decimal arithmetic of the code. `DivUnit` is 10^37 in the
program: a quotient is rounded to a multiple of 1/`DivUnit`. `Lot` is the amount below which cash
buys nothing (`LOWPRECISION`), `RateUnit` the resolution of a circuit rate.

### EventLoop: state and actions

* `table` is `t_order_sequence`, the set of ids written. Ids grow, and a row is
  seen only after all rows with smaller ids: a transaction that commits late is
  upstream's business (listed as a hazard).
* `cursor`, `pulled`, `ch`: the puller's `fromId`, the orders of the select it
  has not sent yet, and its channel. A select yields the first rows from the
  cursor on, or fewer: `results.Err()` is not looked at, so a connection lost on
  the way looks like a short page. Rows that come are scanned whole.
* `book` is the sequence of rows matched and `FromId`. `loop` is where the
  goroutine of `startMatcher` is: in its select, about to send a result, a
  clone, or the marker after the clone. Each of these sends may block.
* `dumper`, `tmp`, `files`: the steps of one dump (create `TMP@`, close, rename,
  remove the old ones), each a step a crash may follow. A file is `whole` when
  it was closed; a crash before leaves any part of it.
* `Crash` may follow any step: `common.Fatal`, a panic, a kill. It is the end of
  the process, not of the machine: what is in memory is gone, what was written
  to files stays as it was. `Restart` loads the newest snapshot file; a symbol without one
  is new (the file with id 0, which an operator puts there, says so).

### Persistence: state and actions

`SendToPerch` is `SendResult` when `perch` has room. `Batch` is one round of
`goBatch`, `TakeBatch`, `Insert` and `InsertFails` the steps of each inserter;
`inserting` is the batch an inserter is executing. `Validate` and `ValidateFails`
are `ValidateOrderbook`, which runs beside goroutines that have all been
started. `failed`, `skipped` and `refused` are history variables.

### QuotePositions: state and actions

A kline is the set of results it accounts for. `SendToQuotes` and
`SendQuoteMarker` put results and `"snapshot!"` into `mrChan`; `Quote` is the
receiving case of `Run`, with the test against `MaxMRId`; `SaveTick` and
`SaveTickFailed` are the ticker's `saveKlinesToRedis`; `QuoteSnapshot` and
`QuoteSnapshotSkipped` the two outcomes of a marker. When the pipeline fails
(`SaveFailed`), some, all or none of its commands have been executed, the one
for `maxMRID` last. With `CommandsFail` Redis may also refuse single commands of it and execute the
rest.

Time is a `clock` that ticks at will; `WindowsAt` says which windows an instant
lies in, one of each period, and `TimeOf` when the order of a result was created, so that a result can
be quoted in its windows or later. `newest` is the time up to which there are
klines: `LookedFor` is `getAllCurrentKline`, which makes and marks those up to
now, on its ticker (`CheckKlines`), with a result, or before a snapshot. `Drawn` puts a
result into the klines of its windows and marks those and any of the later ones
it is carried over to, since how far that goes is `klineForwardLimit`'s business
(`Candles` has it).

A snapshot (`takeSnapShot`) keeps the klines of the windows it is taken in
(`OfNow`) and no others: those of the windows before are meant to be in it too,
but `lastKey` is `key` (see `previous` below). A restart has what the snapshot has.
A result that is late then, of a window which is over, starts an empty kline,
and the next save writes it over the full one in Redis. So the results of a
window that the last restart's snapshot did not keep are `Lost` from then on
(`restored` is the history variable that tells which), and the properties of the
contents leave them out: without the exception TLC refutes `QuotesComplete`,
`RedisComplete` and `RedisGetsAll` by that story. `behind` is a history variable, too: some
restart found the quotes' snapshot older than the book's (see `SnapshotsTogether`
below), after which the results in between are not in the klines, and no property
of the klines' contents can hold.

### Publisher: state and actions

A stream is one symbol's messages of one kind: match results, depths, or
quotations. `Offer` is its producer, which blocks on a full channel; `First`,
`Count`, `Pack` and `PublishWithChan` are the goroutine that takes one message,
reads `len(ch)`, receives that many more and hands the batch to the symbol's
connection (`Extra` is the size each of the three kinds computes). `Receive`,
`Written`, `WriteFails` and `Reconnect` are the goroutine of a connection with
its retries: a batch stays in `held` until a write succeeds. `Drop` is the
connection breaking; from then until the library notices (`Notice`, or a failed
write) what is written goes nowhere. A broken connection delivers nothing more
of what is under way; the one write that fails may have arrived. There are no
publisher confirms in the code, and none here.

### Candles: state and actions

Time is the number of a window. `results` are what the matcher makes of the
rows: the window its order was created in and the prices of the makers it
filled. `Receive` hands the next one to two goroutines, `KlineUpdater` and
`MarketUpdater`, each of which reads the clock; `Idle` says that `Run` has
nothing in hand, since its `wg.Wait` keeps it from everything else.
`MarketTicker` and `CheckKlines` are the tickers, which may fire at any time or
be late; `SaveTick`, `Clear`, `StartSnapshot` and `takeSnapShot` are what `Run`
does with Redis, with old klines, and on `"snapshot!"`. `Crash` includes the
restart, after which results behind the snapshot come again with the clock
where it is. `since` and `late` are history variables: a kline of a window
before the snapshot's starts empty in a restart, and a result older than the
redrawing limit is left out by design. Drawn into a window whose kline is gone from
memory, a late result starts that kline anew and so replaces the one in Redis:
`RedisInStep` speaks of the time before.

### Windows and Depth

Instants are seconds, as in the code, and dates are day numbers in a zone of
fixed offset. `Walk` goes from an instant to the next window's start, as
`getCurrentKline` does. `Depth` adds no state either: `orderDepth` is evaluated on the
book of every idle state of `Matcher`, for two steps, two capacities and two
sizes of what `Take` reads. What the tree yields in its order is stated by places:
the k-th order taken is the one with k orders of its side up to it.

### Slips

Operators whose comment starts with "Slip" stand beside a definition and are
not part of any specification: each is that definition with a plausible mistake
in it, kept so that a property can be seen to fail on the mistake.

## 3. What is checked

| Run | Module | Shows |
|---|---|---|
| `trading` (trading.cfg) | `MCMatcher` | Limit and market orders of both sides, cancels, batch and system cancels, two users and all four self-trade strategies: the structures of the book agree, price-time priority holds, messages account for everything that was used up and for every change of the book and tell what is on it, the depth shows what rests, and the engine implements the abstract exchange. Checks `TypeOK`, `BookInStep`, `Uncrossed`, `PriceTimePriority`, `NoSelfTrade`, `MessageAddsUp`, `MessageComplete`, `PriceIsLastTrade`, `DepthShowsBook`, `ExitsArePublished`, `BookMovesAsPublished`, `ImplementsExchange`. |
| `ending` (ending.cfg) | `MCMatcher` | Ways an order can end: self-trade strategies on both sides, FOK and circuit-guarded orders, market buys whose cash goes in steps coarser than the makers, unrouted types and prices beyond the precision of decimal.Div. The loops end, a FOK order without strategy and rate of its own is all or nothing, cash is spent as far as it goes, and only the last two kinds of rows reach a Fatal. Checks `KilledOnlyByRounding`, `FokAllOrNothingUnguarded`, `LoopsEnd`, `ImplementsExchange`. |
| `fok_whole` (v_fok_whole.cfg) | `MCMatcher` | **Violated.** A FOK order with a self-trade strategy is filled in part: the precheck counts orders of the same user that are then cancelled instead of traded. Checks `FokAllOrNothing`. |
| `loop` (loop.cfg) | `EventLoop` | Puller, matcher and dump goroutine over two crashes of the process anywhere, with gaps in the ids and selects that break off: the book and every snapshot hold each row up to their id exactly once, what a restart finds loads and is never older than before, and every row is matched in the end. Checks `TypeOK`, `EachRowOnce`, `SnapshotsExact`, `NewestLoads`, `NeverOlder`, `RowsMatched`. |
| `persist` (persist.cfg) | `Persistence` | Two inserters, batches, failing inserts, a crash and the validation after it: a matched result is stored, on its way, or one of two named kinds of loss, and nothing between matcher and database holds a result back for ever unless validation refuses a start. Checks `ResultsAccountedFor`, `ResultsEnd`. |
| `comes_back` (v_comes_back.cfg) | `Persistence` | **Violated.** An insert that failed before a snapshot makes the validation end the process at every start. Checks `ComesBack`. |
| `quotes` (quotes.cfg) | `MCQuotePositions` | Results of one minute quoted in it or late, into klines of two periods, klines into Redis with saves that break off, snapshots that keep the windows they are taken in, a crash with its replay: but for what a restart loses with its window, nothing is counted twice or left out in memory, snapshot or Redis, Redis never lags the snapshot, and every result reaches it again and again. Checks `QuotesComplete`, `RedisHoldsSnapshot`, `RedisComplete`, `RedisGetsAll`. |
| `candles` (candles.cfg) | `MCCandles` | Prices and counts of the klines of one period and of the 24-hour market, computed by two goroutines that read the clock for themselves, with late results, tickers, saves, clearing, snapshots, and a restart from one: both show the trades of their windows, each once, and agree. Checks `CandleTypeOK`, `KlinesShowTrades`, `DayAddsUp`, `MarketAgreesWithKlines`, `RedisInStep`. |
| `previous` (v_previous.cfg) | `MCCandles` | **Violated.** A snapshot holds the kline of its own window twice and never that of the window before. Checks `SnapshotHoldsPrevious`. |
| `publish` (publish.cfg) | `MCPublisher` | Three streams of two symbols share one connection that is lost once: batches never wait for a message, what has not been written is the newest and in order, the broker sees each stream in order with at most a batch repeated right after itself, and every message leaves the process. Checks `PublisherTypeOK`, `NeverShort`, `EachInOneBatch`, `BrokerInOrder`, `AllHanded`. |
| `windows` (windows.cfg) | `MCWindows` | Every kind of kline window over year ends, leap years and the weeks between: windows cover time without gap or overlap, and consecutive windows take consecutive places of their Redis lists. Checks `WindowsTile`, `SlotsFollow`. |
| `weeks` (v_weeks.cfg) | `MCWindows` | **Violated.** The list of weekly klines is a place short: the week of 28 December 2026 is given place 260 of a list of 260. Checks `SlotFits`. |

### Bounds, and why they are enough

Matcher (`trading`, `ending`, `fok_whole`):

* Four rows (three in `ending`). The longest story a property tells is a maker
  met by a taker that rests, met by another taker, with one order that came
  before: four orders. A batch cancel lists one or two ids, one of them twice.
* Two users: a self-trade needs one, a trade two. Prices 1 to 3 and amounts 1 to
  4 give better, equal and worse prices, takers smaller, equal and larger than a
  maker, and makers that add up to the taker exactly or not.
* `Lot` 2 (`ending`) makes a budget that is left but buys nothing, and makers
  finer than what cash buys; `DivUnit` 3 makes the quotient round up past what a
  maker has. With `DivUnit` 1000 and the small prices of `trading` it cannot.
* Each run has the inputs its question needs. `trading` and `ending` put several
  catalogues of `MCMatcher` into one run, one at a time: the action constraint
  refuses a row when the orders in play would come from no single catalogue. It
  bears on the arrival of rows only: the loop, and every exit of it, is never
  cut, which also keeps it compatible with the fairness of the loop.

Positions (`loop`, `persist`, `quotes`):

* Three rows and two crashes in `loop`: a snapshot, more rows behind it, a
  crash, a second snapshot, a crash in the middle of dumping it. Two rows are
  enough where only the place of a result matters (before or behind a snapshot,
  a save, or the other row), and one crash where what follows it is all that
  changes (`persist`, `quotes`).
* Channels of one or two places: full and empty are both common. Pages of one or
  two rows; a batch of two, so that batches of one and two occur; two inserters,
  so that a later batch can be in the database before an earlier one.
* `History` 1 and 2: every dump prunes in the one, the second in the other.
* Windows (`MCQuotePositions`): two minutes of one day. Both results are of the first
  minute, so that they come in time, late, or late after a restart from a snapshot
  that kept the second minute, or the first, or nothing; the day is a window
  every snapshot keeps. Channels of one place.
* `CommandsFail` is `FALSE` in `quotes`: Redis fails as a whole or breaks off.
  What happens when it refuses single commands is described under the
  disagreements below.

`candles`: four windows, a day of two buckets, a redrawing limit of two and two
klines kept, so that a result can be a day and a limit old, more than that, and
the oldest kline can go; two results, in the order of their windows, in one
window, or the second older than the first; no fill, one, or two of different
prices. One crash, with both results to come again in later windows than at first.
At least as many klines are kept as a day has windows (`CandleAssumption`; both
are 1440, l2quote/l2quote.go:293 and market.go:3): with fewer, a result that is not
late could be drawn into a window whose kline is gone.

`publish`: three streams of two symbols on one connection, of 2, 1 and 3
messages, batches of up to three, channels of two places and a queue of one: a
batch can be full or not, and every goroutine can wait for every other. One lost
connection. A second connection would share nothing with the first.

`windows`, `weeks`: the calendar is walked, not bounded: daily, weekly and
monthly windows from 2022 past 2028 (two leap years), twelve-hourly ones for two
years, the shorter kinds over the ends of ordinary and leap years and of
February. These walks, the bounded messages and the bounded results end, and so
do their runs: deadlock is not checked there. All other runs check it.

### Fairness

* `Matcher!FairSpec`: weak fairness of the loop, nothing of the arrival of
  orders. The loop runs in one goroutine without waiting for anything.
* `EventLoop!FairSpec` and its extensions: weak fairness of each goroutine's
  step, which a goroutine whose channel has something (or has room) takes in the
  end. Strong fairness of `Match`: it competes with the snapshot ticker in one
  `select`, which picks among ready cases at random, so neither starves. Weak
  fairness of `Restart`: something starts a dead process again. An insert is
  answered, with success or an error. `SaveTick` is strongly fair: Redis, asked
  again and again, does not fail for ever. Nothing is assumed of upstream, of
  crashes, of the clock, of the other tickers or of a marker.
* `Publisher!FairSpec`: weak fairness of each stream's and each connection's
  goroutine, of delivery on a live connection, and of the library noticing a
  dead one (heartbeats). `Reconnect` succeeds in the end: the loop around it has
  no limit, and a broker that never returns is no case in which anything could
  be promised. Nothing is assumed of producers.

### What the violated runs show

* `fok_whole` (`FokAllOrNothing`, match/matcher.go:489): canFilledFokOrder adds up every resting amount within the limit, the amounts of the taker's own user included, while matchFok's loop then cancels those by self-trade prevention (or breaks its circuit half-way): a FOK order trades in part and is cancelled for the rest. src/match/matcher.go:507 says: 要么立即全部成交，要么整单撤销，不允许部分成交 (filled at once and whole or cancelled whole, partial execution is not allowed); src/STUDY_GUIDE.md:81 says: 全部成交否则整撤.
* `comes_back` (`ComesBack`, persistence/persistence.go:149): An insert that fails is only logged, the results of its batch are never written. When the next book snapshot covers them, a restart does not match them again, and ValidateOrderbook, which replays the rows between the last two snapshots and looks each result up, ends the process in the Fatal of src/validate/validate.go:139, at this start and at every later one. src/snapshotter/snapshotter.go:3 says: 服务重启时可从最近快照恢复订单簿状态，避免数据丢失 (at a restart the state of the book can be recovered from the latest snapshot, avoiding loss of data).
* `previous` (`SnapshotHoldsPrevious`, l2quote/snapshot.go:80): takeSnapShot computes the window before with common.HmType2Step, a map that is never filled (src/common/time.go:66 says: 当前未在 init 中填充，预留), so lastKey is key and the snapshot stores the kline of its own window twice. src/l2quote/snapshot.go:38 says: Klines 每种周期保存最新两根 K 线（[0] 为当前窗口，[1] 为上一窗口） (the two newest klines of each period, [0] the current window, [1] the one before). After a restart a result of the window before starts an empty kline there, which the next save writes over the full one in Redis.
* `weeks` (`SlotFits`, common/time.go:378): The places of the weekly list are the days since the first of January 2022 (from 1) divided by 7, its length is 52*5: the week that starts on 28 December 2026 gets place 260 of a list of 260, although src/common/time.go:226-227 says: 该时间戳在分片内的偏移量（第几根 K 线，从 0 开始） and 该分片最多容纳多少根 K 线 (the place in the list, from 0, and the number of klines the list holds), and src/l2quote/kline.go:311 gives the lists five years from 2022. From that week on LSET answers with an error, so saveKlinesToRedis returns one every time, its marks stay, and every snapshot of the quotes is skipped (src/l2quote/l2quote.go:318).

### Disagreements without a run of their own

These properties are stated beside the others and TLC refutes them too: each
with the run file named, the property put in place of those checked there (for
those of `Matcher`, v_fok_whole.cfg with the constants given).

* `RedisHoldsSnapshot` (l2quote/redis_ops.go:57; quotes.cfg with `CommandsFail = TRUE`): maxMRID is set in the same pipeline as the klines, and a pipeline is no transaction: when Redis refuses an LSET (a list that does not exist, of which checkRedisKline only warns, or a place behind its end, as in `weeks`) it still executes the SET. The mark for the retry is in memory; after a crash the replay finds Redis ahead, line 39 removes the marks unwritten, the save counts as done and the snapshot is taken: it holds results that Redis does not have and will not get. src/l2quote/l2quote.go:320 says: 保证快照比redis中数据只少不多 (the snapshot is ensured to have less than Redis, never more).
* `FokWithinLimit` (match/matcher.go:542; `Inputs <- OwnOrderInputs`): The loop of matchFok never compares prices. When the precheck counted an order of the taker's own user and CO or DC then cancels it, the loop goes on with the next maker, whatever its price: a FOK buy trades above its limit. src/match/matcher.go:451 says of the levels beyond the limit: 后续档位价格更差，不可能再成交 (they cannot be traded with).
* `FinalStateSet` (match/matcher.go:816; `Inputs <- OwnOrderInputs`): finalizeTakerFok has no case for Canceled and CircuitCanceled, the two states matchFok sets before it calls it (src/match/matcher.go:526 and :539), so the taker's item is published with an empty state, which omitempty drops. src/match/matcher.go:721-722 says finalizeTaker generates the final result of every order and maps the internal state to the published string (将内部状态枚举映射为对外输出的状态字符串).
* `CircuitFromFirstTrade` (match/matcher.go:328; `Inputs <- OwnOrderInputs`): The circuit breaker of matchMarket takes results[0].Price for its base, which is the price of the first item, a trade or not: after self-trade prevention cancelled a resting order the market order is circuit-cancelled without having traded. src/match/matcher.go:309 says: 以第一笔成交价为基准 (the price of the first trade is the base).
* `CashIsFloored` (match/matcher.go:1230; `Inputs <- FatalInputs`, `DivUnit = 1`): order.UnfilledAmount.Div(unitPrice) rounds to the 37 decimal places of src/market-match.go:60 before Truncate(0), so a quotient just below an integer is rounded up to it once the unit price is 2*10^37 of the finest cash unit or more (with the scales 18 of src/conf/match-engine.conf.yaml:81-82 what is left of a cash amount has up to 36 places, and LOWPRECISION is 10^-6: prices from 2*10^7 on); matchCashAmount then exceeds the cash and the process ends in the Fatal of line 1239. src/match/matcher.go:1214 says: 可买数量 = floor(剩余金额 / 最小精度单价) * LOWPRECISION.
* `EveryTypeRouted` (match/matcher.go:295; `Inputs <- FatalInputs`, `DivUnit = 1`): Match has no case for Ioc: a row of type 5 or 6, which setOrderType maps to Ioc (src/puller/puller.go:265), ends the whole process in common.Fatal. src/match/matcher.go:11 lists IOC among the supported types: 支持的订单类型：市价单（Market）、限价单（Limit）、IOC、FOK.
* `SnapshotsTogether` (market-match.go:271; quotes.cfg): The clone and the "snapshot!" go to two channels and are saved by two goroutines, and the quotes' one is skipped when Redis fails: after a crash in between the book restarts at a later id than the quotes, which then miss the results in between (src/validate/validate.go:50 only warns). src/market-match.go:267 says: 同时通知 l2quote 模块同步做一次行情快照，保证两者位点一致 (so that both are at the same position).

Read in the code, and not stated as a property:

* checkRedisKline (l2quote/kline.go:309-330) is to check the lists of five years,
  "fatal if any error"; it looks at those of 2022 and warns.
* `HmType2Name[Type8Hour]` is the name of the six-hour kline, as its comment says
  (common/time.go:70).
* market/depth.go:272-277 describes the amount of each level accumulated over
  the windows of the percentage depth; the code at 278 does not accumulate.
* `Stop` of a ticker "does not block" (scheduler/scheduler.go:21), but does when
  it is called twice before the first instant, since its channel has one place.

The rounding needs numbers outside the usual range: with an amount
and a price scale of 18, the division can be rounded up only when a price is at
least 2*10^7 of the quote currency, and only when what is left of the cash falls
short of a whole number of units by no more than a few of its 36th places. `KilledOnlyByRounding`, which
is checked in `ending` and proved, says that no other sequence of orders reaches
a `Fatal` of the matcher than one with such a rounding or a type `Match` does not
route.

## 4. What is proved

* `MatcherProofs!TypeCorrect` (`TypeOK`): Every variable keeps its type, for every catalogue of rows, lot, precision and number of orders; in particular no amount becomes negative.
* `MatcherProofs!BookStaysInStep` (`BookInStep`): The index and the two trees of the book agree in every reachable state, and hold open limit orders with something left only.
* `MatcherProofs!NeverCrossed` (`Uncrossed`): The book is never crossed, inside a loop or between orders.
* `MatcherProofs!FatalsUnreachable` (`KilledOnlyByRounding`): Of the Fatals of the book and the matcher only the unrouted type and the division rounded up can be reached.
* `TradingProofs!MessagesInvariant`: The inductive invariant of the messages: the makers of a message are named once, in order of price and time, none of them the taker, with the trades' last price and their states.
* `TradingProofs!PriceTimeKept` (`PriceTimePriority`): No resting order that is still there, and that the taker could have met, comes before a maker the message names, for every catalogue of rows and any number of orders.
* `TradingProofs!NeverWithItself` (`NoSelfTrade`): An order with a self-trade strategy never trades with an order of its own user, for all users, strategies and books.
* `TradingProofs!MessagesComplete` (`MessageComplete`): A message names every order once, the taker last, every maker with a state, and the taker too unless it is a fill-or-kill order; the state it gives an order is one of a resting order exactly if the order is on the book then.
* `TradingProofs!PriceFollowsTrades` (`PriceIsLastTrade`): The price of a message is the price of its last trade.
* `TradingProofs!EverythingAccounted` (`MessageAddsUp`): What the makers' items of a message add up to is what its taker used up of its amount or cash.
* `TradingProofs!MovesArePublished` (`BookMovesAsPublished`): A step changes no resting order but the maker whose item it publishes, and by that item's amount.
* `TradingProofs!LeavingIsPublished` (`ExitsArePublished`): No order leaves the book without an item that says so.
* `TradingProofs!ExchangeImplemented` (`ImplementsExchange`): The engine implements the abstract exchange: every step of it is one of the exchange's or a stutter, for every book, lot and precision.
* `TradingProofs!FillOrKill` (`FokAllOrNothingUnguarded`): A fill-or-kill order with no self-trade strategy and no circuit rate is filled whole within its limit or trades nothing, whatever is on the book.
* `TradingProofs!DepthIsTheBook` (`DepthShowsBook`): For every step, capacity and size the depth of a side is the best rounded prices of the orders taken, each once, best first, with all that rests there, and the two sides do not meet, after any sequence of orders.
* `EventLoopProofs!LoopTypeCorrect` (`TypeOK`): The variables of EventLoop keep their types, whatever the capacities, the page and the number of crashes.
* `EventLoopProofs!RowsOnce` (`EachRowOnce`): Over any number of crashes, restarts and short selects the book has every row of the table up to its FromId exactly once and in order.
* `EventLoopProofs!FilesExact` (`SnapshotsExact`): Every complete snapshot file holds exactly the rows up to its id, so that a restart from any of them continues from a state the program was in.
* `EventLoopProofs!FilesLoad` (`NewestLoads`): Wherever in a dump the process ends, the newest snapshot file it leaves was completely written, for any number of files kept; of crashes of the machine, against which the code does not sync, nothing is said.
* `EventLoopProofs!RestartsForward` (`NeverOlder`): No step, a dump, a removal of old files or a crash, leaves a newest snapshot older than the one before, for any number of files kept.
* `PersistenceProofs!NoResultVanishes` (`ResultsAccountedFor`): Every result of the book is stored, in flight, or lost in one of the two named ways (a failed insert, a snapshot that covers it), over any crashes, failed inserts and refused starts, for any number of inserters and any capacities.
* `QuotePositionsProofs!QuotesStayComplete` (`QuotesComplete`): Unless a restart finds the quotes behind the book, and as long as Redis refuses no single command, the klines in memory hold exactly the results up to their id of each window, but for those of windows the last restart's snapshot did not keep, and the snapshot the whole of the windows it keeps, over any times, late results, crashes, replays and broken saves.
* `QuotePositionsProofs!RedisStaysComplete` (`RedisComplete`): Under the same conditions the klines in Redis hold every result up to maxMRID, also after pipelines that broke off half-way, but for what the last restart lost with its window, which a late result overwrites.
* `QuotePositionsProofs!SnapshotStaysInRedis` (`RedisHoldsSnapshot`): As long as Redis refuses no single command, the snapshot of the quotes never holds more than Redis does, over any crashes, replays and broken saves, also when a restart has found the quotes behind the book.
* `CandlesProofs!CandlesTyped` (`CandleTypeOK`): The variables of the quotes keep their types, for every clock, day, limit and number of results and restarts: no kline or mark is of a window that has not begun.
* `CandlesProofs!KlinesRight` (`KlinesShowTrades`): The klines in memory show the results quoted so far, each trade once in the window of its order and over every restart; while no result was late they have no gap and close at the newest price, and orders in the order of their times give them the first price and the extremes.
* `CandlesProofs!DayRight` (`DayAddsUp`): The buckets of the market hold the trades of their windows and the summary those of the day, after any shifts, late results and restarts.
* `CandlesProofs!QuotesAgree` (`MarketAgreesWithKlines`): The goroutine of the klines and that of the market, which read the clock at different times and restart from one snapshot, end up with the same candle of a window.
* `CandlesProofs!RedisRight` (`RedisInStep`): What is in memory and not marked is in Redis as it is in memory, over saves, dropped klines, snapshots and crashes, as long as no result was late.
* `PublisherProofs!BatchesNeverWait` (`NeverShort`): For any number of streams and connections and any capacities and batch sizes, a goroutine that packs a batch finds every message it counted: its blocking receives never wait.
* `PublisherProofs!PublisherTyped` (`PublisherTypeOK`): The variables of the publishing goroutines keep their types, for any streams, connections and capacities.
* `PublisherProofs!EachBatchedOnce` (`EachInOneBatch`): What of a stream has not left the process are its latest messages, in order and each once, whatever its connection does.
* `PublisherProofs!DeliveredInOrder` (`BrokerInOrder`): The broker takes the batches of a stream in the order they were made, a retried one at most again right after itself, and misses none as long as no connection was lost.
* `WindowsProofs!WindowsTileTime` (`WindowsTile`): In any zone of whole half-hours and from any instant since 1970, the windows of every kind, months included, cover time without gap or overlap.
* `WindowsProofs!SlotsInOrder` (`SlotsFollow`): From window to window the place of a kline is the next one of its list, or the first of the next year's list after the last one of its own, for every kind and any walk; weeks and months from 2022 on, from where their places are counted (WalksFrom2022).
* `WindowsProofs!YearlySlotsFit`: The place of a kline lies inside its list for every kind whose lists are split by year, in leap years too; only the unsplit lists can run over.

Those of `MatcherProofs` and `TradingProofs` hold for every set of users, every row
upstream may write (`Inputs`), every lot and precision, and any number of rows,
from `ConstAssumption`, `BookAssumption`, `InputAssumption` and `LotAssumption`:
the constants are positive integers, every order that is not a market order has
a positive price, and a lot is less than twice `DivUnit` (10^-6 against 10^37
in the program), so that rounding a quotient cannot find one lot more in a cash amount than it
pays for exactly. `ExchangeImplemented` alone needs the last one.

The argument for the matcher. `MatcherProofs` first bounds the two divisions (`DivBounds`,
`DivTruncateNat`, `DivTruncateExact`), from these what one encounter takes
(`MatchAmountBounds`) and that a maker is asked for more than it has only when
a quotient is rounded (`OverfillsOnlyByRounding`), and types everything an
encounter yields. It shows that `Before` is a strict order and
that a non-empty side has a head, by well-foundedness of the strict subset
relation on finite sets: nothing in the code bounds a side. Then comes
the inductive invariant `IInv`. `Uncrossed` alone is not inductive: that a
limit order rests only on a book it does not cross needs to know that the order
in hand is not on the book (`TakerInHand`), that everything on the book came
before it (`Older`), and that whatever rests has a positive price (`Priced`),
because a market order with price 0 resting on the book would be crossed by
nothing. Each action preserves each part in a lemma of its own.

The argument for the messages. `TradingProofs` first shows that whatever the
handler, a step is one of four: it takes a row (`RowTaken`), meets the head of
the other side (`HeadMet`), ends and publishes (`Published`), or stops the process
(`Halted`). Price-time priority and the other properties of a message then need
that the makers it names so far are older than the taker, each named once, and
each on the book exactly if its state is one of a resting order, which before the
loop's last turn only a maker is of which the taker's cash does not pay for one
lot (`MakersNamed`), and that the price is that of the last trade (`LastTrade`): with the
properties themselves this is `MessageInv`, and each kind of step keeps it.
That the states of a finished message tell what is on the book (`StatesTell`) follows
for the makers from `MakersNamed`, and for the taker from its handler's end: it
rests with a state that says so, or is not on the book.
`BookMovesAsPublished` and `ExitsArePublished` are read off the same four kinds.

`MessageAddsUp` speaks of a sum over the items. Its witness is the running total:
`Accounted` says that the items can be added up one after the other to what the
taker has used up, and an encounter adds its own amount to both; that the
recursive function of `MessageAddsUp` is that one comes last. For the sums of the precheck of a fill-or-kill order,
`MatcherProofs` proves of the library's fold that it does not depend on the
order in which the elements are taken (`SumLeftRemove`, `SumLeftSame`); the
library's theorems of induction cannot be used, so these are shown by a minimal
counterexample, a smallest subset for which the sum is wrong.

The argument for fill-or-kill. That an unguarded order is filled whole is not
inductive: `CanBeFilled` says besides that, while its loop runs, some front of the
other side lies within its limit and has enough left for what it still wants. The
precheck establishes it, because the orders it adds up are such a front; an
encounter takes from the head of that front as much as from what is wanted; and
an order for which it holds is never without a head, nor done before it is filled.

The argument for the depth. A list built by comparing with its last level only
shows the book because the orders come sorted and rounding keeps their order
(`RoundingKeepsOrder`, `StepPricesSorted`). `LevelsSoFar` is the invariant of the
loop: the list so far is the levels of the orders so far, and a price that is not
among them comes after all of them and finds the list full; one turn keeps it
(`AddOrderKeepsLevels`). The fold is unfolded into its partial results
(`AddsOrdersExists`, `DepthUnfolds`), of which the first that is not so would be a
least number. What `Take` yields are the orders within its size of the front, each
at its place (`TakeIs`), from the order being strict and sides finite. That the sides
do not meet is `Uncrossed`, since buy prices go down and sell prices up.

The refinement. `ImplementsExchange` maps each kind of step to a step of `Exchange`
or to a stutter: a row taken to the arrival of its order, an encounter to what the
exchange does with two orders that meet (`EncounterOutcome` compares the two for
each strategy and each kind of amount), the end to the order resting, filled or
withdrawn. It uses `IInv` for the head being the best order of its side.

The argument for the event loop. `EventLoopProofs` assumes `LoopAssumption` only
(the bounds are natural numbers, pages, capacities and history positive), so
what is proved holds for any number of rows and crashes. That the book has every
row once is not inductive: it needs that what was read and not matched is in
order (`InOrder`) and is exactly what the table has between book and cursor
(`Coming`), that the cursor is not ahead of the table, so that rows written
later are still asked for (`Frontier`), and, because a restart makes a book out
of a file, that every clone in the channel, the temporary file and the files
are such books too (`Kept`, `Copies`). `NeverOlder` needs the types only: the
newest file is never among those removed.

The argument for persistence. `PersistenceProofs` builds on the invariant of
`EventLoopProofs`: every step of the composition is a step of the event loop or
none, so that `IInv` holds there too. `ResultsAccountedFor` then needs the types
of the way of the results and that a result in hand is that of a row; a result
leaves each place of its way only for the next one, which each action preserves
in a lemma of its own. It holds for any number of inserters.

The argument for the positions of the quotes. `QuotePositionsProofs` builds on
`EventLoopProofs` in the same way. That the klines have every result up to their
id is not inductive: the next result taken must be the next row of the table,
so what waits in `mrChan` must be in order and none before its turn (`Queue`), and
whatever the book has and the quotes lack must wait there (`Waiting`). For Redis:
what is not marked is there (`Marked`), and it has every result up to its id
that is not lost (`RedisFull`), which is what makes it safe to remove marks while it
is ahead. The snapshot is complete for the windows it keeps and empty elsewhere
(`FileComplete`). A restart establishes `Marked` anew from `RedisFull` and the
snapshot, and `Waiting` because the book is not ahead of the quotes; when it is,
`behind` is set and nothing is claimed of the contents. What is lost needs the times
(`Clocks`): a snapshot is not older than what it has, and no later snapshot is
older than the one of the last restart. Since a window that is over does not come
back (`WindowAssumption`), a result that is lost is of a window no later snapshot
keeps (`NotLost`), what one restart lost is lost to the next (`LostStays`), and what the
quotes have not had yet is not lost (`NewNotLost`). The theorems assume
`~CommandsFail`: with it `RedisFull` is false, as section 3 describes.

`RedisHoldsSnapshot` needs no such exception, but another invariant, since after a
restart that found the quotes behind neither the klines nor Redis are complete.
`ReplayInv` speaks of the rows above all snapshots of the book instead
(`Fresh`): only they come again after a restart, whichever. No step makes a row
fresh that was not (`FreshBefore`: the newest snapshot is never removed), and no
snapshot, finished or on its way, is ahead of the book (`NotAhead`), so that a row
just matched is fresh. Of the fresh rows up to their ids memory, Redis and the
snapshot lack none (`Full`), those between quotes and book are on their way
(`Expected`), and of what comes again while Redis is ahead Redis has every kline
(`Repeated`); so what memory has up to the position of Redis is in Redis
(`NothingNew`), and marks may be removed unwritten. A save, whether it succeeds or
breaks off, keeps that (`WellSaved`), and with it that Redis has all the snapshot
has (`Under`).

The argument for the candles. `CandlesProofs` assumes `KlineAssumption` and
`CandleAssumption` only: limits, day and bounds are natural numbers, the limits
and the day positive, at least as many klines are kept as a day has windows, and
prices are positive. That the klines show their trades is not inductive: a step
must know the open, high and low prices of a kline whose orders did not come in
the order of their times, of which `KlinesShowTrades` says nothing, and the market
must agree with klines that were dropped. `CInv` says instead that there is a
history (`History`): for every number of results and every window, past or to come,
the kline it would have if each result had been drawn in order into its own
window and all later ones. The klines from `since` on are those of the history for
the results quoted, with their prices unless a result was late (`KlinesFollow`); so
are the buckets of the market, wherever its top is (`MarketFollows`), those in the
snapshot for the results it has, and the klines in Redis for the results up to
`maxMRID` (`RedisFollows`), where an unmarked kline with trades has not changed
since. A new result makes the history longer and leaves what there was
(`HistoryGoesOn`); a replay goes back in it; moving the buckets on, or filling up
klines, agrees with it because windows after the last result are flat
(`LaterFlat`). The properties are then facts about the history alone: `CountIs`,
`CloseIs`, `FlatIs` and `SpanIs`, by a least number of results for which they fail.
The summary of the day is not determined by the history, since it keeps
extremes of windows that have left the day: `DetailFollows` says what it counts and
spans. The fold that adds up the buckets is unfolded into its partial sums
(`SummaryIs`, `SumsExist`), one bucket at a time.

The argument for the publisher. That a batch never waits is not inductive:
between reading `len(ch)` and the first receive the channel must not shrink, so
the invariant says besides that only the stream's own goroutine takes from it,
in the phases in which `missing` counts what is still there. The sizes each kind
computes never exceed the length read (`Extra`), for any batch sizes.
The order of delivery is that of one stream at a time. Seen by a stream, a step
writes a message (`Grows`), hands the held batch to the connection (`Leaves`), lets
the broker have a batch whose write is then repeated (`Repeats`), or leaves its
messages where they are and may lose what was on the way (`Stays`), whichever
stream or connection takes the step. `Ordered` is what these keep: the unwritten
messages are the latest; every batch sent lies before them, except the one being
retried, which is the first of them; and until a connection is lost what was sent
and what is unwritten are together all there is. It needs that no batch is empty
and that nothing is under way on a connection that was lost (`Tidy`). That
concatenations of concatenations may be regrouped is proved of the library's
definition (`FlattenAppend`, `FlattenCons`), again by minimal counterexamples.

The argument for the windows. Every kind but the month is a division of time:
with whole days in the zone of the exchange, the start of a window is the largest
multiple of its length not after the instant, and the next start the next multiple;
the lemmas state this for minutes, hours of a day, days and weeks. The month needs
the calendar. A year is as long as the distance to the next first of January
(`YearLength`), so n years from 1970 on hold at least 365 n and at most 366 n days
(`YearBounds`): the year of a day lies between those two quotients, exists as the
first whose successor begins later, and is the only one (`YearFound`, `YearIs`). The
months begin one after the other and fill the year (`MonthsFill`), so that each day
lies in one of them in the same way (`MonthFound`, `MonthIs`). This is proved for
day numbers from 0 on, whence the assumption of `Windows` that walks start in 1970
or later where the exchange is.

The places rest on numbering the windows. A kind split by year divides the day and
has a window that starts at local midnight, since zones are whole half-hours
(`YearlyCut`): window q starts q lengths after day 0, and wherever the code takes
the place from, the seconds since the first of January or the day of the year and
the hour, it is q less the windows before the year (`YearlySlot`). Months and weeks
are numbered from 2022, the weeks by days whose count is a recursive function over
the years; that it is the distance between two first of January
(`YearsCounted`) is proved by showing that the function exists and by a first year
in which it would fail. Weeks before 2022 would all be counted as if their year
began the count, which `WalksFrom2022` excludes; the walks of the runs satisfy it.

Only model-checked: liveness (`LoopsEnd`, `RowsMatched`, `ResultsEnd`,
`RedisGetsAll`, `AllHanded`), which is out of the prover's reach.

## 5. Not modelled, and why

* Bodies of messages and columns: trades, ticker, role, direction, `extra`, the
  formatting of prices, compression. They are computed from a result and change
  nothing; `ticker` besides is written by two goroutines without a lock, so
  that a message may show prices of two results (l2quote/ticker.go:14).
* The percentage depth (`percent10`, market/depth.go:193 is listed as a hazard),
  which accumulates the levels first (market/depth.go:194), and the uncombined
  variant, which nothing calls.
* How the parts of a depth are handed to goroutines and awaited
  (market/depth.go:86): the outcome is one of the memory model; the depth is
  modelled as built when all parts are.
* Tickers (`scheduler/`): models let a ticker fire at any time, which includes
  every alignment. Nothing in the program stops one.
* `CompareOrderBook` and the comparison of messages during the replay: the
  models of the replay say which results it looks up, and when it ends the
  process.
* The puller's checks of precision and of types it does not map: rows of which
  the repository does not say whether upstream writes them.
* `matchIoc`, `matchLimitMaker`: no order is routed to them (an order of type
  Ioc ends the process, see `EveryTypeRouted`).
* Zones whose clocks are changed (common/time.go:449 is listed as a hazard): the
  default zone has a fixed offset.
* Crashes of the machine. The dump is closed without a sync, and Close's error is
  not looked at, before it is renamed (snapshotter/snapshotter.go:180), and the
  quotes' snapshot is written in the same way: after a power failure the newest
  file may be empty or cut off, and every start fails. `Crash` is the end of the
  process, and `NewestLoads` claims nothing more.
* Errors of `Scan` (puller/puller.go:236), which are ignored: such a row goes on
  with fields unset, which ones is the driver's matter.
* Validation beside files and results that change while it reads them
  (market-match.go:139): `Validate` is one step.
* S3 copies of snapshots: written after the local file, read by nothing in the
  repository's start.
* A kline that could not be written to Redis and is cleared from memory is a
  Fatal in the next save (l2quote/l2quote.go:304, redis_ops.go:49). `Candles`
  disables the save there, and a crash follows; it takes Redis to fail for as
  long as a kline is kept.
* Configuration, logging, metrics: no behaviour of their own.
