------------------------------- MODULE Candles -------------------------------
(***************************************************************************)
(* The quotes of one symbol beside the clock (l2quote/l2quote.go): every   *)
(* result is handed to the goroutine of a kline period and to that of the  *)
(* market, each of which reads the clock for itself and has tickers of its *)
(* own; Run waits for both, saves the klines to Redis, takes snapshots and *)
(* drops old klines.  After a crash results that the snapshot does not     *)
(* have come again.                                                        *)
(*                                                                         *)
(* Not in the model: the failures of Redis (QuotePositions has them), the  *)
(* messages sent to RabbitMQ, which change nothing here, and orders        *)
(* created later than the clock of the quotes.                             *)
(***************************************************************************)
EXTENDS Kline

CONSTANTS
  MaxWindow,  \* bound on the clock
  MaxResult,  \* bound on the results
  MaxCrash,   \* bound on the crashes
  Fills,      \* sequences of maker prices a result may have
  KeepKlines  \* klines of one period kept in memory: 1440

ASSUME CandleAssumption ==
  /\ MaxWindow \in Nat /\ MaxResult \in Nat /\ MaxCrash \in Nat
  /\ KeepKlines \in Nat /\ KeepKlines >= DaySize
  /\ Fills \subseteq Seq(Nat \ {0})

VARIABLES
  clock,       \* window of time.Now()
  results,     \* what the matcher makes of the rows, the same after a replay
  maxId,       \* MaxMRId: results quoted
  hand,        \* goroutines that still work on the result after maxId
  klines,      \* Klines of the period
  redisCache,  \* windows changed since they were last written to Redis
  market,      \* Market
  detail,      \* marketDetail
  snapshotTime,  \* window of lastSnapshotTime
  snapping,    \* a snapshot is under way: the klines have been saved
  redis,       \* maxMRID and the klines in Redis
  file,        \* the latest snapshot, NoFile before the first
  crashes,
  since,       \* klines before this window may lack results (history)
  late         \* a result was older than a day (history)

quotes == <<maxId, hand, klines, redisCache, market, detail, snapshotTime, snapping>>
vars == <<clock, results, quotes, redis, file, crashes, since, late>>

Windows == 0 .. MaxWindow
NoFile == [at |-> 0, klines |-> <<>>, market |-> NoTrades(0), maxId |-> -1]

\* Without a snapshot, at time now.
Started(now) ==
  /\ maxId' = 0 /\ klines' = <<>> /\ snapshotTime' = now
  /\ market' = NoTrades(now) /\ detail' = Blank
  /\ since' = 0

Init ==
  /\ clock = 0 /\ results = <<>>
  /\ maxId = 0 /\ hand = {} /\ klines = <<>> /\ redisCache = {}
  /\ market = NoTrades(0) /\ detail = Blank
  /\ snapshotTime = 0 /\ snapping = FALSE
  /\ redis = [maxId |-> 0, klines |-> [w \in Windows |-> Blank]]
  /\ file = NoFile /\ crashes = 0
  /\ since = 0 /\ late = FALSE

-----------------------------------------------------------------------------
Tick ==
  /\ clock < MaxWindow
  /\ clock' = clock + 1
  /\ UNCHANGED <<results, quotes, redis, file, crashes, since, late>>

Idle == hand = {} /\ ~snapping

\* Run hands out a result: a new one, or one that comes again.
Receive ==
  /\ Idle /\ maxId < MaxResult
  /\ IF maxId < Len(results) THEN UNCHANGED results
     ELSE \E ts \in 0 .. clock, f \in Fills :
            results' = Append(results, [ts |-> ts, fills |-> f])
  /\ hand' = {"kline", "market"}
  /\ UNCHANGED <<clock, maxId, klines, redisCache, market, detail, snapshotTime,
                 snapping, redis, file, crashes, since, late>>

InHand == results[maxId + 1]

\* wg.Done, and after the last one the result has been quoted.
Done(goroutine) ==
  /\ hand' = hand \ {goroutine}
  /\ maxId' = IF hand = {goroutine} THEN maxId + 1 ELSE maxId

TooLate == ~isPendingOrder(InHand) /\ clock - InHand.ts >= Min({ForwardLimit, DaySize})

\* Slip: the redrawn klines are not marked for Redis.
KlineUpdaterUnmarked ==
  /\ "kline" \in hand
  /\ klines' = updateKline(getCurrentKline(klines, clock), InHand, clock)
  /\ redisCache' = redisCache \cup MissingAt(klines, clock)
                     \cup (DrawnBy(InHand, clock) \cap {clock})
  /\ Done("kline")
  /\ late' = (late \/ TooLate)
  /\ UNCHANGED <<clock, results, market, detail, snapshotTime, snapping, redis,
                 file, crashes, since>>

KlineUpdater ==
  /\ "kline" \in hand
  /\ klines' = updateKline(getCurrentKline(klines, clock), InHand, clock)
  /\ redisCache' = redisCache \cup MissingAt(klines, clock) \cup DrawnBy(InHand, clock)
  /\ Done("kline")
  /\ late' = (late \/ TooLate)
  /\ UNCHANGED <<clock, results, market, detail, snapshotTime, snapping, redis,
                 file, crashes, since>>

\* The market and its summary at window now.
BuiltMarket(now) == Shifted(market, now)
BuiltDetail(now) == IF now = market.top THEN detail ELSE Summary(BuiltMarket(now))

MarketUpdater ==
  /\ "market" \in hand
  /\ IF isPendingOrder(InHand)
     THEN /\ market' = BuiltMarket(clock)
          /\ detail' = BuiltDetail(clock)
     ELSE /\ market' = MarketWith(BuiltMarket(clock), InHand, clock)
          /\ detail' = DetailWith(BuiltDetail(clock), InHand, clock)
  /\ Done("market")
  /\ late' = (late \/ TooLate)
  /\ UNCHANGED <<clock, results, klines, redisCache, snapshotTime, snapping, redis,
                 file, crashes, since>>

\* The market's own tickers, which do not wait for Run.
MarketTicker ==
  /\ market.top < clock
  /\ market' = BuiltMarket(clock)
  /\ detail' = BuiltDetail(clock)
  /\ UNCHANGED <<clock, results, maxId, hand, klines, redisCache, snapshotTime,
                 snapping, redis, file, crashes, since, late>>

\* The tickers of Run that look for the current kline.  The one that sends the
\* klines of MaxMRTS looks for a kline that klineUpdater has made already.
CheckKlines ==
  /\ Idle /\ MissingAt(klines, clock) # {}
  /\ klines' = getCurrentKline(klines, clock)
  /\ redisCache' = redisCache \cup MissingAt(klines, clock)
  /\ UNCHANGED <<clock, results, maxId, hand, market, detail, snapshotTime, snapping,
                 redis, file, crashes, since, late>>

-----------------------------------------------------------------------------
(* Redis, clearing and snapshots *)

RedisAhead == redis.maxId > maxId

\* saveKlinesToRedis of klines ks, those of ws being marked.
Saved(ks, ws) ==
  IF RedisAhead THEN UNCHANGED redis
  ELSE redis' = [maxId |-> maxId,
                 klines |-> [w \in Windows |-> IF w \in ws THEN ks[w] ELSE redis.klines[w]]]

SaveTick ==
  /\ Idle
  /\ RedisAhead \/ redisCache \subseteq DOMAIN klines
  /\ Saved(klines, redisCache)
  /\ redisCache' = {}
  /\ UNCHANGED <<clock, results, maxId, hand, klines, market, detail, snapshotTime,
                 snapping, file, crashes, since, late>>

\* The oldest klines of which at most KeepKlines stay, but none from the last
\* snapshot on.
Expired == {w \in DOMAIN klines :
  /\ w < snapshotTime
  /\ Cardinality({v \in DOMAIN klines : v >= w}) > KeepKlines}

Clear ==
  /\ Idle /\ Expired # {}
  /\ klines' = [w \in DOMAIN klines \ Expired |-> klines[w]]
  /\ since' = Max({since, Max(Expired) + 1})
  /\ UNCHANGED <<clock, results, maxId, hand, redisCache, market, detail,
                 snapshotTime, snapping, redis, file, crashes, late>>

\* On "snapshot!" the klines are saved first.
StartSnapshot ==
  /\ Idle
  /\ klines' = getCurrentKline(klines, clock)
  /\ LET marked == redisCache \cup MissingAt(klines, clock)
     IN  /\ RedisAhead \/ marked \subseteq DOMAIN klines'
         /\ Saved(klines', marked)
  /\ redisCache' = {}
  /\ snapping' = TRUE
  /\ UNCHANGED <<clock, results, maxId, hand, market, detail, snapshotTime, file,
                 crashes, since, late>>

\* No step of the map from types to seconds: common's init() leaves it empty.
HmType2Step == 0

\* The klines a snapshot at window key holds.
Kept(key) ==
  [w \in {key, key - HmType2Step} |-> KlineAt(klines, w)]

\* takeSnapShot reads the clock anew.
takeSnapShot ==
  /\ snapping /\ clock \in DOMAIN klines
  /\ file' = [at |-> clock, klines |-> Kept(clock), market |-> market, maxId |-> maxId]
  /\ snapshotTime' = clock
  /\ snapping' = FALSE
  /\ UNCHANGED <<clock, results, maxId, hand, klines, redisCache, market, detail,
                 redis, crashes, since, late>>

\* Slip: the buckets of the snapshot are taken for those of the restart's time.
RestoredAtOnce ==
  /\ maxId' = file.maxId /\ klines' = file.klines /\ snapshotTime' = file.at
  /\ market' = [file.market EXCEPT !.top = clock]
  /\ detail' = Summary(market')
  /\ since' = file.at

\* From the latest snapshot, then the market built for the time it is.
Restored ==
  /\ maxId' = file.maxId /\ klines' = file.klines /\ snapshotTime' = file.at
  /\ market' = Shifted(file.market, clock)
  /\ detail' = Summary(market')
  /\ since' = file.at

\* A crash and the restart after it.  There is no other way on where the code
\* calls Fatal: a save that finds a marked kline dropped, and a takeSnapShot
\* whose minute has turned since the klines were looked for.
Crash ==
  /\ crashes < MaxCrash
  /\ crashes' = crashes + 1
  /\ IF file = NoFile THEN Started(clock) ELSE Restored
  /\ hand' = {} /\ redisCache' = {} /\ snapping' = FALSE
  /\ UNCHANGED <<clock, results, redis, file, late>>

Next ==
  \/ Tick
  \/ Receive \/ KlineUpdater \/ MarketUpdater
  \/ MarketTicker \/ CheckKlines
  \/ SaveTick \/ Clear \/ StartSnapshot \/ takeSnapShot
  \/ Crash

Spec == Init /\ [][Next]_vars

-----------------------------------------------------------------------------
(* Properties *)

KlineRecord == [open : Nat, close : Nat, high : Nat, low : Nat, count : Nat]

\* Every variable has its type: the domain of klines is a set of windows that
\* have begun, and what is marked has begun too.
CandleTypeOK ==
  /\ clock \in Windows
  /\ \A i \in DOMAIN results : results[i].ts \in 0 .. clock /\ results[i].fills \in Fills
  /\ maxId \in 0 .. Len(results) /\ hand \subseteq {"kline", "market"}
  /\ hand # {} => maxId < Len(results)
  /\ DOMAIN klines \subseteq 0 .. clock /\ redisCache \subseteq 0 .. clock
  /\ \A w \in DOMAIN klines : klines[w] \in KlineRecord
  /\ market.top \in 0 .. clock /\ detail \in KlineRecord
  /\ market.bucket \in [Buckets -> KlineRecord]
  /\ redis.maxId \in 0 .. Len(results) /\ redis.klines \in [Windows -> KlineRecord]
  /\ snapping \in BOOLEAN /\ since \in 0 .. clock

\* The results a goroutine has accounted for.
QuotedBy(goroutine) ==
  1 .. IF hand # {} /\ goroutine \notin hand THEN maxId + 1 ELSE maxId

Traders(S) == {i \in S : ~isPendingOrder(results[i])}
At(S, w) == {i \in S : results[i].ts = w}
UpTo(S, w) == {i \in S : results[i].ts <= w}
Trades(S) == Cardinality(UNION {{i} \X DOMAIN results[i].fills : i \in S})

\* The price of the newest of results S, 0 when there is none.
LastPrice(S) == IF S = {} THEN 0 ELSE Price(results[Max(S)])

InOrder(S) == \A i, j \in S : i < j => results[i].ts <= results[j].ts

\* A kline shows the trades of its window, each once and over restarts, and
\* closes at the price of the newest result that is not of a later window; one
\* without trades is flat there.  When the orders came in the order of their
\* times it also opens at the first trade and spans all of them.
KlineShows(k, w, S) ==
  LET here == At(S, w)
      prices == UNION {Range(results[i].fills) : i \in here}
  IN  /\ k.count = Trades(here)
      /\ late \/ k.close = LastPrice(UpTo(S, w))
      /\ k.low <= Min({k.open, k.close}) /\ Max({k.open, k.close}) <= k.high
      /\ ~late /\ here = {} => k = Flat(LastPrice(UpTo(S, w)))
      /\ ~late /\ here # {} /\ InOrder(S) =>
           /\ k.open = getStartPrice(results[Min(here)])
           /\ k.high = Max(prices) /\ k.low = Min(prices)

NoGaps ==
  \A w \in DOMAIN klines : w >= since =>
    w .. Max(DOMAIN klines) \subseteq DOMAIN klines

\* l2quote/kline.go:116: the klines in memory show the results quoted so far, and
\* between two windows that have one there is none without.
KlinesShowTrades ==
  /\ late \/ NoGaps
  /\ \A w \in DOMAIN klines :
       w >= since => KlineShows(klines[w], w, Traders(QuotedBy("kline")))

\* l2quote/market.go:1: the buckets hold the trades of the last day, also those
\* that were quoted before a restart, and the summary adds them up; it closes
\* where the newest bucket does and spans what the buckets show.
DayAddsUp ==
  LET S == Traders(QuotedBy("market"))
      day == market.top - DaySize + 1 .. market.top
      Shown == {market.bucket[i].close : i \in Buckets} \ {0}
  IN  /\ \A i \in Buckets : market.bucket[i].count = Trades(At(S, market.top - i))
      /\ detail.count = Trades({i \in S : results[i].ts \in day})
      /\ late \/ /\ detail.close = market.bucket[0].close
                 /\ \A p \in Shown : detail.low <= p /\ p <= detail.high

\* The klines of the minute and the buckets of the market, kept by different
\* goroutines that look at the clock at different times, show the same.
MarketAgreesWithKlines ==
  ~late /\ hand = {} =>
    \A w \in DOMAIN klines : \A i \in Buckets :
      w >= since /\ w = market.top - i => klines[w] = market.bucket[i]

\* Redis has every kline with trades as it is in memory, except those marked to
\* be written and while Redis is ahead.  A result that is late may write a kline
\* that was dropped from memory over the one in Redis.
RedisInStep ==
  ~late /\ hand = {} /\ ~RedisAhead =>
    \A w \in DOMAIN klines \ redisCache :
      w >= since /\ klines[w].count > 0 => redis.klines[w] = klines[w]

\* l2quote/snapshot.go:38: a snapshot holds the kline of the window before its
\* own beside that of its own.
SnapshotHoldsPrevious ==
  [][file' # file /\ clock - 1 \in DOMAIN klines =>
       clock - 1 \in DOMAIN file'.klines]_vars
=============================================================================
