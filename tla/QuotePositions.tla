---------------------------- MODULE QuotePositions ----------------------------
(***************************************************************************)
(* How far the quotes are (l2quote/l2quote.go, redis_ops.go, snapshot.go)  *)
(* beside the event loop: results through mrChan into the klines, klines   *)
(* into Redis, both into a snapshot when the matcher says so, over crashes *)
(* and restarts.  A kline is the set of results it accounts for: when the  *)
(* order of a result was created is given, what the result does to the     *)
(* prices is not looked at.  A snapshot keeps of each period the kline of  *)
(* the window it is taken in, and a restart has no others.  That klines    *)
(* also leave the memory once there are 1440 of a period is in Candles.    *)
(***************************************************************************)
EXTENDS EventLoop

CONSTANTS
  MrCap,     \* capacity of mrChan
  MaxTime,   \* bound on the clock
  Windows,   \* time windows of all periods
  WindowsAt, \* the windows an instant is in, one of each period
  TimeOf,    \* when the order of a result was created, 0 if it traded nothing
  CommandsFail  \* Redis may refuse a single command of a pipeline

ASSUME QuoteAssumption ==
  /\ MrCap \in Nat \ {0} /\ MaxTime \in Nat \ {0}
  /\ WindowsAt \in [0 .. MaxTime -> SUBSET Windows] /\ WindowsAt[0] = {}
  /\ TimeOf \in [Rows -> 0 .. MaxTime]
  /\ CommandsFail \in BOOLEAN

\* A window that is over does not come back.
ASSUME WindowAssumption ==
  \A s, t, u \in 0 .. MaxTime :
    s <= t /\ t <= u => WindowsAt[s] \cap WindowsAt[u] \subseteq WindowsAt[t]

VARIABLES
  clock,       \* time.Now()
  mrChan,      \* channel of results and of Marker
  quotation,   \* Quotation: MaxMRId and the klines
  newest,      \* the time up to which there are klines, 0 when there are none
  redisCache,  \* windows changed since they were last written to Redis
  redis,       \* maxMRID and the klines in Redis
  quoteFile,   \* the latest snapshot of the quotes
  snapshotTime,  \* LastSPTS in it: when it was taken, 0 when there is none
  restored,    \* time and maxId of the snapshot of the last restart (history)
  behind       \* a restart found the quotes behind the book (history)

memory == <<quotation, newest, redisCache>>
saved == <<quoteFile, snapshotTime>>
restarts == <<restored, behind>>
qvars == <<vars, clock, mrChan, memory, redis, saved, restarts>>

Marker == 0  \* "snapshot!"

WindowsOf == [i \in Rows |-> WindowsAt[TimeOf[i]]]

Quotation ==
  {q \in [maxId : 0 .. MaxRow, klines : [Windows -> SUBSET Rows]] :
     \A w \in Windows : \A i \in q.klines[w] : w \in WindowsOf[i]}
NoQuotes == [maxId |-> 0, klines |-> [w \in Windows |-> {}]]

QuoteInit ==
  /\ Init
  /\ clock = 1
  /\ mrChan = <<>>
  /\ quotation = NoQuotes /\ newest = 0 /\ redisCache = {}
  /\ redis = NoQuotes
  /\ quoteFile = NoQuotes /\ snapshotTime = 0
  /\ restored = [maxId |-> 0, at |-> 0] /\ behind = FALSE

Tick ==
  /\ clock < MaxTime
  /\ clock' = clock + 1
  /\ UNCHANGED <<vars, mrChan, memory, redis, saved, restarts>>

-----------------------------------------------------------------------------
(* The matcher's side *)

SendToQuotes ==
  /\ SendResult
  /\ Len(mrChan) < MrCap
  /\ mrChan' = Append(mrChan, book.fromId)
  /\ UNCHANGED <<clock, memory, redis, saved, restarts>>

SendQuoteMarker ==
  /\ SendMarker
  /\ Len(mrChan) < MrCap
  /\ mrChan' = Append(mrChan, Marker)
  /\ UNCHANGED <<clock, memory, redis, saved, restarts>>

-----------------------------------------------------------------------------
(* The quotes' side: Run *)

\* The windows that get a kline when those of now are looked for.
Missing ==
  IF newest = 0 THEN WindowsAt[clock]
  ELSE UNION {WindowsAt[t] : t \in newest + 1 .. clock} \ WindowsAt[newest]

\* getAllCurrentKline at the time it is.
LookedFor(cache) ==
  /\ newest' = clock
  /\ redisCache' = cache \cup Missing

CheckKlines ==
  /\ alive
  /\ LookedFor(redisCache)
  /\ UNCHANGED <<vars, clock, mrChan, quotation, redis, saved, restarts>>

\* The windows from a result's own up to those of now.
UpToNow(i) ==
  IF TimeOf[i] = 0 THEN {} ELSE UNION {WindowsAt[t] : t \in TimeOf[i] .. clock}

\* The klines of windows ws with result i.
Updated(ws, i) ==
  [w \in Windows |-> quotation.klines[w] \cup (IF w \in ws THEN {i} ELSE {})]

\* A result goes into the klines of its windows, and is carried over to later
\* ones as far as klineForwardLimit allows.
Drawn(i) ==
  /\ quotation' = [maxId |-> i, klines |-> Updated(WindowsOf[i], i)]
  /\ \E ws \in SUBSET UpToNow(i) : WindowsOf[i] \subseteq ws /\ LookedFor(redisCache \cup ws)

\* Slip: results of before the restart are counted again.
QuoteAgain ==
  /\ alive /\ mrChan # <<>> /\ Head(mrChan) # Marker
  /\ mrChan' = Tail(mrChan)
  /\ Drawn(Head(mrChan))
  /\ UNCHANGED <<vars, clock, redis, saved, restarts>>

\* A result that is not new is dropped.
Quote ==
  /\ alive /\ mrChan # <<>> /\ Head(mrChan) # Marker
  /\ mrChan' = Tail(mrChan)
  /\ IF Head(mrChan) <= quotation.maxId THEN UNCHANGED memory
     ELSE Drawn(Head(mrChan))
  /\ UNCHANGED <<vars, clock, redis, saved, restarts>>

\* The klines of ws as they are in memory, the others as they are in Redis.
Overwritten(ws) ==
  [w \in Windows |-> IF w \in ws THEN quotation.klines[w] ELSE redis.klines[w]]

\* saveKlinesToRedis of marks cache without an error: nothing is written, and
\* nothing kept to be written, while Redis is ahead.
Saved(cache) ==
  /\ redis' = IF redis.maxId > quotation.maxId THEN redis
              ELSE [maxId |-> quotation.maxId, klines |-> Overwritten(cache)]
  /\ redisCache' = {}

\* Slip: the command for maxMRID comes first in the pipeline.
SaveFailedIdFirst(cache) ==
  /\ \/ UNCHANGED redis
     \/ /\ redis.maxId <= quotation.maxId
        /\ \E ws \in SUBSET cache :
             redis' = [maxId |-> quotation.maxId, klines |-> Overwritten(ws)]
  /\ redisCache' = cache

\* Slip: the marks are removed although the pipeline failed.
SaveFailedUnmarked(cache) ==
  /\ UNCHANGED redis
  /\ redisCache' = {}

\* With an error: reading maxMRID failed, or the pipeline broke off, the one
\* command for maxMRID being the last, or Redis refused some of its commands,
\* which does not keep it from executing the others (a list it does not have:
\* checkRedisKline only warns, and looks at those of 2022).
SaveFailed(cache) ==
  /\ \/ UNCHANGED redis
     \/ /\ redis.maxId <= quotation.maxId
        /\ \E ws \in SUBSET cache :
             redis' = [redis EXCEPT !.klines = Overwritten(ws)]
     \/ /\ redis.maxId <= quotation.maxId
        /\ \E ws \in SUBSET cache :
             /\ ws = cache \/ CommandsFail
             /\ redis' = [maxId |-> quotation.maxId, klines |-> Overwritten(ws)]
  /\ redisCache' = cache

SaveTick ==
  /\ alive
  /\ Saved(redisCache)
  /\ UNCHANGED <<vars, clock, mrChan, quotation, newest, saved, restarts>>

SaveTickFailed ==
  /\ alive
  /\ SaveFailed(redisCache)
  /\ UNCHANGED <<vars, clock, mrChan, quotation, newest, saved, restarts>>

\* The klines of the windows of now; lastKey is key, so none before them.
OfNow == [w \in Windows |-> IF w \in WindowsAt[clock] THEN quotation.klines[w] ELSE {}]

takeSnapShot ==
  /\ quoteFile' = [maxId |-> quotation.maxId, klines |-> OfNow]
  /\ snapshotTime' = clock

\* "snapshot!" has come.
SnapshotDue ==
  /\ alive /\ mrChan # <<>> /\ Head(mrChan) = Marker
  /\ mrChan' = Tail(mrChan)
  /\ newest' = clock

\* Slip: the snapshot is taken whether or not the klines could be saved.
QuoteSnapshotAnyway ==
  /\ SnapshotDue
  /\ Saved(redisCache \cup Missing) \/ SaveFailed(redisCache \cup Missing)
  /\ takeSnapShot
  /\ UNCHANGED <<vars, clock, quotation, restarts>>

\* The klines are saved and the snapshot is taken, in the same minute: a crash
\* in between, or the minute turning, which is fatal, is a crash right after a
\* SaveTick; the file gets its name when it is complete.
QuoteSnapshot ==
  /\ SnapshotDue
  /\ Saved(redisCache \cup Missing)
  /\ takeSnapShot
  /\ UNCHANGED <<vars, clock, quotation, restarts>>

\* Without Redis there is no snapshot this time.
QuoteSnapshotSkipped ==
  /\ SnapshotDue
  /\ SaveFailed(redisCache \cup Missing)
  /\ UNCHANGED <<vars, clock, quotation, saved, restarts>>

-----------------------------------------------------------------------------
CrashQuotes ==
  /\ Crash
  /\ mrChan' = <<>> /\ quotation' = NoQuotes /\ newest' = 0 /\ redisCache' = {}
  /\ UNCHANGED <<clock, redis, saved, restarts>>

\* l2.Init before the book is loaded: each from its own latest snapshot.
RestartQuotes ==
  /\ Restart
  /\ quotation' = quoteFile /\ newest' = snapshotTime
  /\ restored' = [maxId |-> quoteFile.maxId, at |-> snapshotTime]
  /\ behind' = (behind \/ book'.fromId > quoteFile.maxId)
  /\ UNCHANGED <<clock, mrChan, redisCache, redis, saved>>

Elsewhere ==
  /\ \/ \E i \in Rows : TimeOf[i] <= clock /\ Upstream(i)
     \/ PullSome
     \/ SendOrder
     \/ Match
     \/ SnapshotTick \/ SendClone
     \/ Dump
  /\ UNCHANGED <<clock, mrChan, memory, redis, saved, restarts>>

QuoteNext ==
  \/ Elsewhere \/ Tick
  \/ SendToQuotes \/ SendQuoteMarker
  \/ Quote \/ CheckKlines
  \/ SaveTick \/ SaveTickFailed
  \/ QuoteSnapshot \/ QuoteSnapshotSkipped
  \/ CrashQuotes \/ RestartQuotes

QuoteSpec == QuoteInit /\ [][QuoteNext]_qvars

\* Goroutines that can go on do, and Redis answers now and then.
FairQuoteSpec ==
  /\ QuoteSpec
  /\ WF_qvars(PullSome /\ Elsewhere) /\ WF_qvars(SendOrder /\ Elsewhere)
  /\ SF_qvars(Match /\ Elsewhere)
  /\ WF_qvars((SendClone /\ Elsewhere) \/ SendToQuotes \/ SendQuoteMarker)
  /\ WF_qvars(Dump /\ Elsewhere)
  /\ WF_qvars(Quote \/ QuoteSnapshot \/ QuoteSnapshotSkipped)
  /\ SF_qvars(SaveTick)
  /\ WF_qvars(RestartQuotes)

-----------------------------------------------------------------------------
(* Properties *)

\* Every variable has its type.
QuoteTypeOK ==
  /\ mrChan \in Seq(Rows \cup {Marker})
  /\ quotation \in Quotation /\ redis \in Quotation /\ quoteFile \in Quotation
  /\ redisCache \subseteq Windows
  /\ behind \in BOOLEAN
  /\ clock \in 1 .. MaxTime /\ newest \in 0 .. clock /\ snapshotTime \in 0 .. clock
  /\ restored \in [maxId : 0 .. MaxRow, at : 0 .. clock]

\* The last restart was from a snapshot that has result i but not its window w.
Lost(i, w) == i <= restored.maxId /\ w \notin WindowsAt[restored.at]

\* The results up to id that belong to window w.
Due(id, w) == {i \in table : i <= id /\ w \in WindowsOf[i]}

\* Over replays after restarts the klines in memory hold every result up to
\* their id that a restart did not lose with the window it was in, each where
\* it belongs, and the snapshot holds the whole of the windows it keeps, as long
\* as no restart finds the quotes behind the book.
QuotesComplete ==
  behind \/
    /\ alive => \A w \in Windows :
         quotation.klines[w] = {i \in Due(quotation.maxId, w) : ~Lost(i, w)}
    /\ \A w \in WindowsAt[snapshotTime] :
         quoteFile.klines[w] = Due(quoteFile.maxId, w)

\* l2quote/l2quote.go:320: the snapshot has no more than Redis has, as long as
\* Redis refuses no command of a pipeline it executes (CommandsFail).
RedisHoldsSnapshot ==
  /\ quoteFile.maxId <= redis.maxId
  /\ \A w \in Windows : quoteFile.klines[w] \subseteq redis.klines[w]

\* The klines in Redis hold every result up to its maxMRID, also after a save
\* that broke off half-way and the replay of what it had written, but for
\* results a restart lost with their window: a late one writes that window anew.
RedisComplete ==
  behind \/ \A w \in Windows : \A i \in Due(redis.maxId, w) :
              i \in redis.klines[w] \/ Lost(i, w)

\* Again and again Redis has every result there is, also what was marked as
\* changed while Redis was ahead and had its mark removed, but for those a restart
\* lost with their window.
RedisGetsAll ==
  []<>(behind \/ \A i \in table : \A w \in WindowsOf[i] :
                  i \in redis.klines[w] \/ Lost(i, w))

\* market-match.go:267: the snapshots are at the same position, so that a
\* restart finds no result that the book has and the quotes lack.
SnapshotsTogether == ~behind
=============================================================================
