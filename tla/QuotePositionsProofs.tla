------------------------- MODULE QuotePositionsProofs -------------------------
(***************************************************************************)
(* Replays and broken saves leave no hole in the klines: proofs about      *)
(* QuotePositions, for any number of rows and crashes, any windows and any *)
(* capacities.                                                             *)
(***************************************************************************)
EXTENDS QuotePositions, EventLoopProofs, WellFoundedInduction

\* Results wait in mrChan in the order of their rows, none before its turn.
Queue ==
  /\ \A j, k \in DOMAIN mrChan :
       j < k /\ mrChan[j] # Marker /\ mrChan[k] # Marker => mrChan[j] < mrChan[k]
  /\ \A k \in DOMAIN mrChan : mrChan[k] # Marker =>
       /\ mrChan[k] \in table /\ mrChan[k] <= book.fromId
       /\ loop = "result" => mrChan[k] < book.fromId
  /\ loop = "result" => book.fromId \in table

\* Quotations are at the position of a row, or at the beginning.
Position(q) == q.maxId \in table \cup {0}
Positions == Position(quotation) /\ Position(redis) /\ Position(quoteFile)

\* A process that does not run has nothing in memory.
DeadIsEmpty == ~alive => mrChan = <<>> /\ redisCache = {}

\* What the book has and the quotes do not is on its way to them.
Waiting ==
  \A r \in table : quotation.maxId < r /\ r <= book.fromId =>
    r \in Range(mrChan) \/ (loop = "result" /\ r = book.fromId)

\* What is not marked to be written is in Redis.
Marked == \A w \in Windows \ redisCache : quotation.klines[w] \subseteq redis.klines[w]

\* The klines in memory are those of all rows up to their id that no restart
\* has lost, those of the snapshot the whole of the windows it was taken in.
MemoryComplete ==
  \A w \in Windows : \A i : i \in quotation.klines[w] <=>
    i \in table /\ i <= quotation.maxId /\ w \in WindowsOf[i] /\ ~Lost(i, w)
FileComplete ==
  \A w \in Windows : \A i : i \in quoteFile.klines[w] <=>
    i \in table /\ i <= quoteFile.maxId /\ w \in WindowsOf[i] /\ w \in WindowsAt[snapshotTime]

\* Klines k have result i, as far as a restart has not lost it.
Has(k, i) == \A w \in WindowsOf[i] : i \in k[w] \/ Lost(i, w)

\* Redis has every result up to its position.
RedisFull == \A i \in table : i <= redis.maxId => Has(redis.klines, i)

\* The quotes of the running process.
Memory ==
  /\ MemoryComplete
  /\ Waiting
  /\ Marked

InStep ==
  /\ FileComplete
  /\ quoteFile.maxId <= redis.maxId
  /\ RedisFull
  /\ alive => Memory

\* What a snapshot has was created before it was taken, and a restart goes
\* back to a snapshot that later ones follow.
Clocks ==
  /\ restored.at <= snapshotTime /\ snapshotTime <= clock
  /\ restored.maxId <= quoteFile.maxId
  /\ alive => quoteFile.maxId <= quotation.maxId
  /\ \A i \in table :
       /\ TimeOf[i] <= clock
       /\ i <= restored.maxId => TimeOf[i] <= restored.at
       /\ i <= quoteFile.maxId => TimeOf[i] <= snapshotTime

QuotePart ==
  /\ QuoteTypeOK /\ Queue /\ Positions /\ DeadIsEmpty
  /\ behind \/ InStep

QuoteInv == IInv /\ Clocks /\ QuotePart

-----------------------------------------------------------------------------
(* Quotations *)

\* The rows of the table and the place of the book are numbers.
LEMMA TableType ==
  ASSUME IInv
  PROVE  /\ table \subseteq Rows /\ \A i \in Rows : i \in Nat \ {0}
         /\ book.fromId \in Nat /\ (book.fromId = 0 \/ book.fromId \in table)
  BY LoopAssumption DEF IInv, TypeOK, Rows, Book, Kept

\* What a quotation is made of.
LEMMA QuotationType ==
  ASSUME NEW q \in Quotation
  PROVE  /\ q.maxId \in Nat /\ q.maxId \in 0 .. MaxRow
         /\ q.klines \in [Windows -> SUBSET Rows]
         /\ \A w \in Windows : \A i \in q.klines[w] : w \in WindowsOf[i]
  BY LoopAssumption DEF Quotation

\* The converse: what makes a quotation.
LEMMA MakesQuotation ==
  ASSUME NEW m \in 0 .. MaxRow, NEW k \in [Windows -> SUBSET Rows],
         \A w \in Windows : \A i \in k[w] : w \in WindowsOf[i]
  PROVE  [maxId |-> m, klines |-> k] \in Quotation
  BY DEF Quotation

\* The empty quotation is one.
LEMMA NoQuotesType == NoQuotes \in Quotation /\ NoQuotes.maxId = 0
  BY LoopAssumption DEF NoQuotes, Quotation

\* A row has its windows.
LEMMA WindowsType ==
  ASSUME NEW i \in Rows
  PROVE  /\ TimeOf[i] \in 0 .. MaxTime /\ WindowsOf[i] = WindowsAt[TimeOf[i]]
         /\ WindowsOf[i] \subseteq Windows
  BY QuoteAssumption DEF WindowsOf

\* The numbers of the clock and the snapshots.
LEMMA ClockType ==
  ASSUME QuoteTypeOK
  PROVE  /\ clock \in Nat /\ clock \in 0 .. MaxTime
         /\ newest \in Nat /\ newest \in 0 .. MaxTime
         /\ snapshotTime \in Nat /\ snapshotTime \in 0 .. MaxTime
         /\ restored.at \in Nat /\ restored.at \in 0 .. MaxTime
         /\ restored.maxId \in Nat
  BY QuoteAssumption, LoopAssumption DEF QuoteTypeOK

\* Windows from one time to another are windows.
LEMMA WindowsBetween ==
  ASSUME NEW s \in Nat, NEW t \in 0 .. MaxTime
  PROVE  UNION {WindowsAt[u] : u \in s .. t} \subseteq Windows
<1>1. \A u \in s .. t : u \in 0 .. MaxTime
  BY QuoteAssumption
<1>2. \A u \in 0 .. MaxTime : WindowsAt[u] \subseteq Windows
  BY QuoteAssumption
<1>3. QED
  BY <1>1, <1>2

\* What is marked are windows.
LEMMA MarksType ==
  ASSUME QuoteTypeOK
  PROVE  Missing \subseteq Windows /\ \A i \in Rows : UpToNow(i) \subseteq Windows
<1>1. clock \in 0 .. MaxTime /\ newest \in Nat /\ newest + 1 \in Nat
  BY ClockType
<1>2. WindowsAt[clock] \subseteq Windows
  BY <1>1, QuoteAssumption
<1>3. Missing \subseteq Windows
  BY <1>1, <1>2, WindowsBetween DEF Missing
<1>4. \A i \in Rows : UpToNow(i) \subseteq Windows
  <2> TAKE i \in Rows
  <2>1. TimeOf[i] \in Nat
    BY WindowsType
  <2>2. QED
    BY <1>1, <2>1, WindowsBetween DEF UpToNow
<1>5. QED
  BY <1>3, <1>4

\* A restart has not lost what a later snapshot keeps.
LEMMA NotLost ==
  ASSUME QuoteTypeOK, Clocks, IInv, NEW i \in table, NEW t \in 0 .. MaxTime,
         restored.at <= t, NEW w \in WindowsAt[t], w \in WindowsOf[i]
  PROVE  ~Lost(i, w)
<1>1. i \in Rows
  BY TableType
<1>2. TimeOf[i] \in 0 .. MaxTime /\ restored.at \in 0 .. MaxTime
  BY <1>1, WindowsType, ClockType
<1>3. SUFFICES ASSUME i <= restored.maxId
               PROVE  w \in WindowsAt[restored.at]
  BY DEF Lost
<1>4. TimeOf[i] <= restored.at
  BY <1>3 DEF Clocks
<1>5. w \in WindowsAt[TimeOf[i]]
  BY <1>1, WindowsType
<1>6. QED
  BY <1>2, <1>4, <1>5, WindowAssumption

\* Nor what the quotes have not had yet.
LEMMA NewNotLost ==
  ASSUME QuoteTypeOK, Clocks, alive, NEW i \in Nat, quotation.maxId < i, NEW w
  PROVE  ~Lost(i, w)
<1>1. /\ restored.maxId \in Nat /\ quoteFile.maxId \in Nat /\ quotation.maxId \in Nat
  BY ClockType, QuotationType DEF QuoteTypeOK
<1>2. restored.maxId <= quoteFile.maxId /\ quoteFile.maxId <= quotation.maxId
  BY DEF Clocks
<1>3. QED
  BY <1>1, <1>2 DEF Lost

\* Klines of two quotations put together.
LEMMA OverwrittenType ==
  ASSUME QuoteTypeOK, NEW ws \in SUBSET Windows
  PROVE  /\ Overwritten(ws) \in [Windows -> SUBSET Rows]
         /\ \A w \in Windows : \A i \in Overwritten(ws)[w] : w \in WindowsOf[i]
         /\ \A w \in ws : Overwritten(ws)[w] = quotation.klines[w]
         /\ \A w \in Windows \ ws : Overwritten(ws)[w] = redis.klines[w]
<1>1. /\ quotation.klines \in [Windows -> SUBSET Rows]
      /\ redis.klines \in [Windows -> SUBSET Rows]
      /\ \A w \in Windows : \A i \in quotation.klines[w] : w \in WindowsOf[i]
      /\ \A w \in Windows : \A i \in redis.klines[w] : w \in WindowsOf[i]
  BY QuotationType DEF QuoteTypeOK
<1>2. QED
  BY <1>1 DEF Overwritten

-----------------------------------------------------------------------------
(* Saving to Redis *)

\* Every result up to the quotes' id is in memory, as far as it is not lost, and
\* what is in memory has an id up to theirs.
LEMMA MemoryHas ==
  ASSUME IInv, MemoryComplete
  PROVE  /\ \A i \in table : i <= quotation.maxId => Has(quotation.klines, i)
         /\ \A w \in Windows : \A i \in quotation.klines[w] :
              i \in table /\ i <= quotation.maxId /\ w \in WindowsOf[i] /\ ~Lost(i, w)
<1>1. \A i \in table : WindowsOf[i] \subseteq Windows
  BY TableType, WindowsType
<1>2. QED
  BY <1>1 DEF MemoryComplete, Has

\* All that is in memory is in Redis at its position.
LEMMA AllInRedis ==
  ASSUME QuoteInv, NEW cache \in SUBSET Windows, redisCache \subseteq cache,
         redis.maxId <= quotation.maxId, UNCHANGED <<table, restored>>,
         redis' = [maxId |-> quotation.maxId, klines |-> Overwritten(cache)]
  PROVE  /\ redis' \in Quotation /\ Position(redis')
         /\ redis.maxId <= redis'.maxId /\ quotation.maxId <= redis'.maxId
         /\ ~behind /\ alive =>
              RedisFull' /\ \A w \in Windows : quotation.klines[w] \subseteq redis'.klines[w]
<1>1. /\ QuoteTypeOK /\ Positions /\ IInv /\ quotation \in Quotation
  BY DEF QuoteInv, QuotePart, QuoteTypeOK
<1>2. quotation.maxId \in Nat /\ quotation.maxId \in 0 .. MaxRow
  BY <1>1, QuotationType
<1>3. redis'.maxId = quotation.maxId /\ redis'.klines = Overwritten(cache)
  OBVIOUS
<1>4. redis' \in Quotation
  BY <1>1, <1>2, OverwrittenType, MakesQuotation
<1>5. ASSUME ~behind, alive, NEW w \in Windows
      PROVE  quotation.klines[w] \subseteq redis'.klines[w]
  <2>1. Marked
    BY <1>5 DEF QuoteInv, QuotePart, InStep, Memory
  <2>2. QED
    BY <1>1, <1>3, <2>1, OverwrittenType DEF Marked
<1>6. ASSUME ~behind, alive
      PROVE  RedisFull'
  <2>1. \A i \in table : i <= quotation.maxId => Has(quotation.klines, i)
    BY <1>1, <1>6, MemoryHas DEF QuoteInv, QuotePart, InStep, Memory
  <2>2. \A i \in table : WindowsOf[i] \subseteq Windows
    BY <1>1, TableType, WindowsType
  <2>3. QED
    BY <1>3, <1>5, <1>6, <2>1, <2>2 DEF RedisFull, Has, Lost
<1>7. QED
  BY <1>1, <1>2, <1>3, <1>4, <1>5, <1>6 DEF Positions, Position

\* Redis is not behind the quotes after a save, and has all they have.
LEMMA SavedKeeps ==
  ASSUME QuoteInv, NEW cache \in SUBSET Windows, redisCache \subseteq cache,
         Saved(cache), UNCHANGED <<table, restored>>
  PROVE  /\ redis' \in Quotation /\ Position(redis')
         /\ redis.maxId <= redis'.maxId /\ quotation.maxId <= redis'.maxId
         /\ ~behind /\ alive =>
              RedisFull' /\ \A w \in Windows : quotation.klines[w] \subseteq redis'.klines[w]
<1>1. /\ QuoteTypeOK /\ Positions /\ IInv
      /\ quotation \in Quotation /\ redis \in Quotation
  BY DEF QuoteInv, QuotePart, QuoteTypeOK
<1>2. quotation.maxId \in Nat /\ redis.maxId \in Nat
  BY <1>1, QuotationType
<1>3. CASE redis.maxId > quotation.maxId
  <2>1. redis' = redis
    BY <1>3 DEF Saved
  <2>2. ASSUME ~behind, alive, NEW w \in Windows, NEW i \in quotation.klines[w]
        PROVE  i \in redis.klines[w]
    <3>1. MemoryComplete /\ RedisFull
      BY <2>2 DEF QuoteInv, QuotePart, InStep, Memory
    <3>2. i \in table /\ i <= quotation.maxId /\ w \in WindowsOf[i] /\ ~Lost(i, w)
      BY <1>1, <3>1, <2>2, MemoryHas
    <3>3. i \in Nat
      BY <1>1, <3>2, TableType
    <3>4. i <= redis.maxId
      BY <1>2, <1>3, <3>2, <3>3
    <3>5. QED
      BY <3>1, <3>2, <3>4 DEF RedisFull, Has
  <2>3. ~behind /\ alive => RedisFull'
    BY <2>1 DEF QuoteInv, QuotePart, InStep, RedisFull, Has, Lost
  <2>4. QED
    BY <1>1, <1>2, <1>3, <2>1, <2>2, <2>3 DEF Positions
<1>4. CASE redis.maxId <= quotation.maxId
  <2>1. redis' = [maxId |-> quotation.maxId, klines |-> Overwritten(cache)]
    BY <1>2, <1>4 DEF Saved
  <2>2. QED
    BY <1>4, <2>1, AllInRedis
<1>5. QED
  BY <1>2, <1>3, <1>4

\* A save that fails leaves no hole below the position of Redis, and the marks.
LEMMA FailedKeeps ==
  ASSUME QuoteInv, NEW cache \in SUBSET Windows, redisCache \subseteq cache,
         SaveFailed(cache), ~CommandsFail, UNCHANGED <<table, restored>>
  PROVE  /\ redis' \in Quotation /\ Position(redis')
         /\ redis.maxId <= redis'.maxId
         /\ redisCache' = cache
         /\ ~behind /\ alive =>
              /\ RedisFull'
              /\ \A w \in Windows \ cache : quotation.klines[w] \subseteq redis'.klines[w]
<1>1. /\ QuoteTypeOK /\ Positions /\ IInv
      /\ quotation \in Quotation /\ redis \in Quotation
  BY DEF QuoteInv, QuotePart, QuoteTypeOK
<1>2. /\ quotation.maxId \in Nat /\ redis.maxId \in Nat /\ redis.maxId \in 0 .. MaxRow
  BY <1>1, QuotationType
<1>3. redisCache' = cache
  BY DEF SaveFailed
<1>4. CASE UNCHANGED redis
  <2>1. ~behind /\ alive => RedisFull'
    BY <1>4 DEF QuoteInv, QuotePart, InStep, RedisFull, Has, Lost
  <2>2. QED
    BY <1>1, <1>2, <1>3, <1>4, <2>1 DEF QuoteInv, QuotePart, InStep, Memory, Marked, Positions
<1>5. CASE /\ redis.maxId <= quotation.maxId
           /\ \E ws \in SUBSET cache : redis' = [redis EXCEPT !.klines = Overwritten(ws)]
  <2>1. PICK ws \in SUBSET cache : redis' = [redis EXCEPT !.klines = Overwritten(ws)]
    BY <1>5
  <2>2. ws \in SUBSET Windows
    OBVIOUS
  <2>3. redis' = [maxId |-> redis.maxId, klines |-> Overwritten(ws)]
    BY <1>1, <2>1 DEF Quotation
  <2>4. redis'.maxId = redis.maxId /\ redis'.klines = Overwritten(ws)
    BY <2>3
  <2>5. redis' \in Quotation
    BY <1>1, <1>2, <2>2, <2>3, OverwrittenType, MakesQuotation
  <2>6. ASSUME ~behind, alive, NEW w \in Windows \ cache
        PROVE  quotation.klines[w] \subseteq redis'.klines[w]
    BY <1>1, <2>2, <2>4, <2>6, OverwrittenType DEF QuoteInv, QuotePart, InStep, Memory, Marked
  <2>7. ASSUME ~behind, alive, NEW i \in table, i <= redis'.maxId, NEW w \in WindowsOf[i]
        PROVE  i \in redis'.klines[w] \/ Lost(i, w)
    <3>1. w \in Windows /\ i \in Nat
      BY <1>1, TableType, WindowsType
    <3>2. CASE w \in ws
      <4>1. i <= quotation.maxId
        BY <1>2, <1>5, <2>4, <2>7, <3>1
      <4>2. Has(quotation.klines, i)
        BY <1>1, <2>7, <4>1, MemoryHas DEF QuoteInv, QuotePart, InStep, Memory
      <4>3. QED
        BY <1>1, <2>2, <2>4, <3>2, <4>2, OverwrittenType DEF Has
    <3>3. CASE w \notin ws
      <4>1. i \in redis.klines[w] \/ Lost(i, w)
        BY <2>4, <2>7 DEF QuoteInv, QuotePart, InStep, RedisFull, Has
      <4>2. QED
        BY <1>1, <2>2, <2>4, <3>1, <3>3, <4>1, OverwrittenType
    <3>4. QED
      BY <3>2, <3>3
  <2>8. ~behind /\ alive => RedisFull'
    BY <2>7 DEF RedisFull, Has, Lost
  <2>9. QED
    BY <1>1, <1>2, <1>3, <2>4, <2>5, <2>6, <2>8 DEF Positions, Position
<1>6. CASE /\ redis.maxId <= quotation.maxId
           /\ redis' = [maxId |-> quotation.maxId, klines |-> Overwritten(cache)]
  BY <1>3, <1>6, AllInRedis
<1>7. QED
  BY <1>4, <1>5, <1>6 DEF SaveFailed

-----------------------------------------------------------------------------
(* mrChan *)

\* The first entry comes before the others.
LEMMA TailOfQueue ==
  ASSUME QuoteTypeOK, mrChan # <<>>
  PROVE  /\ Len(mrChan) \in Nat \ {0} /\ DOMAIN mrChan = 1 .. Len(mrChan)
         /\ Head(mrChan) = mrChan[1] /\ Head(mrChan) \in Rows \cup {Marker}
         /\ Tail(mrChan) \in Seq(Rows \cup {Marker})
         /\ DOMAIN Tail(mrChan) = 1 .. Len(mrChan) - 1
         /\ \A k \in 1 .. Len(mrChan) - 1 : Tail(mrChan)[k] = mrChan[k + 1]
<1>1. mrChan \in Seq(Rows \cup {Marker})
  BY DEF QuoteTypeOK
<1>2. Len(mrChan) \in Nat \ {0} /\ DOMAIN mrChan = 1 .. Len(mrChan)
  BY <1>1, EmptySeq, LenProperties
<1>3. /\ Tail(mrChan) \in Seq(Rows \cup {Marker}) /\ Len(Tail(mrChan)) = Len(mrChan) - 1
      /\ \A k \in 1 .. Len(Tail(mrChan)) : Tail(mrChan)[k] = mrChan[k + 1]
  BY <1>1, HeadTailProperties
<1>4. Head(mrChan) = mrChan[1] /\ mrChan[1] \in Rows \cup {Marker}
  BY <1>1, <1>2, ElementOfSeq
<1>5. QED
  BY <1>2, <1>3, <1>4, LenProperties

\* What waits stays in order when the first entry has been taken, and what is
\* not the first entry still waits.
LEMMA TakenFromQueue ==
  ASSUME QuoteTypeOK, Queue, mrChan # <<>>, mrChan' = Tail(mrChan),
         UNCHANGED <<table, book, loop>>
  PROVE  /\ Queue' /\ mrChan' \in Seq(Rows \cup {Marker})
         /\ \A r \in Range(mrChan) : r = Head(mrChan) \/ r \in Range(mrChan')
         /\ Head(mrChan) # Marker =>
              \A k \in DOMAIN mrChan' : mrChan'[k] # Marker => Head(mrChan) < mrChan'[k]
<1> DEFINE n == Len(mrChan)
           t == Tail(mrChan)
<1>1. /\ n \in Nat \ {0} /\ DOMAIN mrChan = 1 .. n /\ Head(mrChan) = mrChan[1]
      /\ t \in Seq(Rows \cup {Marker}) /\ DOMAIN t = 1 .. n - 1
      /\ \A k \in 1 .. n - 1 : t[k] = mrChan[k + 1]
      /\ mrChan' = t
  BY TailOfQueue
<1> HIDE DEF n, t
<1>2. \A k \in DOMAIN t : k + 1 \in DOMAIN mrChan /\ t[k] = mrChan[k + 1] /\ 1 < k + 1
  BY <1>1
<1>3. \A j, k \in DOMAIN t : j < k => j + 1 < k + 1
  BY <1>1
<1>4. 1 \in DOMAIN mrChan
  BY <1>1
<1>5. Queue'
  BY <1>1, <1>2, <1>3 DEF Queue
<1>6. ASSUME NEW r \in Range(mrChan)
      PROVE  r = Head(mrChan) \/ r \in Range(t)
  <2>1. PICK k \in 1 .. n : r = mrChan[k]
    BY <1>1 DEF Range
  <2>2. CASE k = 1
    BY <1>1, <2>1, <2>2
  <2>3. CASE k # 1
    <3>1. k - 1 \in DOMAIN t /\ t[k - 1] = mrChan[k]
      BY <1>1, <2>1, <2>3
    <3>2. QED
      BY <2>1, <3>1 DEF Range
  <2>4. QED
    BY <2>2, <2>3
<1>7. Head(mrChan) # Marker => \A k \in DOMAIN t : t[k] # Marker => Head(mrChan) < t[k]
  BY <1>1, <1>2, <1>4 DEF Queue
<1>8. QED
  BY <1>1, <1>5, <1>6, <1>7

\* An entry goes to the end.
LEMMA PutIntoQueue ==
  ASSUME QuoteTypeOK, NEW e \in Rows \cup {Marker}
  PROVE  LET q == Append(mrChan, e)
             n == Len(mrChan)
         IN  /\ q \in Seq(Rows \cup {Marker}) /\ n \in Nat
             /\ DOMAIN mrChan = 1 .. n /\ DOMAIN q = 1 .. n + 1
             /\ \A k \in 1 .. n : q[k] = mrChan[k]
             /\ q[n + 1] = e
             /\ \A r \in Range(mrChan) \cup {e} : r \in Range(q)
<1> DEFINE q == Append(mrChan, e)
           n == Len(mrChan)
<1>1. mrChan \in Seq(Rows \cup {Marker})
  BY DEF QuoteTypeOK
<1>2. /\ q \in Seq(Rows \cup {Marker}) /\ n \in Nat
      /\ DOMAIN mrChan = 1 .. n /\ DOMAIN q = 1 .. n + 1
      /\ \A k \in 1 .. n : q[k] = mrChan[k]
      /\ q[n + 1] = e
  BY <1>1, AppendProperties, LenProperties
<1> HIDE DEF q, n
<1>3. \A r \in Range(mrChan) \cup {e} : r \in Range(q)
  <2>1. n + 1 \in DOMAIN q /\ \A k \in 1 .. n : k \in DOMAIN q
    BY <1>2
  <2>2. QED
    BY <1>2, <2>1 DEF Range
<1>4. QED
  BY <1>2, <1>3 DEF q, n

-----------------------------------------------------------------------------
(* The event loop's steps beside the quotes *)

\* A new row is behind everything there is.
LEMMA UpstreamQuotes ==
  ASSUME QuoteInv, NEW i \in Rows, Upstream(i),
         UNCHANGED <<clock, mrChan, quotation, newest, redisCache, redis, quoteFile,
                     snapshotTime, restored, behind>>
  PROVE  QuotePart'
<1>1. /\ table' = table \cup {i} /\ UNCHANGED <<book, loop, alive>>
      /\ \A r \in table : r < i
  BY DEF Upstream
<1>2. QuoteTypeOK /\ Queue /\ Positions /\ DeadIsEmpty /\ (behind \/ InStep) /\ IInv
  BY DEF QuoteInv, QuotePart
<1>3. i \in Nat /\ i > 0 /\ book.fromId < i
  BY <1>1, <1>2, TableType
<1>4. QuoteTypeOK' /\ Queue' /\ Positions' /\ DeadIsEmpty'
  BY <1>1, <1>2 DEF QuoteTypeOK, Queue, Positions, Position, DeadIsEmpty
<1>5. quotation.maxId < i /\ redis.maxId < i /\ quoteFile.maxId < i
  BY <1>1, <1>2, <1>3 DEF Positions, Position
<1>6. quotation.maxId \in Nat /\ redis.maxId \in Nat /\ quoteFile.maxId \in Nat
  BY <1>2, QuotationType DEF QuoteTypeOK
<1>7. FileComplete => FileComplete'
  BY <1>1, <1>3, <1>5, <1>6 DEF FileComplete
<1>8. MemoryComplete => MemoryComplete'
  BY <1>1, <1>3, <1>5, <1>6 DEF MemoryComplete, Lost
<1>9. RedisFull => RedisFull'
  BY <1>1, <1>3, <1>5, <1>6 DEF RedisFull, Has, Lost
<1>10. Waiting => Waiting'
  BY <1>1, <1>2, <1>3, TableType DEF Waiting
<1>11. InStep => InStep'
  BY <1>1, <1>7, <1>8, <1>9, <1>10 DEF InStep, Memory, Marked
<1>12. QED
  BY <1>2, <1>4, <1>11 DEF QuotePart

\* The row that is matched is the next one behind the book.
LEMMA MatchQuotes ==
  ASSUME QuoteInv, Match,
         UNCHANGED <<clock, mrChan, quotation, newest, redisCache, redis, quoteFile,
                     snapshotTime, restored, behind>>
  PROVE  QuotePart'
<1> DEFINE h == Head(ch)
<1>1. /\ UNCHANGED <<table, alive>> /\ alive /\ loop = "select" /\ loop' = "result"
      /\ ch # <<>> /\ book' = [fromId |-> h, rows |-> Append(book.rows, h)]
  BY DEF Match, onDisk
<1>2. /\ QuoteTypeOK /\ Queue /\ Positions /\ DeadIsEmpty /\ (behind \/ InStep) /\ IInv
      /\ InOrder /\ Coming /\ ch \in Seq(Rows)
  BY DEF QuoteInv, QuotePart, IInv, TypeOK
<1>3. h \in Range(ch) /\ \A r \in Range(ch) \ {h} : h < r
  BY <1>1, <1>2, TailIncreasing DEF InOrder
<1> HIDE DEF h
<1>4. h \in table /\ book.fromId < h /\ h < cursor
  BY <1>2, <1>3 DEF Coming
<1>5. \A r \in table : r \in Nat
  BY <1>2, TableType
<1>6. cursor \in Nat /\ book.fromId \in Nat
  BY <1>2, LoopAssumption, TableType DEF IInv, TypeOK
<1>7. \A r \in table : r <= h => r <= book.fromId \/ r = h
  <2> TAKE r \in table
  <2> SUFFICES ASSUME r <= h, ~(r <= book.fromId)
               PROVE  r = h
    OBVIOUS
  <2>1. r \in Range(ch) \cup Range(pulled)
    BY <1>2, <1>4, <1>5, <1>6 DEF Coming
  <2>2. CASE r \in Range(ch)
    BY <1>3, <1>4, <1>5, <2>2
  <2>3. CASE r \in Range(pulled)
    <3>1. h < r
      BY <1>2, <1>3, <2>3 DEF InOrder
    <3>2. QED
      BY <1>4, <1>5, <3>1
  <2>4. QED
    BY <2>1, <2>2, <2>3
<1>8. book'.fromId = h
  BY <1>1
<1>9. Queue'
  <2>1. \A k \in DOMAIN mrChan : mrChan[k] # Marker => mrChan[k] < h
    BY <1>2, <1>4, <1>5, <1>6 DEF Queue
  <2>2. QED
    BY <1>1, <1>2, <1>4, <1>5, <1>8, <2>1 DEF Queue
<1>10. Waiting => Waiting'
  <2> SUFFICES ASSUME Waiting, NEW r \in table, quotation.maxId < r, r <= h
               PROVE  r \in Range(mrChan) \/ r = h
    BY <1>1, <1>8 DEF Waiting
  <2>1. r <= book.fromId => r \in Range(mrChan)
    BY <1>1 DEF Waiting
  <2>2. QED
    BY <1>7, <2>1
<1>11. InStep => InStep'
  BY <1>1, <1>10 DEF InStep, Memory, Marked, MemoryComplete, FileComplete, RedisFull, Has, Lost
<1>12. QuoteTypeOK' /\ Positions' /\ DeadIsEmpty'
  BY <1>1, <1>2 DEF QuoteTypeOK, Positions, Position, DeadIsEmpty
<1>13. QED
  BY <1>2, <1>9, <1>11, <1>12 DEF QuotePart

\* Steps that leave the book and the result in hand where they are.
LEMMA OtherLoopSteps ==
  ASSUME QuoteInv, UNCHANGED <<table, alive, book>>,
         loop' = loop \/ (loop # "result" /\ loop' # "result"),
         UNCHANGED <<clock, mrChan, quotation, newest, redisCache, redis, quoteFile,
                     snapshotTime, restored, behind>>
  PROVE  QuotePart'
<1>1. QuoteTypeOK /\ Queue /\ Positions /\ DeadIsEmpty /\ (behind \/ InStep)
  BY DEF QuoteInv, QuotePart
<1>2. QuoteTypeOK' /\ Queue' /\ Positions' /\ DeadIsEmpty'
  BY <1>1 DEF QuoteTypeOK, Queue, Positions, Position, DeadIsEmpty
<1>3. InStep => InStep'
  BY DEF InStep, Memory, Waiting, Marked, MemoryComplete, FileComplete, RedisFull, Has, Lost
<1>4. QED
  BY <1>1, <1>2, <1>3 DEF QuotePart

\* Steps outside the quotation goroutine keep what is said of quotations.
LEMMA ElsewhereQuotes ==
  ASSUME QuoteInv, Elsewhere
  PROVE  QuotePart'
<1>1. UNCHANGED <<clock, mrChan, quotation, newest, redisCache, redis, quoteFile,
                  snapshotTime, restored, behind>>
  BY DEF Elsewhere, memory, saved, restarts
<1>2. CASE \E i \in Rows : TimeOf[i] <= clock /\ Upstream(i)
  BY <1>1, <1>2, UpstreamQuotes
<1>3. CASE Match
  BY <1>1, <1>3, MatchQuotes
<1>4. CASE PullSome \/ SendOrder \/ SnapshotTick \/ SendClone \/ Dump
  <2>1. /\ UNCHANGED <<table, alive, book>>
        /\ loop' = loop \/ (loop # "result" /\ loop' # "result")
    BY <1>4 DEF PullSome, Pull, SendOrder, SnapshotTick, SendClone, Dump,
       DumpCreate, DumpClose, DumpRename, DumpPrune, onDisk
  <2>2. QED
    BY <1>1, <2>1, OtherLoopSteps
<1>5. QED
  BY <1>2, <1>3, <1>4 DEF Elsewhere

\* The result in hand goes behind those that wait.
LEMMA SendToQuotesInv ==
  ASSUME QuoteInv, SendToQuotes
  PROVE  QuotePart'
<1> DEFINE q == Append(mrChan, book.fromId)
           n == Len(mrChan)
<1>1. /\ UNCHANGED <<table, alive, book, clock, quotation, newest, redisCache, redis, quoteFile,
                    snapshotTime, restored, behind>>
      /\ alive /\ loop = "result" /\ loop' = "select" /\ mrChan' = q
  BY DEF SendToQuotes, SendResult, onDisk, memory, saved, restarts
<1>2. QuoteTypeOK /\ Queue /\ Positions /\ DeadIsEmpty /\ (behind \/ InStep) /\ IInv
  BY DEF QuoteInv, QuotePart
<1>3. book.fromId \in table /\ book.fromId \in Rows /\ book.fromId # Marker
  BY <1>1, <1>2, TableType DEF Queue, Marker
<1>4. /\ q \in Seq(Rows \cup {Marker}) /\ n \in Nat
      /\ DOMAIN mrChan = 1 .. n /\ DOMAIN q = 1 .. n + 1
      /\ \A k \in 1 .. n : q[k] = mrChan[k]
      /\ q[n + 1] = book.fromId
      /\ \A r \in Range(mrChan) \cup {book.fromId} : r \in Range(q)
  BY <1>2, <1>3, PutIntoQueue
<1> HIDE DEF q, n
<1>5. Queue'
  <2>1. ASSUME NEW j \in DOMAIN q, NEW k \in DOMAIN q, j < k, q[j] # Marker, q[k] # Marker
        PROVE  q[j] < q[k]
    <3>1. j \in 1 .. n /\ (k \in 1 .. n \/ k = n + 1)
      BY <1>4, <2>1
    <3>2. QED
      BY <1>1, <1>2, <1>4, <2>1, <3>1 DEF Queue
  <2>2. ASSUME NEW k \in DOMAIN q, q[k] # Marker
        PROVE  q[k] \in table /\ q[k] <= book.fromId
    <3>1. k \in 1 .. n \/ k = n + 1
      BY <1>4
    <3>2. book.fromId <= book.fromId
      BY <1>2, TableType
    <3>3. QED
      BY <1>2, <1>3, <1>4, <2>2, <3>1, <3>2 DEF Queue
  <2>3. QED
    BY <1>1, <2>1, <2>2 DEF Queue
<1>6. Waiting => Waiting'
  BY <1>1, <1>4 DEF Waiting
<1>7. InStep => InStep'
  BY <1>1, <1>6 DEF InStep, Memory, Marked, MemoryComplete, FileComplete, RedisFull, Has, Lost
<1>8. QuoteTypeOK' /\ Positions' /\ DeadIsEmpty'
  BY <1>1, <1>2, <1>4 DEF QuoteTypeOK, Positions, Position, DeadIsEmpty
<1>9. QED
  BY <1>1, <1>2, <1>5, <1>7, <1>8 DEF QuotePart

\* So does a marker sent with the copy of the book.
LEMMA SendQuoteMarkerInv ==
  ASSUME QuoteInv, SendQuoteMarker
  PROVE  QuotePart'
<1> DEFINE q == Append(mrChan, Marker)
           n == Len(mrChan)
<1>1. /\ UNCHANGED <<table, alive, book, clock, quotation, newest, redisCache, redis, quoteFile,
                    snapshotTime, restored, behind>>
      /\ alive /\ loop = "marker" /\ loop' = "select" /\ mrChan' = q
  BY DEF SendQuoteMarker, SendMarker, onDisk, memory, saved, restarts
<1>2. QuoteTypeOK /\ Queue /\ Positions /\ DeadIsEmpty /\ (behind \/ InStep) /\ IInv
  BY DEF QuoteInv, QuotePart
<1>4. /\ q \in Seq(Rows \cup {Marker}) /\ n \in Nat
      /\ DOMAIN mrChan = 1 .. n /\ DOMAIN q = 1 .. n + 1
      /\ \A k \in 1 .. n : q[k] = mrChan[k]
      /\ q[n + 1] = Marker
      /\ \A r \in Range(mrChan) \cup {Marker} : r \in Range(q)
  BY <1>2, PutIntoQueue
<1> HIDE DEF q, n
<1>5. Queue'
  <2>1. \A k \in DOMAIN q : q[k] # Marker => k \in DOMAIN mrChan /\ q[k] = mrChan[k]
    BY <1>4
  <2>2. QED
    BY <1>1, <1>2, <2>1 DEF Queue
<1>6. Waiting => Waiting'
  BY <1>1, <1>4 DEF Waiting
<1>7. InStep => InStep'
  BY <1>1, <1>6 DEF InStep, Memory, Marked, MemoryComplete, FileComplete, RedisFull, Has, Lost
<1>8. QuoteTypeOK' /\ Positions' /\ DeadIsEmpty'
  BY <1>1, <1>2, <1>4 DEF QuoteTypeOK, Positions, Position, DeadIsEmpty
<1>9. QED
  BY <1>1, <1>2, <1>5, <1>7, <1>8 DEF QuotePart

-----------------------------------------------------------------------------
(* The quotes' side *)

\* With the first entry gone, what waits is what is behind the quotes.
LEMMA TakenStillWaits ==
  ASSUME QuoteTypeOK, Queue, IInv, mrChan # <<>>, mrChan' = Tail(mrChan),
         UNCHANGED <<table, book, loop>>, Waiting,
         quotation.maxId <= quotation'.maxId, quotation'.maxId \in Nat,
         Head(mrChan) = Marker \/ Head(mrChan) <= quotation'.maxId
  PROVE  Waiting'
<1> SUFFICES ASSUME NEW r \in table, quotation'.maxId < r, r <= book.fromId
             PROVE  r \in Range(mrChan') \/ (loop = "result" /\ r = book.fromId)
  BY DEF Waiting
<1>1. r \in Nat \ {0} /\ quotation.maxId \in Nat
  BY TableType, QuotationType DEF QuoteTypeOK
<1>2. r # Head(mrChan)
  BY <1>1 DEF Marker
<1>3. r \in Range(mrChan) \/ (loop = "result" /\ r = book.fromId)
  BY <1>1 DEF Waiting
<1>4. QED
  BY <1>2, <1>3, TakenFromQueue

\* Nothing in the table is between the quotes and the first entry.
LEMMA FirstIsNext ==
  ASSUME QuoteTypeOK, Queue, IInv, mrChan # <<>>, Waiting,
         Head(mrChan) # Marker, quotation.maxId < Head(mrChan)
  PROVE  \A j \in table : j <= Head(mrChan) => j <= quotation.maxId \/ j = Head(mrChan)
<1> DEFINE i == Head(mrChan)
           n == Len(mrChan)
<1>1. n \in Nat \ {0} /\ DOMAIN mrChan = 1 .. n /\ i = mrChan[1]
  BY TailOfQueue
<1> HIDE DEF i, n
<1>2. /\ \A j \in table : j \in Nat \ {0}
      /\ quotation.maxId \in Nat /\ book.fromId \in Nat
  BY TableType, QuotationType DEF QuoteTypeOK
<1>3. 1 \in DOMAIN mrChan /\ i \in table /\ i <= book.fromId
      /\ (loop = "result" => i < book.fromId)
  BY <1>1 DEF Queue, i
<1> SUFFICES ASSUME NEW j \in table, j <= i, ~(j <= quotation.maxId)
             PROVE  j = i
  BY DEF i
<1>4. j \in Range(mrChan)
  BY <1>2, <1>3 DEF Waiting
<1>5. PICK k \in 1 .. n : j = mrChan[k]
  BY <1>1, <1>4 DEF Range
<1>6. CASE k = 1
  BY <1>1, <1>5, <1>6
<1>7. CASE k # 1
  <2>1. 1 < k /\ k \in DOMAIN mrChan
    BY <1>1, <1>7
  <2>2. i < j
    BY <1>1, <1>2, <1>3, <1>5, <2>1 DEF Queue, Marker, i
  <2>3. QED
    BY <1>2, <1>3, <2>2
<1>8. QED
  BY <1>6, <1>7

\* A result that comes again is dropped, one that is new completes the klines.
LEMMA QuoteStep ==
  ASSUME QuoteInv, Quote
  PROVE  QuotePart'
<1> DEFINE i == Head(mrChan)
<1>1. /\ UNCHANGED <<table, alive, book, loop, redis, clock, quoteFile, snapshotTime,
                     restored, behind>>
      /\ alive /\ mrChan # <<>> /\ i # Marker /\ mrChan' = Tail(mrChan)
  BY DEF Quote, vars, saved, restarts
<1>2. /\ QuoteTypeOK /\ Queue /\ Positions /\ DeadIsEmpty /\ (behind \/ InStep)
      /\ IInv /\ Clocks
  BY DEF QuoteInv, QuotePart
<1>3. Queue' /\ mrChan' \in Seq(Rows \cup {Marker}) /\ DeadIsEmpty'
  BY <1>1, <1>2, TakenFromQueue DEF DeadIsEmpty
<1>4. /\ quotation \in Quotation /\ quotation.maxId \in Nat
      /\ quotation.klines \in [Windows -> SUBSET Rows]
      /\ \A w \in Windows : \A j \in quotation.klines[w] : w \in WindowsOf[j]
  BY <1>2, QuotationType DEF QuoteTypeOK
<1>5. i \in table /\ i \in Rows /\ i \in Nat
  <2>1. 1 \in DOMAIN mrChan /\ i = mrChan[1]
    BY <1>1, <1>2, TailOfQueue
  <2>2. QED
    BY <1>1, <1>2, <2>1, TableType DEF Queue
<1>6. CASE i <= quotation.maxId
  <2>1. UNCHANGED <<quotation, newest, redisCache>>
    BY <1>6 DEF Quote, memory
  <2>2. QuoteTypeOK' /\ Positions'
    BY <1>1, <1>2, <1>3, <2>1 DEF QuoteTypeOK, Positions, Position
  <2>3. Waiting => Waiting'
    BY <1>1, <1>2, <1>4, <1>6, <2>1, TakenStillWaits
  <2>4. InStep => InStep'
    BY <1>1, <2>1, <2>3 DEF InStep, Memory, Marked, MemoryComplete, FileComplete,
       RedisFull, Has, Lost
  <2>5. QED
    BY <1>1, <1>2, <1>3, <2>2, <2>4 DEF QuotePart
<1>7. CASE ~(i <= quotation.maxId)
  <2> DEFINE k == Updated(WindowsOf[i], i)
  <2>1. /\ quotation' = [maxId |-> i, klines |-> k] /\ newest' = clock
        /\ redisCache \subseteq redisCache' /\ WindowsOf[i] \subseteq redisCache'
        /\ redisCache' \subseteq Windows
    <3>1. PICK ws \in SUBSET UpToNow(i) : WindowsOf[i] \subseteq ws /\ LookedFor(redisCache \cup ws)
      BY <1>7 DEF Quote, Drawn
    <3>2. redisCache' = (redisCache \cup ws) \cup Missing /\ newest' = clock
      BY <3>1 DEF LookedFor
    <3>3. redisCache \subseteq Windows /\ UpToNow(i) \subseteq Windows /\ Missing \subseteq Windows
      BY <1>2, <1>5, MarksType DEF QuoteTypeOK
    <3>4. quotation' = [maxId |-> i, klines |-> k]
      BY <1>7 DEF Quote, Drawn
    <3>5. QED
      BY <3>1, <3>2, <3>3, <3>4
  <2>2. quotation'.maxId = i /\ quotation'.klines = k
    BY <2>1
  <2>3. /\ k \in [Windows -> SUBSET Rows]
        /\ \A w \in Windows :
             k[w] = quotation.klines[w] \cup (IF w \in WindowsOf[i] THEN {i} ELSE {})
    BY <1>4, <1>5 DEF Updated
  <2> HIDE DEF k
  <2>4. \A w \in Windows : \A j \in k[w] : w \in WindowsOf[j]
    BY <1>4, <2>3
  <2>5. i \in 0 .. MaxRow
    BY <1>5, LoopAssumption DEF Rows
  <2>6. QuoteTypeOK' /\ Positions'
    <3>1. quotation' \in Quotation
      BY <2>1, <2>3, <2>4, <2>5, MakesQuotation
    <3>2. newest' \in 0 .. clock'
      BY <1>1, <1>2, <2>1, ClockType
    <3>3. QuoteTypeOK'
      BY <1>1, <1>2, <1>3, <2>1, <3>1, <3>2 DEF QuoteTypeOK
    <3>4. QED
      BY <1>1, <1>2, <1>5, <2>2, <3>3 DEF Positions, Position
  <2>7. quotation.maxId < i
    BY <1>4, <1>5, <1>7
  <2>8. ASSUME InStep
        PROVE  InStep'
    <3>1. Memory
      BY <1>1, <2>8 DEF InStep
    <3>2. Waiting'
      BY <1>1, <1>2, <1>4, <1>5, <2>2, <2>7, <3>1, TakenStillWaits DEF Memory
    <3>3. \A j \in table : j <= i => j <= quotation.maxId \/ j = i
      BY <1>1, <1>2, <2>7, <3>1, FirstIsNext DEF Memory
    <3>4. \A j \in table : j \in Nat
      BY <1>2, TableType
    <3>5. MemoryComplete'
      <4>1. \A j \in table : j <= i <=> (j <= quotation.maxId \/ j = i)
        BY <1>4, <1>5, <2>7, <3>3, <3>4
      <4>2. \A w \in Windows : ~Lost(i, w)
        BY <1>1, <1>2, <1>5, <2>7, NewNotLost
      <4>3. ASSUME NEW w \in Windows, NEW j
            PROVE  j \in k[w] <=> j \in table /\ j <= i /\ w \in WindowsOf[j] /\ ~Lost(j, w)
        <5>1. j \in k[w] <=> j \in quotation.klines[w] \/ (w \in WindowsOf[i] /\ j = i)
          BY <2>3
        <5>2. j \in quotation.klines[w] <=>
                j \in table /\ j <= quotation.maxId /\ w \in WindowsOf[j] /\ ~Lost(j, w)
          BY <3>1 DEF Memory, MemoryComplete
        <5>3. QED
          BY <1>5, <4>1, <4>2, <5>1, <5>2
      <4>4. QED
        BY <1>1, <2>2, <4>3 DEF MemoryComplete, Lost
    <3>6. Marked'
      <4>1. ASSUME NEW w \in Windows \ redisCache'
            PROVE  k[w] \subseteq redis.klines[w]
        <5>1. w \in Windows \ redisCache /\ w \notin WindowsOf[i]
          BY <2>1
        <5>2. k[w] = quotation.klines[w]
          BY <2>3, <5>1
        <5>3. QED
          BY <3>1, <5>1, <5>2 DEF Memory, Marked
      <4>2. QED
        BY <1>1, <2>2, <4>1 DEF Marked
    <3>7. QED
      BY <1>1, <2>8, <3>2, <3>5, <3>6 DEF InStep, Memory, FileComplete, RedisFull, Has, Lost
  <2>9. QED
    BY <1>1, <1>2, <1>3, <2>6, <2>8 DEF QuotePart
<1>8. QED
  BY <1>6, <1>7

\* Time passes, and the windows of now get their klines.
LEMMA LookedForInv ==
  ASSUME QuoteInv, Tick \/ CheckKlines
  PROVE  QuotePart'
<1>1. /\ UNCHANGED <<table, alive, book, loop, mrChan, quotation, redis, quoteFile,
                     snapshotTime, restored, behind>>
      /\ \/ clock < MaxTime /\ clock' = clock + 1 /\ UNCHANGED <<newest, redisCache>>
         \/ alive /\ newest' = clock /\ redisCache' = redisCache \cup Missing /\ UNCHANGED clock
  BY DEF Tick, CheckKlines, LookedFor, vars, memory, saved, restarts
<1>2. QuoteTypeOK /\ Queue /\ Positions /\ DeadIsEmpty /\ (behind \/ InStep)
  BY DEF QuoteInv, QuotePart
<1>3. redisCache \subseteq redisCache' /\ redisCache' \subseteq Windows
  BY <1>1, <1>2, MarksType DEF QuoteTypeOK
<1>4. clock' \in 1 .. MaxTime /\ newest' \in 0 .. clock' /\ \A t \in 0 .. clock : t \in 0 .. clock'
  BY <1>1, <1>2, QuoteAssumption DEF QuoteTypeOK
<1>5. QuoteTypeOK'
  BY <1>1, <1>2, <1>3, <1>4 DEF QuoteTypeOK
<1>6. Queue' /\ Positions' /\ DeadIsEmpty'
  BY <1>1, <1>2 DEF Queue, Positions, Position, DeadIsEmpty
<1>7. InStep => InStep'
  BY <1>1, <1>3 DEF InStep, Memory, Waiting, Marked, MemoryComplete, FileComplete,
     RedisFull, Has, Lost
<1>8. QED
  BY <1>1, <1>2, <1>5, <1>6, <1>7 DEF QuotePart

-----------------------------------------------------------------------------
(* Saves and snapshots *)

\* So does the periodic save to Redis.
LEMMA SaveTickInv ==
  ASSUME QuoteInv, SaveTick
  PROVE  QuotePart'
<1>1. /\ UNCHANGED <<table, alive, book, loop, mrChan, clock, quotation, newest, quoteFile,
                     snapshotTime, restored, behind>>
      /\ alive /\ Saved(redisCache) /\ redisCache' = {}
  BY DEF SaveTick, Saved, vars, saved, restarts
<1>2. QuoteTypeOK /\ Queue /\ Positions /\ DeadIsEmpty /\ (behind \/ InStep)
  BY DEF QuoteInv, QuotePart
<1>3. /\ redis' \in Quotation /\ Position(redis') /\ redis.maxId <= redis'.maxId
      /\ ~behind =>
           RedisFull' /\ \A w \in Windows : quotation.klines[w] \subseteq redis'.klines[w]
  BY <1>1, <1>2, SavedKeeps DEF QuoteTypeOK
<1>4. QuoteTypeOK' /\ Queue' /\ Positions' /\ DeadIsEmpty'
  BY <1>1, <1>2, <1>3 DEF QuoteTypeOK, Queue, Positions, Position, DeadIsEmpty
<1>5. redis.maxId \in Nat /\ redis'.maxId \in Nat /\ quoteFile.maxId \in Nat
  BY <1>2, <1>3, QuotationType DEF QuoteTypeOK
<1>6. ~behind /\ InStep => InStep'
  BY <1>1, <1>3, <1>5 DEF InStep, Memory, Waiting, Marked, MemoryComplete, FileComplete, Lost
<1>7. QED
  BY <1>1, <1>2, <1>4, <1>6 DEF QuotePart

\* A marker is taken and Redis has changed: what the quotes lack still waits.
LEMMA MarkerTaken ==
  ASSUME QuoteInv, mrChan # <<>>, Head(mrChan) = Marker, mrChan' = Tail(mrChan),
         UNCHANGED <<table, book, loop, quotation>>
  PROVE  Queue' /\ mrChan' \in Seq(Rows \cup {Marker}) /\ (Waiting => Waiting')
<1>1. QuoteTypeOK /\ Queue /\ IInv
  BY DEF QuoteInv, QuotePart
<1>2. quotation.maxId \in Nat
  BY <1>1, QuotationType DEF QuoteTypeOK
<1>3. quotation.maxId <= quotation'.maxId
  BY <1>2
<1>4. QED
  BY <1>1, <1>2, <1>3, TakenFromQueue, TakenStillWaits

\* What a snapshot keeps are klines of the quotation.
LEMMA OfNowType ==
  ASSUME QuoteTypeOK, takeSnapShot
  PROVE  /\ quoteFile' \in Quotation /\ quoteFile'.maxId = quotation.maxId
         /\ \A w \in Windows : quoteFile'.klines[w] =
              IF w \in WindowsAt[clock] THEN quotation.klines[w] ELSE {}
         /\ snapshotTime' = clock
<1>1. /\ quotation.maxId \in 0 .. MaxRow /\ quotation.klines \in [Windows -> SUBSET Rows]
      /\ \A w \in Windows : \A i \in quotation.klines[w] : w \in WindowsOf[i]
  BY QuotationType DEF QuoteTypeOK
<1>2. /\ OfNow \in [Windows -> SUBSET Rows]
      /\ \A w \in Windows : OfNow[w] = IF w \in WindowsAt[clock] THEN quotation.klines[w] ELSE {}
  BY <1>1 DEF OfNow
<1>3. \A w \in Windows : \A i \in OfNow[w] : w \in WindowsOf[i]
  BY <1>1, <1>2
<1>4. quoteFile' = [maxId |-> quotation.maxId, klines |-> OfNow] /\ snapshotTime' = clock
  BY DEF takeSnapShot
<1> HIDE DEF takeSnapShot
<1>5. quoteFile' \in Quotation
  BY <1>1, <1>2, <1>3, <1>4, MakesQuotation
<1>6. QED
  BY <1>2, <1>4, <1>5

\* So does a snapshot of the quotation.
LEMMA QuoteSnapshotInv ==
  ASSUME QuoteInv, QuoteSnapshot
  PROVE  QuotePart'
<1>1. /\ UNCHANGED <<table, alive, book, loop, clock, quotation, restored, behind>>
      /\ alive /\ Saved(redisCache \cup Missing) /\ redisCache' = {} /\ newest' = clock
      /\ takeSnapShot
      /\ mrChan # <<>> /\ Head(mrChan) = Marker /\ mrChan' = Tail(mrChan)
  BY DEF QuoteSnapshot, SnapshotDue, Saved, vars, restarts
<1>2. /\ QuoteTypeOK /\ Queue /\ Positions /\ DeadIsEmpty /\ (behind \/ InStep)
      /\ IInv /\ Clocks
  BY DEF QuoteInv, QuotePart
<1>3. Queue' /\ mrChan' \in Seq(Rows \cup {Marker}) /\ (Waiting => Waiting')
  BY <1>1, MarkerTaken
<1>4. /\ redis' \in Quotation /\ Position(redis') /\ quotation.maxId <= redis'.maxId
      /\ ~behind =>
           RedisFull' /\ \A w \in Windows : quotation.klines[w] \subseteq redis'.klines[w]
  <2>1. redisCache \cup Missing \subseteq Windows
    BY <1>2, MarksType DEF QuoteTypeOK
  <2>2. QED
    BY <1>1, <2>1, SavedKeeps
<1>5. /\ quoteFile' \in Quotation /\ quoteFile'.maxId = quotation.maxId
      /\ \A w \in Windows : quoteFile'.klines[w] =
           IF w \in WindowsAt[clock] THEN quotation.klines[w] ELSE {}
      /\ snapshotTime' = clock
  BY <1>1, <1>2, OfNowType
<1>6. clock \in 0 .. clock
  BY <1>2, ClockType
<1>7. QuoteTypeOK' /\ Positions' /\ DeadIsEmpty'
  <2>1. QuoteTypeOK'
    BY <1>1, <1>2, <1>3, <1>4, <1>5, <1>6 DEF QuoteTypeOK
  <2>2. QED
    BY <1>1, <1>2, <1>4, <1>5, <2>1 DEF Positions, Position, DeadIsEmpty
<1>8. MemoryComplete => FileComplete'
  <2> SUFFICES ASSUME MemoryComplete, NEW w \in Windows, NEW i
               PROVE  i \in quoteFile'.klines[w] <=>
                        i \in table /\ i <= quotation.maxId /\ w \in WindowsOf[i]
                          /\ w \in WindowsAt[clock]
    BY <1>1, <1>5 DEF FileComplete
  <2>1. clock \in 0 .. MaxTime /\ restored.at <= clock
    BY <1>2, ClockType DEF Clocks
  <2>2. i \in table /\ w \in WindowsAt[clock] /\ w \in WindowsOf[i] => ~Lost(i, w)
    BY <1>2, <2>1, NotLost
  <2>3. QED
    BY <1>5, <2>2 DEF MemoryComplete
<1>9. ~behind /\ InStep => InStep'
  BY <1>1, <1>3, <1>4, <1>5, <1>8 DEF InStep, Memory, Marked, MemoryComplete, Lost
<1>10. QED
  BY <1>1, <1>2, <1>3, <1>7, <1>9 DEF QuotePart

\* A save that fails, on its tick or before a snapshot that is not taken.
LEMMA FailedInv ==
  ASSUME QuoteInv, SaveTickFailed \/ QuoteSnapshotSkipped, ~CommandsFail
  PROVE  QuotePart'
<1>1. /\ UNCHANGED <<table, alive, book, loop, clock, quotation, quoteFile, snapshotTime,
                     restored, behind>>
      /\ alive
  BY DEF SaveTickFailed, QuoteSnapshotSkipped, SnapshotDue, vars, saved, restarts
<1>2. QuoteTypeOK /\ Queue /\ Positions /\ DeadIsEmpty /\ (behind \/ InStep)
  BY DEF QuoteInv, QuotePart
<1>3. Queue' /\ mrChan' \in Seq(Rows \cup {Marker}) /\ (Waiting => Waiting')
  <2>1. CASE SaveTickFailed
    BY <1>1, <1>2, <2>1 DEF SaveTickFailed, QuoteTypeOK, Queue, Waiting
  <2>2. CASE QuoteSnapshotSkipped
    BY <1>1, <2>2, MarkerTaken DEF QuoteSnapshotSkipped, SnapshotDue
  <2>3. QED
    BY <2>1, <2>2
<1>4. PICK cache \in SUBSET Windows : redisCache \subseteq cache /\ SaveFailed(cache)
  <2>1. redisCache \subseteq Windows /\ redisCache \cup Missing \subseteq Windows
    BY <1>2, MarksType DEF QuoteTypeOK
  <2>2. QED
    BY <2>1 DEF SaveTickFailed, QuoteSnapshotSkipped
<1>5. /\ redis' \in Quotation /\ Position(redis') /\ redis.maxId <= redis'.maxId
      /\ redisCache' = cache
      /\ ~behind =>
           /\ RedisFull'
           /\ \A w \in Windows \ cache : quotation.klines[w] \subseteq redis'.klines[w]
  BY <1>1, <1>4, FailedKeeps
<1>6. newest' \in 0 .. clock'
  BY <1>1, <1>2, ClockType
     DEF SaveTickFailed, QuoteSnapshotSkipped, SnapshotDue, QuoteTypeOK
<1>7. QuoteTypeOK' /\ Positions' /\ DeadIsEmpty'
  BY <1>1, <1>2, <1>3, <1>4, <1>5, <1>6 DEF QuoteTypeOK, Positions, Position, DeadIsEmpty
<1>8. redis.maxId \in Nat /\ redis'.maxId \in Nat /\ quoteFile.maxId \in Nat
  BY <1>2, <1>5, QuotationType DEF QuoteTypeOK
<1>9. ~behind /\ InStep => InStep'
  BY <1>1, <1>3, <1>5, <1>8 DEF InStep, Memory, Marked, MemoryComplete, FileComplete, Lost
<1>10. QED
  BY <1>1, <1>2, <1>3, <1>7, <1>9 DEF QuotePart

-----------------------------------------------------------------------------
(* Crash and restart *)

\* An empty queue is in order.
LEMMA EmptyQueue ==
  ASSUME mrChan' = <<>>, loop' = "select"
  PROVE  Queue' /\ mrChan' \in Seq(Rows \cup {Marker})
<1>1. mrChan' \in Seq(Rows \cup {Marker}) /\ DOMAIN (mrChan') = {}
  <2>1. <<>> \in Seq(Rows \cup {Marker}) /\ DOMAIN <<>> = 1 .. 0
    BY EmptySeq, LenProperties
  <2>2. QED
    BY <2>1
<1>2. QED
  BY <1>1 DEF Queue

\* What is on disk and in Redis stays as it is.
LEMMA CrashQuotesInv ==
  ASSUME QuoteInv, CrashQuotes
  PROVE  QuotePart'
<1>1. /\ UNCHANGED <<table, clock, redis, quoteFile, snapshotTime, restored, behind>>
      /\ alive' = FALSE /\ loop' = "select" /\ mrChan' = <<>>
      /\ quotation' = NoQuotes /\ newest' = 0 /\ redisCache' = {}
  BY DEF CrashQuotes, Crash, Started, saved, restarts
<1>2. QuoteTypeOK /\ Positions /\ (behind \/ InStep)
  BY DEF QuoteInv, QuotePart
<1>3. Queue' /\ mrChan' \in Seq(Rows \cup {Marker})
  BY <1>1, EmptyQueue
<1>4. newest' \in 0 .. clock'
  BY <1>1, <1>2, ClockType
<1>5. QuoteTypeOK' /\ Positions' /\ DeadIsEmpty'
  BY <1>1, <1>2, <1>3, <1>4, NoQuotesType DEF QuoteTypeOK, Positions, Position, DeadIsEmpty
<1>6. InStep => InStep'
  BY <1>1 DEF InStep, FileComplete, RedisFull, Has, Lost
<1>7. QED
  BY <1>1, <1>2, <1>3, <1>5, <1>6 DEF QuotePart

\* What a restart has lost, the next one has not got either.
LEMMA LostStays ==
  ASSUME QuoteTypeOK, Clocks, IInv, RestartQuotes,
         NEW i \in table, NEW w \in WindowsOf[i], Lost(i, w)
  PROVE  Lost(i, w)'
<1>1. restored' = [maxId |-> quoteFile.maxId, at |-> snapshotTime]
  BY DEF RestartQuotes
<1>2. i \in Nat /\ restored.maxId \in Nat /\ quoteFile.maxId \in Nat
  BY TableType, ClockType, QuotationType DEF QuoteTypeOK
<1>3. i <= quoteFile.maxId
  BY <1>2 DEF Clocks, Lost
<1>4. snapshotTime \in 0 .. MaxTime /\ restored.at <= snapshotTime
  BY ClockType DEF Clocks
<1>5. w \notin WindowsAt[snapshotTime]
  BY <1>4, NotLost
<1>6. QED
  BY <1>1, <1>3, <1>5 DEF Lost

\* The quotes go on from their snapshot, of which Redis has everything.
LEMMA RestartQuotesInv ==
  ASSUME QuoteInv, RestartQuotes
  PROVE  QuotePart'
<1>1. /\ UNCHANGED <<table, clock, mrChan, redisCache, redis, quoteFile, snapshotTime>>
      /\ ~alive /\ alive' = TRUE /\ loop' = "select"
      /\ quotation' = quoteFile /\ newest' = snapshotTime
      /\ restored' = [maxId |-> quoteFile.maxId, at |-> snapshotTime]
      /\ behind' = (behind \/ book'.fromId > quoteFile.maxId)
  BY DEF RestartQuotes, Restart, RestartWith, Started, onDisk, saved
<1>2. /\ QuoteTypeOK /\ Positions /\ DeadIsEmpty /\ (behind \/ InStep)
      /\ IInv /\ Clocks
  BY DEF QuoteInv, QuotePart
<1>3. mrChan' = <<>> /\ redisCache = {}
  BY <1>1, <1>2 DEF DeadIsEmpty
<1>4. Queue' /\ mrChan' \in Seq(Rows \cup {Marker})
  BY <1>1, <1>3, EmptyQueue
<1>5. behind' \in BOOLEAN /\ restored' \in [maxId : 0 .. MaxRow, at : 0 .. clock]
  <2>1. quoteFile.maxId \in 0 .. MaxRow /\ snapshotTime \in 0 .. clock
    BY <1>2, QuotationType DEF QuoteTypeOK
  <2>2. QED
    BY <1>1, <1>2, <2>1 DEF QuoteTypeOK
<1>6. QuoteTypeOK' /\ Positions' /\ DeadIsEmpty'
  BY <1>1, <1>2, <1>4, <1>5 DEF QuoteTypeOK, Positions, Position, DeadIsEmpty
<1>7. ASSUME ~behind'
      PROVE  InStep'
  <2>1. InStep /\ ~(book'.fromId > quoteFile.maxId)
    BY <1>1, <1>2, <1>7
  <2>2. /\ quoteFile.maxId \in Nat /\ redis.maxId \in Nat
        /\ \A r \in table : r \in Nat /\ r \in Rows
    BY <1>2, QuotationType, TableType DEF QuoteTypeOK
  <2>3. book'.fromId \in Nat
    <3>1. [Next]_vars
      BY DEF RestartQuotes, Next
    <3>2. TypeOK'
      BY <1>2, <3>1, StepInv DEF IInv
    <3>3. QED
      BY <3>2, LoopAssumption DEF TypeOK, Book
  <2>4. Waiting'
    BY <1>1, <2>1, <2>2, <2>3 DEF Waiting
  <2>5. snapshotTime \in 0 .. MaxTime /\ restored.at <= snapshotTime
    BY <1>2, ClockType DEF Clocks
  <2>6. ASSUME NEW w \in Windows, NEW i \in quoteFile.klines[w]
        PROVE  i \in redis.klines[w]
    <3>1. /\ i \in table /\ i <= quoteFile.maxId /\ w \in WindowsOf[i]
          /\ w \in WindowsAt[snapshotTime]
      BY <2>1, <2>6 DEF InStep, FileComplete
    <3>2. i <= redis.maxId
      BY <2>1, <2>2, <3>1 DEF InStep
    <3>3. ~Lost(i, w)
      BY <1>2, <2>5, <3>1, NotLost
    <3>4. QED
      BY <2>1, <3>1, <3>2, <3>3 DEF InStep, RedisFull, Has
  <2>7. Marked'
    BY <1>1, <2>6 DEF Marked
  <2>8. MemoryComplete'
    <3>1. \A i, w : Lost(i, w)' <=> i <= quoteFile.maxId /\ w \notin WindowsAt[snapshotTime]
      BY <1>1 DEF Lost
    <3>2. FileComplete
      BY <2>1 DEF InStep
    <3>3. QED
      BY <1>1, <3>1, <3>2 DEF FileComplete, MemoryComplete
  <2>9. RedisFull'
    <3>1. \A i \in table : \A w \in WindowsOf[i] : Lost(i, w) => Lost(i, w)'
      BY <1>2, LostStays
    <3>2. QED
      BY <1>1, <2>1, <3>1 DEF InStep, RedisFull, Has
  <2>10. FileComplete' /\ quoteFile'.maxId <= redis'.maxId
    BY <1>1, <2>1 DEF InStep, FileComplete
  <2>11. QED
    BY <2>4, <2>7, <2>8, <2>9, <2>10 DEF InStep, Memory
<1>8. QED
  BY <1>4, <1>6, <1>7 DEF QuotePart

-----------------------------------------------------------------------------
(* The clock *)

\* The quotes' id never gets smaller while the process runs.
LEMMA MaxIdGrows ==
  ASSUME QuoteInv, Quote
  PROVE  quotation.maxId <= quotation'.maxId
<1>1. QuoteTypeOK /\ mrChan # <<>> /\ Head(mrChan) # Marker
  BY DEF QuoteInv, QuotePart, Quote
<1>2. quotation.maxId \in Nat /\ Head(mrChan) \in Nat
  BY <1>1, QuotationType, TailOfQueue, LoopAssumption DEF QuoteTypeOK, Rows
<1>3. QED
  BY <1>2 DEF Quote, Drawn, memory

\* Neither does that of the snapshot, which is taken at the time it is.
LEMMA ClocksKept ==
  ASSUME QuoteInv, [QuoteNext]_qvars
  PROVE  Clocks'
<1>1. QuoteTypeOK /\ Positions /\ Clocks /\ IInv
  BY DEF QuoteInv, QuotePart
<1>2. /\ clock \in Nat /\ snapshotTime \in Nat /\ restored.at \in Nat /\ restored.maxId \in Nat
      /\ quoteFile.maxId \in Nat /\ quotation.maxId \in Nat
      /\ \A i \in Rows : TimeOf[i] \in Nat /\ i \in Nat
      /\ table \subseteq Rows
  BY <1>1, ClockType, QuotationType, WindowsType, TableType DEF QuoteTypeOK
<1>3. CASE UNCHANGED <<table, alive, clock, quotation, quoteFile, snapshotTime, restored>>
  BY <1>1, <1>3 DEF Clocks
<1>4. CASE \E i \in Rows : /\ TimeOf[i] <= clock /\ Upstream(i)
                           /\ UNCHANGED <<clock, quotation, quoteFile, snapshotTime, restored>>
  <2>1. PICK i \in Rows : /\ TimeOf[i] <= clock /\ Upstream(i)
                          /\ UNCHANGED <<clock, quotation, quoteFile, snapshotTime, restored>>
    BY <1>4
  <2>2. table' = table \cup {i} /\ (\A r \in table : r < i) /\ alive' = alive
    BY <2>1 DEF Upstream
  <2>3. quoteFile.maxId < i /\ i \in Nat \ {0}
    BY <1>1, <1>2, <2>2, LoopAssumption DEF Positions, Position, Rows
  <2>4. restored.maxId < i
    BY <1>1, <1>2, <2>3 DEF Clocks
  <2>5. QED
    BY <1>1, <1>2, <2>1, <2>2, <2>3, <2>4 DEF Clocks
<1>5. CASE Tick
  <2>1. /\ UNCHANGED <<table, alive, quotation, quoteFile, snapshotTime, restored>>
        /\ clock' = clock + 1
    BY <1>5 DEF Tick, vars, memory, saved, restarts
  <2>2. QED
    BY <1>1, <1>2, <2>1 DEF Clocks
<1>6. CASE Quote
  <2>1. UNCHANGED <<table, alive, clock, quoteFile, snapshotTime, restored>>
    BY <1>6 DEF Quote, vars, saved, restarts
  <2>2. quotation.maxId <= quotation'.maxId /\ quotation'.maxId \in Nat
    <3>1. QuoteTypeOK'
      BY <1>6, QuoteStep DEF QuotePart
    <3>2. QED
      BY <1>6, <3>1, MaxIdGrows, QuotationType DEF QuoteTypeOK
  <2>3. QED
    BY <1>1, <1>2, <2>1, <2>2 DEF Clocks
<1>7. CASE QuoteSnapshot
  <2>1. /\ UNCHANGED <<table, alive, clock, quotation, restored>> /\ alive
        /\ quoteFile'.maxId = quotation.maxId /\ snapshotTime' = clock
    BY <1>1, <1>7, OfNowType DEF QuoteSnapshot, SnapshotDue, vars, restarts
  <2>2. QED
    BY <1>1, <1>2, <2>1 DEF Clocks
<1>8. CASE CrashQuotes
  BY <1>1, <1>8 DEF CrashQuotes, Crash, Clocks, saved, restarts
<1>9. CASE RestartQuotes
  <2>1. /\ UNCHANGED <<table, clock, quoteFile, snapshotTime>> /\ quotation' = quoteFile
        /\ restored'.maxId = quoteFile.maxId /\ restored'.at = snapshotTime
    BY <1>9 DEF RestartQuotes, Restart, onDisk, saved
  <2>2. QED
    BY <1>1, <1>2, <2>1 DEF Clocks
<1>10. QED
  <2>1. CASE Elsewhere
    <3>1. UNCHANGED <<clock, quotation, quoteFile, snapshotTime, restored>>
      BY <2>1 DEF Elsewhere, memory, saved, restarts
    <3>2. CASE \E i \in Rows : TimeOf[i] <= clock /\ Upstream(i)
      BY <1>4, <3>1, <3>2
    <3>3. CASE PullSome \/ SendOrder \/ Match \/ SnapshotTick \/ SendClone \/ Dump
      <4>1. UNCHANGED <<table, alive>>
        BY <3>3 DEF PullSome, Pull, SendOrder, Match, SnapshotTick, SendClone, Dump,
           DumpCreate, DumpClose, DumpRename, DumpPrune, onDisk
      <4>2. QED
        BY <1>3, <3>1, <4>1
    <3>4. QED
      BY <2>1, <3>2, <3>3 DEF Elsewhere
  <2>2. CASE SendToQuotes \/ SendQuoteMarker \/ CheckKlines \/ SaveTick \/ SaveTickFailed
             \/ QuoteSnapshotSkipped \/ UNCHANGED qvars
    BY <1>3, <2>2 DEF SendToQuotes, SendResult, SendQuoteMarker, SendMarker, CheckKlines,
       SaveTick, SaveTickFailed, QuoteSnapshotSkipped, onDisk, qvars, vars, memory, saved, restarts
  <2>3. QED
    BY <1>5, <1>6, <1>7, <1>8, <1>9, <2>1, <2>2 DEF QuoteNext

-----------------------------------------------------------------------------
(* The specification *)

\* The invariant holds at the beginning.
LEMMA QuoteInitInv ==
  ASSUME QuoteInit
  PROVE  QuoteInv
<1>1. /\ table = {} /\ loop = "select" /\ alive /\ Init
      /\ mrChan = <<>> /\ quotation = NoQuotes /\ redisCache = {}
      /\ redis = NoQuotes /\ quoteFile = NoQuotes /\ behind = FALSE
      /\ clock = 1 /\ newest = 0 /\ snapshotTime = 0 /\ restored = [maxId |-> 0, at |-> 0]
  BY DEF QuoteInit, Init
<1>2. IInv
  BY <1>1, InitInv
<1>3. mrChan \in Seq(Rows \cup {Marker}) /\ DOMAIN mrChan = {}
  <2>1. <<>> \in Seq(Rows \cup {Marker}) /\ DOMAIN <<>> = 1 .. 0
    BY EmptySeq, LenProperties
  <2>2. QED
    BY <1>1, <2>1
<1>4. clock \in 1 .. MaxTime /\ 0 \in 0 .. clock /\ 0 \in 0 .. MaxRow
  BY <1>1, QuoteAssumption, LoopAssumption
<1>5. QuoteTypeOK
  BY <1>1, <1>3, <1>4, NoQuotesType DEF QuoteTypeOK
<1>6. Queue /\ Positions /\ DeadIsEmpty /\ Clocks
  BY <1>1, <1>3, NoQuotesType DEF Queue, Positions, Position, DeadIsEmpty, Clocks
<1>7. \A w \in Windows : NoQuotes.klines[w] = {}
  BY DEF NoQuotes
<1>8. InStep
  BY <1>1, <1>7, NoQuotesType
     DEF InStep, Memory, MemoryComplete, FileComplete, Waiting, Marked, RedisFull
<1>9. QED
  BY <1>2, <1>5, <1>6, <1>8 DEF QuoteInv, QuotePart

\* Beside the quotes every step is one of the event loop, or none.
LEMMA LoopSteps ==
  ASSUME [QuoteNext]_qvars
  PROVE  [Next]_vars
  BY DEF QuoteNext, qvars, Next, Loop, Elsewhere, Tick, SendToQuotes, SendQuoteMarker, Quote,
     CheckKlines, SaveTick, SaveTickFailed, QuoteSnapshot, QuoteSnapshotSkipped, CrashQuotes,
     RestartQuotes

\* Every step but one whose Redis commands fail keeps it.
LEMMA QuoteStepInv ==
  ASSUME QuoteInv, [QuoteNext]_qvars, ~CommandsFail
  PROVE  QuoteInv'
<1>1. IInv'
  BY LoopSteps, StepInv DEF QuoteInv
<1>2. QuotePart'
  <2>1. CASE Elsewhere
    BY <2>1, ElsewhereQuotes
  <2>2. CASE SendToQuotes \/ SendQuoteMarker
    BY <2>2, SendToQuotesInv, SendQuoteMarkerInv
  <2>3. CASE Quote \/ Tick \/ CheckKlines
    BY <2>3, QuoteStep, LookedForInv
  <2>4. CASE SaveTick \/ QuoteSnapshot
    BY <2>4, SaveTickInv, QuoteSnapshotInv
  <2>5. CASE SaveTickFailed \/ QuoteSnapshotSkipped
    BY <2>5, FailedInv
  <2>6. CASE CrashQuotes \/ RestartQuotes
    BY <2>6, CrashQuotesInv, RestartQuotesInv
  <2>7. CASE UNCHANGED qvars
    BY <2>7 DEF QuoteInv, QuotePart, qvars, vars, memory, saved, restarts, QuoteTypeOK, Queue,
       Positions, Position, DeadIsEmpty, InStep, Memory, Waiting, Marked, MemoryComplete,
       FileComplete, RedisFull, Has, Lost
  <2>8. QED
    BY <2>1, <2>2, <2>3, <2>4, <2>5, <2>6, <2>7 DEF QuoteNext
<1>3. Clocks'
  BY ClocksKept
<1>4. QED
  BY <1>1, <1>2, <1>3 DEF QuoteInv

\* The strengthened invariant holds as long as Redis refuses no command.
THEOREM QuoteInvariance ==
  ASSUME ~CommandsFail
  PROVE  QuoteSpec => []QuoteInv
<1>1. QuoteInit => QuoteInv
  BY QuoteInitInv
<1>2. QuoteInv /\ [QuoteNext]_qvars => QuoteInv'
  BY QuoteStepInv
<1>3. QED
  BY <1>1, <1>2, PTL DEF QuoteSpec

\* Over any crashes, replays and broken saves the klines in memory hold every
\* result up to their id that a restart has not lost with its window, and the
\* snapshot the whole of the windows it was taken in, unless a restart found the
\* quotes behind the book (l2quote/l2quote.go:341, snapshot.go:78).
THEOREM QuotesStayComplete ==
  ASSUME ~CommandsFail
  PROVE  QuoteSpec => []QuotesComplete
<1>1. ASSUME QuoteInv
      PROVE  QuotesComplete
  <2>1. QuoteTypeOK /\ (behind \/ InStep)
    BY <1>1 DEF QuoteInv, QuotePart
  <2>2. ASSUME InStep, alive, NEW w \in Windows
        PROVE  quotation.klines[w] = {i \in Due(quotation.maxId, w) : ~Lost(i, w)}
    BY <2>2 DEF InStep, Memory, MemoryComplete, Due
  <2>3. ASSUME InStep, NEW w \in WindowsAt[snapshotTime]
        PROVE  quoteFile.klines[w] = Due(quoteFile.maxId, w)
    <3>1. w \in Windows
      BY <2>1, <2>3, ClockType, QuoteAssumption
    <3>2. QED
      BY <2>3, <3>1 DEF InStep, FileComplete, Due
  <2>4. QED
    BY <2>1, <2>2, <2>3 DEF QuotesComplete
<1>2. QED
  BY <1>1, QuoteInvariance, PTL

\* The klines in Redis hold every result up to its maxMRID, under the same
\* condition, but for what a restart has lost (l2quote/redis_ops.go:37).
THEOREM RedisStaysComplete ==
  ASSUME ~CommandsFail
  PROVE  QuoteSpec => []RedisComplete
<1>1. QuoteInv => RedisComplete
  BY DEF QuoteInv, QuotePart, RedisComplete, InStep, RedisFull, Has, Due
<1>2. QED
  BY <1>1, QuoteInvariance, PTL

-----------------------------------------------------------------------------
(* Redis and the snapshot, also after a restart has found the quotes behind *)
(* the book: what lies between the two is lost, but nothing that is above   *)
(* the snapshots of the book, and only that comes again                     *)

\* A row that comes again after every restart there may be.
Fresh(r) == \A f \in Snapshots : f.fromId < r

\* Every such row up to its id is in quotation q, as far as it is not lost, and
\* in the snapshot, as far as that keeps its windows.
Full(q) == \A i \in table : Fresh(i) /\ i <= q.maxId => Has(q.klines, i)
FileFull ==
  \A i \in table : Fresh(i) /\ i <= quoteFile.maxId =>
    \A w \in WindowsOf[i] : i \in quoteFile.klines[w] \/ w \notin WindowsAt[snapshotTime]

\* Nothing is in quotation q from above its id.
UpToId(q) == \A w \in Windows : \A i \in q.klines[w] : i <= q.maxId

\* Quotation q has all that p has.
Under(p, q) == p.maxId <= q.maxId /\ \A w \in Windows : p.klines[w] \subseteq q.klines[w]

OnItsWay(r) == r \in Range(mrChan) \/ (loop = "result" /\ r = book.fromId)

\* Such a row that the book has and the quotes do not is on its way to them.
Expected ==
  \A r \in table : Fresh(r) /\ quotation.maxId < r /\ r <= book.fromId => OnItsWay(r)

\* What comes again while Redis is ahead, Redis has; so it has, up to its
\* position, what is in memory.
Repeated ==
  \A r \in table : OnItsWay(r) /\ quotation.maxId < r /\ r <= redis.maxId => Has(redis.klines, r)
NothingNew ==
  \A w \in Windows : \A i \in quotation.klines[w] : i <= redis.maxId => i \in redis.klines[w]

\* No snapshot of the book, finished or not, is ahead of it.
NotAhead ==
  alive =>
    /\ \A f \in Snapshots : f.fromId <= book.fromId
    /\ \A k \in DOMAIN snapshotChan : snapshotChan[k].fromId <= book.fromId
    /\ dumper \in {"close", "rename"} => tmp.fromId <= book.fromId

Replaying ==
  /\ Full(quotation) /\ Under(quoteFile, quotation)
  /\ Marked /\ Expected /\ Repeated /\ NothingNew

Behind ==
  /\ UpToId(quotation) /\ UpToId(quoteFile)
  /\ FileFull /\ Full(redis) /\ Under(quoteFile, redis)
  /\ alive => Replaying

ReplayInv == QuoteInv /\ NotAhead /\ Behind

\* If there are snapshots of the book, one is the newest.
LEMMA NewestExists ==
  ASSUME TypeOK, Snapshots # {}
  PROVE  \E f \in files : Newest(f)
<1> DEFINE T == {f.fromId .. MaxRow : f \in Snapshots}
           R == StrictSubsetOrdering(Nat)
<1>1. MaxRow \in Nat /\ Snapshots \subseteq files /\ \A f \in Snapshots : f.fromId \in 0 .. MaxRow
  BY LoopAssumption DEF TypeOK, File, Snapshots
<1>2. T \subseteq FiniteSubsetsOf(Nat)
  <2>1. \A f \in Snapshots : f.fromId .. MaxRow \subseteq Nat /\ IsFiniteSet(f.fromId .. MaxRow)
    <3> TAKE f \in Snapshots
    <3>1. f.fromId \in Nat /\ f.fromId \in Int /\ MaxRow \in Int
      BY <1>1
    <3>2. IsFiniteSet(f.fromId .. MaxRow)
      BY <3>1, FS_Interval
    <3>3. QED
      BY <3>1, <3>2
  <2>2. QED
    BY <2>1 DEF FiniteSubsetsOf
<1>3. IsWellFoundedOn(R, FiniteSubsetsOf(Nat))
  BY FS_StrictSubsetOrderingWellFounded
<1>4. T # {}
  OBVIOUS
<1>5. PICK U \in T : \A V \in T : ~(<<V, U>> \in R)
  <2> HIDE DEF T, R
  <2>1. QED
    BY <1>2, <1>3, <1>4, WFMin
<1>6. PICK f \in Snapshots : U = f.fromId .. MaxRow
  OBVIOUS
<1>7. ASSUME NEW g \in Snapshots, ~(g.fromId <= f.fromId)
      PROVE  FALSE
  <2>1. /\ g.fromId .. MaxRow \subseteq f.fromId .. MaxRow
        /\ f.fromId \in f.fromId .. MaxRow /\ f.fromId \notin g.fromId .. MaxRow
    BY <1>1, <1>7
  <2>2. g.fromId .. MaxRow \in T /\ g.fromId .. MaxRow \subseteq Nat /\ U \subseteq Nat
    BY <1>1, <1>6
  <2>3. g.fromId .. MaxRow # U
    BY <1>6, <2>1
  <2>4. <<g.fromId .. MaxRow, U>> \in R
    BY <1>6, <2>1, <2>2, <2>3 DEF StrictSubsetOrdering
  <2>5. QED
    BY <1>5, <2>2, <2>4
<1>8. QED
  BY <1>1, <1>7 DEF Newest

\* No step of the event loop takes the newest snapshots away: a row that is
\* above all of them afterwards was so before.
LEMMA FreshBefore ==
  ASSUME TypeOK, [Next]_vars, NEW r \in Int, Fresh(r)'
  PROVE  Fresh(r)
<1>1. tmp.fromId \in Int /\ \A f \in files : f.fromId \in Int
  BY LoopAssumption DEF TypeOK, File
<1>2. CASE UNCHANGED files
  BY <1>2 DEF Fresh, Snapshots
<1>3. CASE DumpRename
  <2>1. files' = {f \in files : f.fromId # tmp.fromId} \cup {tmp}
    BY <1>3 DEF DumpRename
  <2> SUFFICES ASSUME NEW f \in files, f.fromId > 0
               PROVE  f.fromId < r
    BY DEF Fresh, Snapshots
  <2>2. CASE f.fromId = tmp.fromId
    BY <2>1, <2>2 DEF Fresh, Snapshots
  <2>3. CASE f.fromId # tmp.fromId
    BY <2>1, <2>3 DEF Fresh, Snapshots
  <2>4. QED
    BY <2>2, <2>3
<1>4. CASE DumpPrune
  <2> SUFFICES ASSUME NEW f \in Snapshots
               PROVE  f.fromId < r
    BY DEF Fresh
  <2>1. PICK g \in files : Newest(g)
    BY NewestExists
  <2>2. {h \in Snapshots : h.fromId > g.fromId} = {}
    BY <1>1, <2>1 DEF Newest, Snapshots
  <2>3. Cardinality({h \in Snapshots : h.fromId > g.fromId}) < History
    BY <2>2, FS_EmptySet, LoopAssumption
  <2>4. g \in files' /\ g.fromId > 0
    BY <1>4, <2>1, <2>3 DEF DumpPrune, Pruned, Newest, Snapshots
  <2>5. g.fromId < r /\ f.fromId <= g.fromId
    BY <2>1, <2>4 DEF Fresh, Snapshots, Newest
  <2>6. QED
    BY <1>1, <2>1, <2>5 DEF Snapshots
<1>5. UNCHANGED files \/ DumpRename \/ DumpPrune
  BY DEF Next, Loop, Dump, Upstream, PullSome, Pull, SendOrder, Match, SendResult,
     SnapshotTick, SendClone, SendMarker, DumpCreate, DumpClose, Crash, Restart, onDisk, vars
<1>6. QED
  BY <1>2, <1>3, <1>4, <1>5

\* The book only goes forward while the process runs, and starts at the newest
\* of its snapshots.
LEMMA NotAheadKept ==
  ASSUME IInv, NotAhead, [Next]_vars
  PROVE  NotAhead'
<1>1. /\ book.fromId \in Nat /\ tmp.fromId \in Int /\ \A f \in files : f.fromId \in Int
      /\ snapshotChan \in Seq(Book) /\ ch \in Seq(Rows)
  BY TableType, LoopAssumption DEF IInv, TypeOK, File
<1>2. \A k \in DOMAIN snapshotChan : snapshotChan[k].fromId \in Int
  <2>1. \A k \in DOMAIN snapshotChan : snapshotChan[k] \in Book
    BY <1>1, ElementOfSeq, LenProperties
  <2>2. QED
    BY <2>1, LoopAssumption DEF Book
<1>3. CASE Match
  <2>1. Head(ch) \in Range(ch) /\ InOrder /\ Coming
    BY <1>1, <1>3, TailIncreasing DEF IInv, InOrder, Match
  <2>2. book.fromId <= Head(ch) /\ Head(ch) \in Int
    <3>1. book.fromId < Head(ch) /\ Head(ch) \in table
      BY <2>1 DEF Coming
    <3>2. QED
      BY <1>1, <3>1, TableType
  <2>3. book'.fromId = Head(ch) /\ UNCHANGED <<files, snapshotChan, dumper, tmp, alive>>
    BY <1>3 DEF Match, onDisk, dumping
  <2>4. QED
    BY <1>1, <1>2, <2>2, <2>3 DEF NotAhead, Snapshots
<1>4. CASE SendClone
  <2>1. /\ UNCHANGED <<files, book, dumper, tmp, alive>>
        /\ snapshotChan' = Append(snapshotChan, book)
    BY <1>4 DEF SendClone, onDisk
  <2>2. book \in Book /\ book.fromId <= book.fromId
    BY <1>1 DEF IInv, TypeOK
  <2>3. /\ DOMAIN snapshotChan' = 1 .. Len(snapshotChan) + 1 /\ Len(snapshotChan) \in Nat
        /\ DOMAIN snapshotChan = 1 .. Len(snapshotChan)
        /\ \A k \in 1 .. Len(snapshotChan) : snapshotChan'[k] = snapshotChan[k]
        /\ snapshotChan'[Len(snapshotChan) + 1] = book
    BY <1>1, <2>1, <2>2, AppendProperties, LenProperties
  <2>4. \A k \in DOMAIN snapshotChan' :
          \/ k \in DOMAIN snapshotChan /\ snapshotChan'[k] = snapshotChan[k]
          \/ snapshotChan'[k] = book
    BY <2>3
  <2>5. QED
    BY <2>1, <2>2, <2>4 DEF NotAhead, Snapshots
<1>5. CASE DumpCreate
  <2>1. /\ UNCHANGED <<files, book, alive>> /\ snapshotChan # <<>>
        /\ tmp' = Written(Head(snapshotChan), FALSE) /\ snapshotChan' = Tail(snapshotChan)
    BY <1>5 DEF DumpCreate
  <2>2. /\ Len(snapshotChan) \in Nat \ {0} /\ DOMAIN snapshotChan = 1 .. Len(snapshotChan)
        /\ Head(snapshotChan) = snapshotChan[1]
    BY <1>1, <2>1, LenProperties, EmptySeq
  <2>3. /\ DOMAIN snapshotChan' = 1 .. Len(snapshotChan) - 1
        /\ \A k \in 1 .. Len(snapshotChan) - 1 : snapshotChan'[k] = snapshotChan[k + 1]
    <3>1. /\ Tail(snapshotChan) \in Seq(Book) /\ Len(Tail(snapshotChan)) = Len(snapshotChan) - 1
          /\ \A k \in 1 .. Len(Tail(snapshotChan)) : Tail(snapshotChan)[k] = snapshotChan[k + 1]
      BY <1>1, <2>1, HeadTailProperties
    <3>2. QED
      BY <2>1, <3>1, LenProperties
  <2>4. tmp'.fromId = snapshotChan[1].fromId /\ 1 \in DOMAIN snapshotChan
    BY <2>1, <2>2 DEF Written
  <2>5. \A k \in DOMAIN snapshotChan' :
          k + 1 \in DOMAIN snapshotChan /\ snapshotChan'[k] = snapshotChan[k + 1]
    BY <2>2, <2>3
  <2>6. QED
    BY <2>1, <2>4, <2>5 DEF NotAhead, Snapshots
<1>6. CASE DumpClose
  <2>1. tmp'.fromId = tmp.fromId
    BY <1>6 DEF DumpClose, IInv, TypeOK, File
  <2>2. QED
    BY <1>6, <2>1 DEF DumpClose, NotAhead, Snapshots
<1>7. CASE DumpRename
  BY <1>7 DEF DumpRename, NotAhead, Snapshots
<1>8. CASE DumpPrune
  BY <1>8 DEF DumpPrune, Pruned, NotAhead, Snapshots
<1>9. CASE Crash
  BY <1>9 DEF Crash, NotAhead
<1>10. CASE Restart
  <2>1. /\ UNCHANGED files /\ snapshotChan' = <<>> /\ dumper' = "idle"
        /\ Snapshots = {} \/ \E f \in files : Newest(f) /\ book'.fromId = f.fromId
    BY <1>10 DEF Restart, RestartWith, Started, onDisk
  <2>2. DOMAIN snapshotChan' = {}
    <3>1. <<>> \in Seq(Book) /\ DOMAIN <<>> = 1 .. 0
      BY EmptySeq, LenProperties
    <3>2. QED
      BY <2>1, <3>1
  <2>3. QED
    BY <2>1, <2>2 DEF NotAhead, Newest, Snapshots
<1>11. CASE UNCHANGED <<files, book, snapshotChan, dumper, tmp, alive>>
  BY <1>11 DEF NotAhead, Snapshots
<1>12. \/ Match \/ SendClone \/ DumpCreate \/ DumpClose \/ DumpRename \/ DumpPrune \/ Crash
       \/ Restart \/ UNCHANGED <<files, book, snapshotChan, dumper, tmp, alive>>
  BY DEF Next, Loop, Dump, Upstream, PullSome, Pull, SendOrder, SendResult,
     SnapshotTick, SendMarker, onDisk, dumping, pulling, vars
<1>13. QED
  BY <1>3, <1>4, <1>5, <1>6, <1>7, <1>8, <1>9, <1>10, <1>11, <1>12

\* The numbers in all this.
LEMMA ReplayType ==
  ASSUME ReplayInv
  PROVE  /\ QuoteTypeOK /\ Queue /\ Positions /\ DeadIsEmpty /\ IInv /\ Clocks
         /\ quotation.maxId \in Nat /\ redis.maxId \in Nat /\ quoteFile.maxId \in Nat
         /\ book.fromId \in Nat
         /\ \A r \in table : r \in Nat \ {0} /\ WindowsOf[r] \subseteq Windows
<1>1. QuoteTypeOK /\ Queue /\ Positions /\ DeadIsEmpty /\ IInv /\ Clocks
  BY DEF ReplayInv, QuoteInv, QuotePart
<1>2. quotation.maxId \in Nat /\ redis.maxId \in Nat /\ quoteFile.maxId \in Nat
  BY <1>1, QuotationType DEF QuoteTypeOK
<1>3. /\ book.fromId \in Nat /\ table \subseteq Rows
      /\ \A r \in table : r \in Nat \ {0}
  BY <1>1, TableType
<1>4. QED
  BY <1>1, <1>2, <1>3, WindowsType

\* While quotes, Redis and the snapshots stay, only what is on its way matters.
LEMMA QuotesStay ==
  ASSUME ReplayInv, [Next]_vars,
         UNCHANGED <<table, alive, quotation, redis, quoteFile, snapshotTime, restored>>,
         redisCache \subseteq redisCache',
         alive => Expected' /\ Repeated'
  PROVE  Behind'
<1>1. \A r \in table : Fresh(r)' => Fresh(r)
  BY ReplayType, FreshBefore DEF IInv
<1>2. FileFull' /\ Full(redis)' /\ (alive => Full(quotation)')
  BY <1>1 DEF ReplayInv, Behind, Replaying, Full, FileFull, Has, Lost
<1>3. QED
  BY <1>2 DEF ReplayInv, Behind, Replaying, UpToId, Under, Marked, NothingNew

\* A new row is behind everything there is.
LEMMA UpstreamBehind ==
  ASSUME ReplayInv, NEW i \in Rows, Upstream(i),
         UNCHANGED <<mrChan, quotation, redisCache, redis, quoteFile, snapshotTime, restored>>
  PROVE  Behind'
<1>1. /\ table' = table \cup {i} /\ UNCHANGED <<files, book, loop, alive>>
      /\ \A r \in table : r < i
  BY DEF Upstream
<1>2. i \in Nat \ {0} /\ \A r \in table \cup {0} : r < i
  BY <1>1, LoopAssumption DEF Rows
<1>3. quotation.maxId < i /\ redis.maxId < i /\ quoteFile.maxId < i /\ book.fromId < i
  <2>1. book.fromId \in table \cup {0}
    BY ReplayType, TableType
  <2>2. QED
    BY <1>2, <2>1, ReplayType DEF Positions, Position
<1>4. /\ quotation.maxId \in Nat /\ redis.maxId \in Nat
      /\ quoteFile.maxId \in Nat /\ book.fromId \in Nat
  BY ReplayType
<1>5. \A r : Fresh(r)' <=> Fresh(r)
  BY <1>1 DEF Fresh, Snapshots
<1>6. FileFull' /\ Full(redis)'
  BY <1>1, <1>2, <1>3, <1>4, <1>5 DEF ReplayInv, Behind, Full, FileFull, Has, Lost
<1>7. alive => Full(quotation)'
  BY <1>1, <1>2, <1>3, <1>4, <1>5 DEF ReplayInv, Behind, Replaying, Full, FileFull, Has, Lost
<1>8. Expected => Expected'
  BY <1>1, <1>2, <1>3, <1>4, <1>5 DEF Expected, OnItsWay
<1>9. Repeated => Repeated'
  BY <1>1, <1>2, <1>3, <1>4 DEF Repeated, OnItsWay, Has, Lost
<1>10. QED
  BY <1>1, <1>6, <1>7, <1>8, <1>9
     DEF ReplayInv, Behind, Replaying, UpToId, Under, Marked, NothingNew

\* The row that is matched is the next one behind the book, and above all of
\* its snapshots: Redis has it if it is ahead.
LEMMA MatchBehind ==
  ASSUME ReplayInv, Match,
         UNCHANGED <<mrChan, quotation, redisCache, redis, quoteFile, snapshotTime, restored>>
  PROVE  Behind'
<1> DEFINE h == Head(ch)
<1>1. /\ UNCHANGED <<table, alive, files>> /\ alive /\ loop = "select" /\ loop' = "result"
      /\ ch # <<>> /\ book' = [fromId |-> h, rows |-> Append(book.rows, h)]
  BY DEF Match, onDisk
<1>2. IInv /\ InOrder /\ Coming /\ ch \in Seq(Rows) /\ Replaying /\ NotAhead /\ Full(redis)
  BY <1>1, ReplayType DEF IInv, TypeOK, ReplayInv, Behind
<1>3. h \in Range(ch) /\ \A r \in Range(ch) \ {h} : h < r
  BY <1>1, <1>2, TailIncreasing DEF InOrder
<1> HIDE DEF h
<1>4. h \in table /\ book.fromId < h /\ h < cursor
  BY <1>2, <1>3 DEF Coming
<1>5. \A r \in table : r \in Nat
  BY <1>2, TableType
<1>6. cursor \in Nat /\ book.fromId \in Nat
  BY <1>2, LoopAssumption, TableType DEF IInv, TypeOK
<1>7. \A r \in table : r <= h => r <= book.fromId \/ r = h
  <2> TAKE r \in table
  <2> SUFFICES ASSUME r <= h, ~(r <= book.fromId)
               PROVE  r = h
    OBVIOUS
  <2>1. r \in Range(ch) \cup Range(pulled)
    BY <1>2, <1>4, <1>5, <1>6 DEF Coming
  <2>2. CASE r \in Range(ch)
    BY <1>3, <1>4, <1>5, <2>2
  <2>3. CASE r \in Range(pulled)
    <3>1. h < r
      BY <1>2, <1>3, <2>3 DEF InOrder
    <3>2. QED
      BY <1>4, <1>5, <3>1
  <2>4. QED
    BY <2>1, <2>2, <2>3
<1>8. book'.fromId = h
  BY <1>1
<1>9. \A r : (Fresh(r)' <=> Fresh(r)) /\ (OnItsWay(r)' <=> r \in Range(mrChan) \/ r = h)
             /\ (OnItsWay(r) <=> r \in Range(mrChan))
  BY <1>1, <1>8 DEF Fresh, Snapshots, OnItsWay
<1>10. Expected'
  <2>1. Expected
    BY <1>2 DEF Replaying
  <2>2. QED
    BY <1>1, <1>7, <1>8, <1>9, <2>1 DEF Expected
<1>11. Fresh(h)
  <2>1. \A f \in Snapshots : f.fromId <= book.fromId /\ f.fromId \in Int
    BY <1>1, <1>2, LoopAssumption DEF NotAhead, IInv, TypeOK, File, Snapshots
  <2>2. QED
    BY <1>4, <1>5, <1>6, <2>1 DEF Fresh
<1>12. Repeated'
  <2>1. Repeated
    BY <1>2 DEF Replaying
  <2>2. h <= redis.maxId => Has(redis.klines, h)
    BY <1>2, <1>4, <1>11 DEF Full
  <2>3. QED
    BY <1>1, <1>9, <2>1, <2>2 DEF Repeated, Has, Lost
<1>13. [Next]_vars
  BY DEF Next, Loop
<1>14. QED
  BY <1>1, <1>10, <1>12, <1>13, QuotesStay

\* Steps that leave the book and what waits for the quotes.
LEMMA SameOnItsWay ==
  ASSUME ReplayInv, [Next]_vars,
         UNCHANGED <<table, alive, book, quotation, redis, quoteFile, snapshotTime, restored>>,
         redisCache \subseteq redisCache',
         alive => \A r \in table : OnItsWay(r)' <=> OnItsWay(r)
  PROVE  Behind'
<1>1. \A r \in table : Fresh(r)' => Fresh(r)
  BY ReplayType, FreshBefore DEF IInv
<1>2. ASSUME alive
      PROVE  Expected' /\ Repeated'
  <2>1. Expected /\ Repeated
    BY <1>2 DEF ReplayInv, Behind, Replaying
  <2>2. QED
    BY <1>1, <1>2, <2>1 DEF Expected, Repeated, Has, Lost
<1>3. QED
  BY <1>2, QuotesStay

\* The matcher's side.
LEMMA LoopBehind ==
  ASSUME ReplayInv, Elsewhere \/ SendToQuotes \/ SendQuoteMarker
  PROVE  Behind'
<1>0. [Next]_vars
  BY DEF Elsewhere, SendToQuotes, SendQuoteMarker, Next, Loop
<1>1. CASE Elsewhere
  <2>1. UNCHANGED <<mrChan, quotation, redisCache, redis, quoteFile, snapshotTime, restored>>
    BY <1>1 DEF Elsewhere, memory, saved, restarts
  <2>2. CASE \E i \in Rows : TimeOf[i] <= clock /\ Upstream(i)
    BY <2>1, <2>2, UpstreamBehind
  <2>3. CASE Match
    BY <2>1, <2>3, MatchBehind
  <2>4. CASE PullSome \/ SendOrder \/ SnapshotTick \/ SendClone \/ Dump
    <3>1. /\ UNCHANGED <<table, alive, book>>
          /\ loop' = loop \/ (loop # "result" /\ loop' # "result")
      BY <2>4 DEF PullSome, Pull, SendOrder, SnapshotTick, SendClone, Dump,
         DumpCreate, DumpClose, DumpRename, DumpPrune, onDisk
    <3>2. \A r \in table : OnItsWay(r)' <=> OnItsWay(r)
      BY <2>1, <3>1 DEF OnItsWay
    <3>3. QED
      BY <1>0, <2>1, <3>1, <3>2, SameOnItsWay
  <2>5. QED
    BY <1>1, <2>2, <2>3, <2>4 DEF Elsewhere
<1>2. ASSUME SendToQuotes \/ SendQuoteMarker,
             NEW e \in Rows \cup {Marker}, mrChan' = Append(mrChan, e)
      PROVE  \A r : r \in Range(mrChan') <=> r \in Range(mrChan) \cup {e}
  <2> DEFINE q == Append(mrChan, e)
             n == Len(mrChan)
  <2>1. /\ n \in Nat /\ DOMAIN mrChan = 1 .. n /\ DOMAIN q = 1 .. n + 1
        /\ \A k \in 1 .. n : q[k] = mrChan[k]
        /\ q[n + 1] = e
        /\ \A r \in Range(mrChan) \cup {e} : r \in Range(q)
    BY PutIntoQueue, ReplayType
  <2> HIDE DEF q, n
  <2>2. ASSUME NEW r \in Range(q)
        PROVE  r \in Range(mrChan) \cup {e}
    <3>1. PICK k \in 1 .. n + 1 : r = q[k]
      BY <2>1 DEF Range
    <3>2. k \in 1 .. n \/ k = n + 1
      BY <2>1
    <3>3. QED
      BY <2>1, <3>1, <3>2 DEF Range
  <2>3. QED
    BY <1>2, <2>1, <2>2 DEF q
<1>3. CASE SendToQuotes
  <2>1. /\ UNCHANGED <<table, alive, book, quotation, redisCache, redis, quoteFile,
                       snapshotTime, restored>>
        /\ loop = "result" /\ loop' = "select" /\ mrChan' = Append(mrChan, book.fromId)
    BY <1>3 DEF SendToQuotes, SendResult, onDisk, memory, saved, restarts
  <2>2. book.fromId \in Rows
    BY <2>1, ReplayType, TableType DEF Queue
  <2>3. \A r \in table : OnItsWay(r)' <=> OnItsWay(r)
    BY <1>2, <1>3, <2>1, <2>2 DEF OnItsWay
  <2>4. QED
    BY <1>0, <2>1, <2>3, SameOnItsWay
<1>4. CASE SendQuoteMarker
  <2>1. /\ UNCHANGED <<table, alive, book, quotation, redisCache, redis, quoteFile,
                       snapshotTime, restored>>
        /\ loop = "marker" /\ loop' = "select" /\ mrChan' = Append(mrChan, Marker)
    BY <1>4 DEF SendQuoteMarker, SendMarker, onDisk, memory, saved, restarts
  <2>2. \A r \in table : OnItsWay(r)' <=> OnItsWay(r)
    <3>1. \A r \in table : r # Marker
      BY ReplayType DEF Marker
    <3>2. QED
      BY <1>2, <1>4, <2>1, <3>1 DEF OnItsWay
  <2>3. QED
    BY <1>0, <2>1, <2>2, SameOnItsWay
<1>5. QED
  BY <1>1, <1>3, <1>4

\* Nothing that comes again and is new to the quotes is between them and the
\* first entry.
LEMMA FreshIsNext ==
  ASSUME ReplayInv, alive, mrChan # <<>>, Head(mrChan) # Marker,
         quotation.maxId < Head(mrChan),
         NEW r \in table, Fresh(r), r <= Head(mrChan), ~(r <= quotation.maxId)
  PROVE  r = Head(mrChan)
<1> DEFINE i == Head(mrChan)
           n == Len(mrChan)
<1>1. n \in Nat \ {0} /\ DOMAIN mrChan = 1 .. n /\ i = mrChan[1]
  BY ReplayType, TailOfQueue
<1>2. Queue /\ Expected
  BY ReplayType DEF ReplayInv, Behind, Replaying
<1> HIDE DEF i, n
<1>3. r \in Nat \ {0} /\ quotation.maxId \in Nat /\ book.fromId \in Nat
  BY ReplayType
<1>4. 1 \in DOMAIN mrChan /\ i \in table /\ i <= book.fromId
      /\ (loop = "result" => i < book.fromId)
  BY <1>1, <1>2 DEF Queue, i
<1>5. i \in Nat
  BY <1>4, ReplayType
<1>6. quotation.maxId < r /\ r <= book.fromId /\ (loop = "result" => r < book.fromId)
  BY <1>3, <1>4, <1>5 DEF i
<1>7. r \in Range(mrChan)
  BY <1>2, <1>3, <1>6 DEF Expected, OnItsWay
<1>8. PICK k \in 1 .. n : r = mrChan[k]
  BY <1>1, <1>7 DEF Range
<1>9. CASE k = 1
  BY <1>1, <1>8, <1>9 DEF i
<1>10. CASE k # 1
  <2>1. 1 < k /\ k \in DOMAIN mrChan
    BY <1>1, <1>10
  <2>2. i < r
    BY <1>1, <1>2, <1>3, <1>4, <1>8, <2>1 DEF Queue, Marker, i
  <2>3. QED
    BY <1>3, <1>5, <2>2 DEF i
<1>11. QED
  BY <1>9, <1>10

\* The first entry is gone: of what is on its way only it is not any more.
LEMMA FirstIsGone ==
  ASSUME ReplayInv, mrChan # <<>>, mrChan' = Tail(mrChan), UNCHANGED <<table, book, loop>>
  PROVE  \A r \in table : /\ OnItsWay(r)' => OnItsWay(r)
                          /\ OnItsWay(r) /\ r # Head(mrChan) => OnItsWay(r)'
<1>1. QuoteTypeOK /\ Queue
  BY ReplayType
<1>2. \A r \in Range(mrChan) : r = Head(mrChan) \/ r \in Range(mrChan')
  BY <1>1, TakenFromQueue
<1>3. ASSUME NEW r \in Range(mrChan')
      PROVE  r \in Range(mrChan)
  <2>1. /\ Len(mrChan) \in Nat \ {0} /\ DOMAIN mrChan = 1 .. Len(mrChan)
        /\ DOMAIN Tail(mrChan) = 1 .. Len(mrChan) - 1
        /\ \A k \in 1 .. Len(mrChan) - 1 : Tail(mrChan)[k] = mrChan[k + 1]
    BY <1>1, TailOfQueue
  <2>2. PICK k \in 1 .. Len(mrChan) - 1 : r = Tail(mrChan)[k]
    BY <1>3, <2>1 DEF Range
  <2>3. k + 1 \in DOMAIN mrChan /\ r = mrChan[k + 1]
    BY <2>1, <2>2
  <2>4. QED
    BY <2>3 DEF Range
<1>4. QED
  BY <1>2, <1>3 DEF OnItsWay

\* A result that comes again is dropped, one that is new completes the klines.
LEMMA QuoteBehind ==
  ASSUME ReplayInv, Quote
  PROVE  Behind'
<1> DEFINE i == Head(mrChan)
<1>1. /\ UNCHANGED <<table, alive, book, loop, files, redis, quoteFile, snapshotTime, restored>>
      /\ alive /\ mrChan # <<>> /\ i # Marker /\ mrChan' = Tail(mrChan)
  BY DEF Quote, vars, saved, restarts
<1>2. Behind /\ Replaying
  BY <1>1 DEF ReplayInv, Behind
<1>3. i \in table /\ OnItsWay(i)
  <2>1. 1 \in DOMAIN mrChan /\ i = mrChan[1]
    BY <1>1, ReplayType, TailOfQueue
  <2>2. QED
    BY <1>1, <2>1, ReplayType DEF Queue, OnItsWay, Range
<1>4. /\ i \in Nat /\ WindowsOf[i] \subseteq Windows
      /\ quotation.maxId \in Nat /\ quoteFile.maxId \in Nat /\ redis.maxId \in Nat
      /\ \A r \in table : r \in Nat
  BY <1>3, ReplayType
<1>5. \A r : Fresh(r)' <=> Fresh(r)
  BY <1>1 DEF Fresh, Snapshots
<1>6. \A r \in table : /\ OnItsWay(r)' => OnItsWay(r)
                       /\ OnItsWay(r) /\ r # i => OnItsWay(r)'
  BY <1>1, FirstIsGone
<1>7. FileFull' /\ Full(redis)'
  BY <1>1, <1>2, <1>5 DEF Behind, Full, FileFull, Has, Lost
<1>8. CASE i <= quotation.maxId
  <2>1. UNCHANGED <<quotation, redisCache>>
    BY <1>8 DEF Quote, memory
  <2>2. Expected'
    BY <1>1, <1>2, <1>4, <1>5, <1>6, <1>8, <2>1 DEF Replaying, Expected
  <2>3. Repeated'
    BY <1>1, <1>2, <1>6, <2>1 DEF Replaying, Repeated, Has, Lost
  <2>4. Full(quotation)'
    BY <1>1, <1>2, <1>5, <2>1 DEF Replaying, Full, FileFull, Has, Lost
  <2>5. QED
    BY <1>1, <1>2, <1>7, <2>1, <2>2, <2>3, <2>4
       DEF Behind, Replaying, UpToId, Under, Marked, NothingNew
<1>9. CASE ~(i <= quotation.maxId)
  <2> DEFINE k == Updated(WindowsOf[i], i)
  <2>1. /\ quotation' = [maxId |-> i, klines |-> k]
        /\ redisCache \subseteq redisCache' /\ WindowsOf[i] \subseteq redisCache'
    BY <1>9 DEF Quote, Drawn, LookedFor
  <2>2. /\ quotation'.maxId = i /\ quotation'.klines = k
        /\ \A w \in Windows :
             k[w] = quotation.klines[w] \cup (IF w \in WindowsOf[i] THEN {i} ELSE {})
    BY <2>1 DEF Updated
  <2> HIDE DEF k
  <2>3. quotation.maxId < i
    BY <1>4, <1>9
  <2>4. UpToId(quotation)'
    <3>1. \A w \in Windows : \A r \in quotation.klines[w] : r \in Nat /\ r <= quotation.maxId
      <4>1. \A w \in Windows : quotation.klines[w] \subseteq Rows
        BY ReplayType, QuotationType DEF QuoteTypeOK
      <4>2. QED
        BY <1>2, <4>1, LoopAssumption DEF Behind, UpToId, Rows
    <3>2. \A w \in Windows : \A r \in k[w] : r \in quotation.klines[w] \/ r = i
      BY <2>2
    <3>3. QED
      BY <1>4, <2>2, <2>3, <3>1, <3>2 DEF UpToId
  <2>5. Full(quotation)'
    <3> SUFFICES ASSUME NEW r \in table, Fresh(r), r <= i, NEW w \in WindowsOf[r]
                 PROVE  r \in k[w] \/ Lost(r, w)
      BY <1>1, <1>5, <2>2 DEF Full, Has, Lost
    <3>1. w \in Windows
      BY ReplayType
    <3>2. CASE r <= quotation.maxId
      BY <1>2, <2>2, <3>1, <3>2 DEF Replaying, Full, Has
    <3>3. CASE ~(r <= quotation.maxId)
      <4>1. r = i
        BY <1>1, <2>3, <3>3, FreshIsNext
      <4>2. QED
        BY <2>2, <3>1, <4>1
    <3>4. QED
      BY <3>2, <3>3
  <2>6. Under(quoteFile, quotation)'
    <3>1. Under(quoteFile, quotation)
      BY <1>2 DEF Replaying
    <3>2. quoteFile.maxId <= i
      BY <1>4, <2>3, <3>1 DEF Under
    <3>3. QED
      BY <1>1, <2>2, <3>1, <3>2 DEF Under
  <2>7. Marked'
    <3>1. ASSUME NEW w \in Windows \ redisCache'
          PROVE  k[w] \subseteq redis.klines[w]
      <4>1. w \in Windows \ redisCache /\ w \notin WindowsOf[i]
        BY <2>1
      <4>2. k[w] = quotation.klines[w]
        BY <2>2, <4>1
      <4>3. QED
        BY <1>2, <4>1, <4>2 DEF Replaying, Marked
    <3>2. QED
      BY <1>1, <2>2, <3>1 DEF Marked
  <2>8. Expected'
    <3> SUFFICES ASSUME NEW r \in table, Fresh(r), i < r, r <= book.fromId
                 PROVE  OnItsWay(r)'
      BY <1>1, <1>5, <2>2 DEF Expected
    <3>1. quotation.maxId < r /\ r # i
      BY <1>4, <2>3
    <3>2. QED
      BY <1>2, <1>6, <3>1 DEF Replaying, Expected
  <2>9. Repeated'
    <3> SUFFICES ASSUME NEW r \in table, OnItsWay(r)', i < r, r <= redis.maxId
                 PROVE  Has(redis.klines, r)
      BY <1>1, <2>2 DEF Repeated, Has, Lost
    <3>1. quotation.maxId < r
      BY <1>4, <2>3
    <3>2. QED
      BY <1>2, <1>6, <3>1 DEF Replaying, Repeated
  <2>10. NothingNew'
    <3> SUFFICES ASSUME NEW w \in Windows, NEW r \in k[w], r <= redis.maxId
                 PROVE  r \in redis.klines[w]
      BY <1>1, <2>2 DEF NothingNew
    <3>1. r \in quotation.klines[w] \/ (r = i /\ w \in WindowsOf[i])
      BY <2>2
    <3>2. r = i => Has(redis.klines, i)
      BY <1>2, <1>3, <2>3 DEF Replaying, Repeated
    <3>3. ~Lost(i, w)
      BY <1>1, <1>4, <2>3, ReplayType, NewNotLost
    <3>4. QED
      BY <1>2, <3>1, <3>2, <3>3 DEF Replaying, NothingNew, Has
  <2>11. QED
    BY <1>1, <1>2, <1>7, <2>4, <2>5, <2>6, <2>7, <2>8, <2>9, <2>10
       DEF Behind, Replaying, UpToId, Under
<1>10. QED
  BY <1>8, <1>9

\* Redis with the klines of ws as in memory has all that a snapshot has, and
\* what it had or memory has of each result.
LEMMA OverwrittenHolds ==
  ASSUME ReplayInv, alive, NEW ws \in SUBSET Windows, NEW o, o = Overwritten(ws)
  PROVE  /\ \A w \in Windows : quoteFile.klines[w] \subseteq o[w]
         /\ \A i \in table : Fresh(i) /\ i <= quotation.maxId /\ i <= redis.maxId => Has(o, i)
         /\ \A w \in Windows : \A i \in quotation.klines[w] : i <= redis.maxId => i \in o[w]
         /\ \A w \in Windows \ redisCache : quotation.klines[w] \subseteq o[w]
<1>1. /\ \A w \in ws : o[w] = quotation.klines[w]
      /\ \A w \in Windows \ ws : o[w] = redis.klines[w]
  BY ReplayType, OverwrittenType
<1>2. Behind /\ Replaying
  BY DEF ReplayInv, Behind
<1>3. \A w \in Windows : quoteFile.klines[w] \subseteq o[w]
  BY <1>1, <1>2 DEF Behind, Replaying, Under
<1>4. \A i \in table : Fresh(i) /\ i <= quotation.maxId /\ i <= redis.maxId => Has(o, i)
  BY <1>1, <1>2, ReplayType DEF Behind, Replaying, Full, Has
<1>5. \A w \in Windows : \A i \in quotation.klines[w] : i <= redis.maxId => i \in o[w]
  BY <1>1, <1>2 DEF Replaying, NothingNew
<1>6. \A w \in Windows \ redisCache : quotation.klines[w] \subseteq o[w]
  BY <1>1, <1>2 DEF Replaying, Marked
<1>7. QED
  BY <1>3, <1>4, <1>5, <1>6

\* Time passes, and the windows of now get their klines.
LEMMA LookedForBehind ==
  ASSUME ReplayInv, Tick \/ CheckKlines
  PROVE  Behind'
<1>1. /\ UNCHANGED <<table, alive, book, loop, mrChan, quotation, redis, quoteFile,
                     snapshotTime, restored>>
      /\ redisCache \subseteq redisCache' /\ UNCHANGED vars
  BY DEF Tick, CheckKlines, LookedFor, vars, memory, saved, restarts
<1>2. \A r \in table : OnItsWay(r)' <=> OnItsWay(r)
  BY <1>1 DEF OnItsWay
<1>3. QED
  BY <1>1, <1>2, SameOnItsWay

\* What a save leaves in Redis, whether it succeeds or not.
WellSaved ==
  /\ Full(redis)' /\ Under(quoteFile, redis') /\ redis.maxId <= redis'.maxId
  /\ \A w \in Windows \ redisCache' : quotation.klines[w] \subseteq redis'.klines[w]
  /\ \A w \in Windows : \A i \in quotation.klines[w] :
       i <= redis'.maxId => i \in redis'.klines[w]
  /\ \A r \in table : OnItsWay(r) /\ quotation.maxId < r /\ r <= redis'.maxId =>
       Has(redis'.klines, r)

\* All that is in memory is in Redis at its position.
LEMMA AllSaved ==
  ASSUME ReplayInv, alive, UNCHANGED <<table, files, restored>>,
         NEW cache \in SUBSET Windows, redisCache \subseteq cache, redis.maxId <= quotation.maxId,
         redis' = [maxId |-> quotation.maxId, klines |-> Overwritten(cache)]
  PROVE  WellSaved /\ \A w \in Windows : quotation.klines[w] \subseteq redis'.klines[w]
<1> DEFINE o == Overwritten(cache)
<1>1. redis'.maxId = quotation.maxId /\ redis'.klines = o
  OBVIOUS
<1>2. \A r \in table : WindowsOf[r] \subseteq Windows
  BY ReplayType
<1>3. /\ \A w \in Windows : quoteFile.klines[w] \subseteq o[w]
      /\ \A w \in Windows \ redisCache : quotation.klines[w] \subseteq o[w]
      /\ \A w \in cache : o[w] = quotation.klines[w]
  BY OverwrittenHolds, OverwrittenType, ReplayType
<1> HIDE DEF o
<1>4. \A w \in Windows : quotation.klines[w] \subseteq redis'.klines[w]
  BY <1>1, <1>3
<1>5. Behind /\ Replaying
  BY DEF ReplayInv, Behind
<1>6. Full(redis)'
  <2>1. \A r : Fresh(r)' <=> Fresh(r)
    BY DEF Fresh, Snapshots
  <2>2. QED
    BY <1>1, <1>2, <1>4, <1>5, <2>1 DEF Replaying, Full, Has, Lost
<1>7. Under(quoteFile, redis')
  BY <1>1, <1>3, <1>5 DEF Replaying, Under
<1>8. \A r \in table : ~(quotation.maxId < r /\ r <= redis'.maxId)
  BY <1>1, ReplayType
<1>9. QED
  BY <1>1, <1>4, <1>6, <1>7, <1>8 DEF WellSaved

\* Nothing is written.
LEMMA NothingSaved ==
  ASSUME ReplayInv, alive, UNCHANGED <<table, files, redis, restored>>,
         redisCache \subseteq redisCache' \/ redis.maxId > quotation.maxId
  PROVE  /\ WellSaved
         /\ redis.maxId > quotation.maxId =>
              \A w \in Windows : quotation.klines[w] \subseteq redis'.klines[w]
<1>1. Behind /\ Replaying
  BY DEF ReplayInv, Behind
<1>2. Full(redis)'
  <2>1. \A r : Fresh(r)' <=> Fresh(r)
    BY DEF Fresh, Snapshots
  <2>2. QED
    BY <1>1, <2>1 DEF Behind, Full, FileFull, Has, Lost
<1>3. ASSUME redis.maxId > quotation.maxId, NEW w \in Windows, NEW i \in quotation.klines[w]
      PROVE  i \in redis.klines[w]
  <2>1. i \in Rows /\ i <= quotation.maxId
    <3>1. i \in Rows
      BY <1>3, ReplayType, QuotationType DEF QuoteTypeOK
    <3>2. QED
      BY <1>1, <1>3, <3>1 DEF Behind, UpToId
  <2>2. i <= redis.maxId
    BY <1>3, <2>1, ReplayType, LoopAssumption DEF Rows
  <2>3. QED
    BY <1>1, <1>3, <2>2 DEF Replaying, NothingNew
<1>4. \A w \in Windows \ redisCache' : quotation.klines[w] \subseteq redis'.klines[w]
  BY <1>1, <1>3 DEF Replaying, Marked
<1>5. redis.maxId <= redis'.maxId
  BY ReplayType
<1>6. QED
  BY <1>1, <1>2, <1>3, <1>4, <1>5 DEF WellSaved, Behind, Replaying, NothingNew, Repeated, Has

\* A save that succeeds, and one that fails.
LEMMA SavesWell ==
  ASSUME ReplayInv, alive, UNCHANGED <<table, files, restored>>,
         NEW cache \in SUBSET Windows, redisCache \subseteq cache,
         Saved(cache) \/ (SaveFailed(cache) /\ ~CommandsFail)
  PROVE  /\ WellSaved
         /\ Saved(cache) =>
              /\ \A w \in Windows : quotation.klines[w] \subseteq redis'.klines[w]
              /\ quotation.maxId <= redis'.maxId
<1>1. redis.maxId \in Nat /\ quotation.maxId \in Nat
  BY ReplayType
<1>2. CASE Saved(cache)
  <2>1. CASE redis.maxId > quotation.maxId
    BY <1>1, <1>2, <2>1, NothingSaved DEF Saved
  <2>2. CASE redis.maxId <= quotation.maxId
    <3>1. redis' = [maxId |-> quotation.maxId, klines |-> Overwritten(cache)]
      BY <1>1, <1>2, <2>2 DEF Saved
    <3>2. quotation.maxId <= redis'.maxId
      BY <1>1, <3>1
    <3>3. QED
      BY <2>2, <3>1, <3>2, AllSaved
  <2>3. QED
    BY <1>1, <2>1, <2>2
<1>3. CASE SaveFailed(cache) /\ ~CommandsFail /\ ~Saved(cache)
  <2>1. redisCache \subseteq redisCache' /\ redisCache' = cache
    BY <1>3 DEF SaveFailed
  <2>2. CASE UNCHANGED redis
    BY <1>3, <2>1, <2>2, NothingSaved
  <2>3. CASE /\ redis.maxId <= quotation.maxId
             /\ redis' = [maxId |-> quotation.maxId, klines |-> Overwritten(cache)]
    BY <1>3, <2>3, AllSaved
  <2>4. CASE /\ redis.maxId <= quotation.maxId
             /\ \E ws \in SUBSET cache : redis' = [redis EXCEPT !.klines = Overwritten(ws)]
    <3>1. PICK ws \in SUBSET cache : redis' = [redis EXCEPT !.klines = Overwritten(ws)]
      BY <2>4
    <3>2. ws \in SUBSET Windows /\ redis \in Quotation
      BY ReplayType DEF QuoteTypeOK
    <3> DEFINE o == Overwritten(ws)
    <3>3. redis'.maxId = redis.maxId /\ redis'.klines = o
      BY <3>1, <3>2 DEF Quotation
    <3>4. /\ \A w \in Windows : quoteFile.klines[w] \subseteq o[w]
          /\ \A i \in table : Fresh(i) /\ i <= quotation.maxId /\ i <= redis.maxId => Has(o, i)
          /\ \A w \in Windows : \A i \in quotation.klines[w] : i <= redis.maxId => i \in o[w]
          /\ \A w \in Windows \ redisCache : quotation.klines[w] \subseteq o[w]
      BY <3>2, OverwrittenHolds
    <3> HIDE DEF o
    <3>5. \A r : Fresh(r)' <=> Fresh(r)
      BY DEF Fresh, Snapshots
    <3>6. Full(redis)'
      <4>1. \A r \in table : r <= redis.maxId => r <= quotation.maxId
        BY <1>1, <2>4, ReplayType
      <4>2. QED
        BY <3>3, <3>4, <3>5, <4>1 DEF Full, FileFull, Has, Lost
    <3>7. Under(quoteFile, redis') /\ redis.maxId <= redis'.maxId
      BY <1>1, <3>3, <3>4 DEF ReplayInv, Behind, Under
    <3>8. \A r \in table : ~(quotation.maxId < r /\ r <= redis'.maxId)
      BY <1>1, <2>4, <3>3, ReplayType
    <3>9. QED
      BY <1>3, <2>1, <3>3, <3>4, <3>6, <3>7, <3>8 DEF WellSaved
  <2>5. QED
    BY <1>3, <2>2, <2>3, <2>4 DEF SaveFailed
<1>4. QED
  BY <1>2, <1>3

\* The steps that save.
LEMMA SaveBehind ==
  ASSUME ReplayInv, ~CommandsFail,
         SaveTick \/ SaveTickFailed \/ QuoteSnapshot \/ QuoteSnapshotSkipped
  PROVE  Behind'
<1>1. UNCHANGED <<table, files, alive, book, loop, clock, quotation, restored>> /\ alive
  BY DEF SaveTick, SaveTickFailed, QuoteSnapshot, QuoteSnapshotSkipped, SnapshotDue, vars,
     saved, restarts
<1>2. /\ redisCache \in SUBSET Windows /\ redisCache \cup Missing \in SUBSET Windows
      /\ redisCache \subseteq redisCache \cup Missing
  BY ReplayType, MarksType DEF QuoteTypeOK
<1>3. /\ WellSaved
      /\ QuoteSnapshot => /\ \A w \in Windows : quotation.klines[w] \subseteq redis'.klines[w]
                          /\ quotation.maxId <= redis'.maxId
  <2>1. CASE SaveTick \/ SaveTickFailed
    BY <1>1, <1>2, <2>1, SavesWell DEF SaveTick, SaveTickFailed, QuoteSnapshot, SnapshotDue
  <2>2. CASE QuoteSnapshot \/ QuoteSnapshotSkipped
    BY <1>1, <1>2, <2>2, SavesWell DEF QuoteSnapshot, QuoteSnapshotSkipped
  <2>3. QED
    BY <2>1, <2>2
<1>4. Behind /\ Replaying
  BY <1>1 DEF ReplayInv, Behind
<1>5. \A r : Fresh(r)' <=> Fresh(r)
  BY <1>1 DEF Fresh, Snapshots
<1>6. \A r \in table : OnItsWay(r)' <=> OnItsWay(r)
  <2>1. CASE UNCHANGED mrChan
    BY <1>1, <2>1 DEF OnItsWay
  <2>2. CASE mrChan # <<>> /\ Head(mrChan) = Marker /\ mrChan' = Tail(mrChan)
    BY <1>1, <2>2, FirstIsGone, ReplayType DEF Marker
  <2>3. QED
    BY <2>1, <2>2
       DEF SaveTick, SaveTickFailed, QuoteSnapshot, QuoteSnapshotSkipped, SnapshotDue
<1>7. Full(quotation)' /\ Expected' /\ UpToId(quotation)'
  BY <1>1, <1>4, <1>5, <1>6 DEF Behind, Replaying, Full, Has, Lost, Expected, UpToId
<1>8. Marked' /\ NothingNew' /\ Repeated' /\ Full(redis)'
  BY <1>1, <1>3, <1>6 DEF WellSaved, Marked, NothingNew, Repeated, Has, Lost
<1>9. /\ FileFull' /\ UpToId(quoteFile)'
      /\ Under(quoteFile, redis)' /\ Under(quoteFile, quotation)'
  <2>1. CASE UNCHANGED <<quoteFile, snapshotTime>>
    BY <1>1, <1>3, <1>4, <1>5, <2>1 DEF Behind, Replaying, WellSaved, FileFull, UpToId, Under
  <2>2. CASE QuoteSnapshot
    <3>1. /\ quoteFile'.maxId = quotation.maxId
          /\ \A w \in Windows : quoteFile'.klines[w] =
               IF w \in WindowsAt[clock] THEN quotation.klines[w] ELSE {}
          /\ snapshotTime' = clock
      BY <2>2, OfNowType, ReplayType DEF QuoteSnapshot
    <3>2. quotation.maxId <= quotation.maxId
      BY ReplayType
    <3>3. FileFull'
      <4> SUFFICES ASSUME NEW i \in table, Fresh(i), i <= quotation.maxId,
                          NEW w \in WindowsOf[i], w \in WindowsAt[clock]
                   PROVE  i \in quoteFile'.klines[w]
        BY <1>1, <1>5, <3>1 DEF FileFull
      <4>1. clock \in 0 .. MaxTime /\ restored.at <= clock
        BY ReplayType, ClockType DEF Clocks
      <4>2. ~Lost(i, w)
        BY <4>1, ReplayType, NotLost
      <4>3. w \in Windows
        BY ReplayType
      <4>4. QED
        BY <1>4, <3>1, <4>2, <4>3 DEF Replaying, Full, Has
    <3>4. UpToId(quoteFile)'
      BY <1>4, <3>1 DEF Behind, UpToId
    <3>5. QED
      BY <1>1, <1>3, <2>2, <3>1, <3>2, <3>3, <3>4 DEF Under
  <2>3. QED
    BY <2>1, <2>2 DEF SaveTick, SaveTickFailed, QuoteSnapshotSkipped, saved
<1>10. QED
  BY <1>1, <1>7, <1>8, <1>9 DEF Behind, Replaying

\* A crash leaves the files and Redis; what comes again after the restart is
\* above the snapshot that the book starts from.
LEMMA CrashBehind ==
  ASSUME ReplayInv, CrashQuotes \/ RestartQuotes
  PROVE  Behind'
<1>1. UNCHANGED <<table, files, redis, quoteFile, snapshotTime>>
  BY DEF CrashQuotes, Crash, RestartQuotes, Restart, onDisk, saved
<1>2. \A r : Fresh(r)' <=> Fresh(r)
  BY <1>1 DEF Fresh, Snapshots
<1>3. /\ FileFull' /\ Full(redis)' /\ Under(quoteFile, redis)'
      /\ UpToId(quoteFile)' /\ Behind
  <2>1. Behind
    BY DEF ReplayInv
  <2>2. \A i \in table : \A w \in WindowsOf[i] : Lost(i, w) => Lost(i, w)'
    <3>1. CASE CrashQuotes
      BY <3>1 DEF CrashQuotes, restarts, Lost
    <3>2. CASE RestartQuotes
      BY <3>2, LostStays, ReplayType
    <3>3. QED
      BY <3>1, <3>2
  <2>3. Full(redis)'
    BY <1>1, <1>2, <2>1, <2>2 DEF Behind, Full, Has
  <2>4. QED
    BY <1>1, <1>2, <2>1, <2>3 DEF Behind, FileFull, Under, UpToId
<1>4. CASE CrashQuotes
  <2>1. quotation' = NoQuotes /\ ~alive'
    BY <1>4 DEF CrashQuotes, Crash
  <2>2. UpToId(quotation)'
    BY <2>1 DEF UpToId, NoQuotes
  <2>3. QED
    BY <1>3, <2>1, <2>2 DEF Behind
<1>5. CASE RestartQuotes
  <2>1. /\ ~alive /\ loop' = "select" /\ mrChan' = <<>> /\ redisCache' = {}
        /\ quotation' = quoteFile
        /\ restored' = [maxId |-> quoteFile.maxId, at |-> snapshotTime]
    BY <1>5, ReplayType DEF RestartQuotes, Restart, RestartWith, Started, DeadIsEmpty
  <2>2. /\ UpToId(quotation)' /\ Full(quotation)' /\ Under(quoteFile, quotation)'
    <3>1. quoteFile.maxId <= quoteFile.maxId
      BY ReplayType
    <3>2. \A i, w : Lost(i, w)' <=> i <= quoteFile.maxId /\ w \notin WindowsAt[snapshotTime]
      BY <2>1 DEF Lost
    <3>3. Full(quotation)'
      BY <1>1, <1>3, <2>1, <3>2 DEF FileFull, Full, Has
    <3>4. QED
      BY <1>1, <1>3, <2>1, <3>1, <3>3 DEF UpToId, Under
  <2>3. Marked' /\ NothingNew'
    BY <1>1, <1>3, <2>1 DEF Marked, NothingNew, Behind, Under
  <2>4. \A r : ~OnItsWay(r)'
    <3>1. DOMAIN mrChan' = {}
      <4>1. DOMAIN <<>> = {}
        OBVIOUS
      <4>2. QED
        BY <2>1, <4>1
    <3>2. QED
      BY <2>1, <3>1 DEF OnItsWay, Range
  <2>5. ASSUME NEW r \in table, Fresh(r), r <= book'.fromId
        PROVE  FALSE
    <3>1. \/ book' = EmptyBook
          \/ \E f \in files : Newest(f) /\ book' = [fromId |-> f.fromId, rows |-> f.rows]
      BY <1>5 DEF RestartQuotes, Restart, RestartWith, Started
    <3>2. r \in Nat \ {0}
      BY ReplayType
    <3>3. CASE book' = EmptyBook
      BY <2>5, <3>2, <3>3 DEF EmptyBook
    <3>4. CASE \E f \in files : Newest(f) /\ book' = [fromId |-> f.fromId, rows |-> f.rows]
      <4>1. PICK f \in files : Newest(f) /\ book' = [fromId |-> f.fromId, rows |-> f.rows]
        BY <3>4
      <4>2. f.fromId < r /\ book'.fromId = f.fromId
        BY <2>5, <4>1 DEF Newest, Fresh
      <4>3. f.fromId \in Nat
        BY <4>1, ReplayType, LoopAssumption DEF IInv, TypeOK, File
      <4>4. QED
        BY <2>5, <3>2, <4>2, <4>3
    <3>5. QED
      BY <3>1, <3>3, <3>4
  <2>6. Expected' /\ Repeated'
    BY <1>1, <1>2, <2>4, <2>5 DEF Expected, Repeated
  <2>7. QED
    BY <1>3, <2>2, <2>3, <2>6 DEF Behind, Replaying
<1>6. QED
  BY <1>4, <1>5

\* All of this holds at the beginning.
LEMMA ReplayInitInv ==
  ASSUME QuoteInit
  PROVE  ReplayInv
<1>1. /\ table = {} /\ files = {} /\ dumper = "idle" /\ snapshotChan = <<>>
      /\ quotation = NoQuotes /\ redis = NoQuotes /\ quoteFile = NoQuotes
  BY DEF QuoteInit, Init
<1>2. QuoteInv
  BY QuoteInitInv
<1>3. DOMAIN snapshotChan = {}
  BY <1>1
<1>4. NotAhead
  BY <1>1, <1>3 DEF NotAhead, Snapshots
<1>5. NoQuotes.maxId <= NoQuotes.maxId /\ \A w \in Windows : NoQuotes.klines[w] = {}
  BY NoQuotesType DEF NoQuotes
<1>6. Behind
  BY <1>1, <1>5
     DEF Behind, Replaying, UpToId, Full, FileFull, Under, Marked, Expected, Repeated, NothingNew
<1>7. QED
  BY <1>2, <1>4, <1>6 DEF ReplayInv

\* It is kept as long as Redis refuses no command.
LEMMA ReplayStepInv ==
  ASSUME ReplayInv, [QuoteNext]_qvars, ~CommandsFail
  PROVE  ReplayInv'
<1>1. QuoteInv'
  BY QuoteStepInv DEF ReplayInv
<1>2. [Next]_vars
  BY LoopSteps
<1>3. NotAhead'
  BY <1>2, NotAheadKept, ReplayType DEF ReplayInv
<1>4. Behind'
  <2>1. CASE Elsewhere \/ SendToQuotes \/ SendQuoteMarker
    BY <2>1, LoopBehind
  <2>2. CASE Quote \/ Tick \/ CheckKlines
    BY <2>2, QuoteBehind, LookedForBehind
  <2>3. CASE SaveTick \/ SaveTickFailed \/ QuoteSnapshot \/ QuoteSnapshotSkipped
    BY <2>3, SaveBehind
  <2>4. CASE CrashQuotes \/ RestartQuotes
    BY <2>4, CrashBehind
  <2>5. CASE UNCHANGED qvars
    <3>1. /\ UNCHANGED <<table, alive, book, loop, mrChan, quotation, redis, quoteFile,
                         snapshotTime, restored>>
          /\ redisCache \subseteq redisCache'
      BY <2>5 DEF qvars, vars, memory, saved, restarts
    <3>2. \A r \in table : OnItsWay(r)' <=> OnItsWay(r)
      BY <3>1 DEF OnItsWay
    <3>3. QED
      BY <1>2, <3>1, <3>2, SameOnItsWay
  <2>6. QED
    BY <2>1, <2>2, <2>3, <2>4, <2>5 DEF QuoteNext
<1>5. QED
  BY <1>1, <1>3, <1>4 DEF ReplayInv

\* A snapshot of the quotes has no more than Redis has (l2quote/l2quote.go:320),
\* whatever a restart has found, as long as Redis refuses no command.
THEOREM SnapshotStaysInRedis ==
  ASSUME ~CommandsFail
  PROVE  QuoteSpec => []RedisHoldsSnapshot
<1>1. QuoteInit => ReplayInv
  BY ReplayInitInv
<1>2. ReplayInv /\ [QuoteNext]_qvars => ReplayInv'
  BY ReplayStepInv
<1>3. ReplayInv => RedisHoldsSnapshot
  BY DEF ReplayInv, Behind, Under, RedisHoldsSnapshot
<1>4. QED
  BY <1>1, <1>2, <1>3, PTL DEF QuoteSpec
=============================================================================
