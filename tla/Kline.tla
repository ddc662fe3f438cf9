-------------------------------- MODULE Kline --------------------------------
(***************************************************************************)
(* Candles of one period (l2quote/kline.go) and the summary of a day       *)
(* (l2quote/market.go).  Time is the number of the window.  A result is    *)
(* the window its order was created in and the prices of its filled makers *)
(* in the order of its items; one that did not trade has none.  Vol and    *)
(* TurnOver are added to wherever Count is, and are not kept apart from it.*)
(***************************************************************************)
EXTENDS Integers, FiniteSetsExt, SequencesExt

CONSTANTS
  ForwardLimit,  \* klineForwardLimit: windows an old result may redraw
  DaySize        \* buckets of the market: 24*60

ASSUME KlineAssumption == ForwardLimit \in Nat \ {0} /\ DaySize \in Nat \ {0}

Blank == [open |-> 0, close |-> 0, high |-> 0, low |-> 0, count |-> 0]

Flat(price) ==
  [open |-> price, close |-> price, high |-> price, low |-> price, count |-> 0]

\* All prices set to one, the trades left.
Redrawn(k, price) == [Flat(price) EXCEPT !.count = k.count]

isPendingOrder(m) == m.fills = <<>>
getStartPrice(m) == Head(m.fills)
Price(m) == Last(m.fills)

\* Slip: a kline without trades keeps the prices it was carried over with.
TradedOverCarry(k, m) ==
  [open  |-> IF k.open = 0 THEN getStartPrice(m) ELSE k.open,
   close |-> Price(m),
   high  |-> Max({k.high} \cup Range(m.fills)),
   low   |-> Min((IF k.low = 0 THEN {} ELSE {k.low}) \cup Range(m.fills)),
   count |-> k.count + Len(m.fills)]

\* Kline k after the trades of m.
Traded(k, m) ==
  LET fresh == IF k.count = 0 THEN Flat(getStartPrice(m)) ELSE k
  IN  [open  |-> fresh.open,
       close |-> Price(m),
       high  |-> Max({fresh.high} \cup Range(m.fills)),
       low   |-> Min({fresh.low} \cup Range(m.fills)),
       count |-> k.count + Len(m.fills)]

-----------------------------------------------------------------------------
(* The klines of one period, a function on the windows that have one *)

\* Windows a result is drawn into: its own and those after it up to now.
DrawnBy(m, now) ==
  IF isPendingOrder(m) THEN {}
  ELSE {w \in m.ts .. now : w < m.ts + ForwardLimit}

KlineAt(klines, w) == IF w \in DOMAIN klines THEN klines[w] ELSE Blank

\* The klines after result m at time now.
updateKline(klines, m, now) ==
  [w \in DOMAIN klines \cup DrawnBy(m, now) |->
     IF w \notin DrawnBy(m, now) THEN klines[w]
     ELSE IF w = m.ts THEN Traded(KlineAt(klines, w), m)
     ELSE Redrawn(KlineAt(klines, w), Price(m))]

\* Slip: one window too many.
MissingPastNow(klines, now) ==
  IF DOMAIN klines = {} THEN {now}
  ELSE IF now \in DOMAIN klines THEN {}
  ELSE Max(DOMAIN klines) + 1 .. now + 1

\* Windows that get a kline without trades when the one of now is needed.
MissingAt(klines, now) ==
  IF DOMAIN klines = {} THEN {now}
  ELSE IF now \in DOMAIN klines THEN {}
  ELSE Max(DOMAIN klines) + 1 .. now

getCurrentKline(klines, now) ==
  [w \in DOMAIN klines \cup MissingAt(klines, now) |->
     IF w \in DOMAIN klines THEN klines[w]
     ELSE IF DOMAIN klines = {} THEN Blank
     ELSE Flat(klines[Max(DOMAIN klines)].close)]

-----------------------------------------------------------------------------
(* The market: DaySize buckets, number 0 that of window top, number 1 of    *)
(* the window before it, ...                                                *)

Buckets == 0 .. DaySize - 1

NoTrades(now) == [top |-> now, bucket |-> [i \in Buckets |-> Blank]]

\* Slip: the buckets of the windows without a result are left out.
ShiftedByOne(market, now) ==
  [top |-> now,
   bucket |-> [i \in Buckets |->
     IF market.top = now THEN market.bucket[i]
     ELSE IF i = 0 THEN Flat(market.bucket[0].close)
     ELSE market.bucket[i - 1]]]

\* The buckets moved on to window now.
Shifted(market, now) ==
  LET truncateOffset == Min({now - market.top, DaySize})
  IN  [top |-> now,
       bucket |-> [i \in Buckets |->
         IF i < truncateOffset THEN Flat(market.bucket[0].close)
         ELSE market.bucket[i - truncateOffset]]]

\* A price of 0 is none.
Lowest(low, other) == IF low = 0 \/ low > other THEN other ELSE low
Earliest(open, other) == IF open = 0 THEN other ELSE open

\* The summary of the buckets, from the oldest to the newest.
Summary(market) ==
  LET Add(sum, i) ==
        LET b == market.bucket[i]
        IN  [open  |-> Earliest(sum.open, b.open),
             close |-> b.close,
             high  |-> Max({sum.high, b.high}),
             low   |-> Lowest(sum.low, b.low),
             count |-> sum.count + b.count]
  IN  FoldLeft(Add, Blank, [j \in 1 .. DaySize |-> DaySize - j])

\* Results of more than a day ago set prices only.
onlyUpdatePrice(m, now) == now - m.ts > DaySize - 1

\* The buckets after the trades of m.
MarketWith(market, m, now) ==
  LET offset == Min({now - m.ts, DaySize - 1})
  IN  [market EXCEPT !.bucket = [i \in Buckets |->
         IF i = offset /\ ~onlyUpdatePrice(m, now) THEN Traded(@[i], m)
         ELSE IF i <= offset THEN Redrawn(@[i], Price(m))
         ELSE @[i]]]

\* The summary after the trades of m.
DetailWith(detail, m, now) ==
  IF onlyUpdatePrice(m, now) THEN detail
  ELSE [open  |-> Earliest(detail.open, getStartPrice(m)),
        close |-> Price(m),
        high  |-> Max({detail.high} \cup Range(m.fills)),
        low   |-> Lowest(detail.low, Min(Range(m.fills))),
        count |-> detail.count + Len(m.fills)]
=============================================================================
