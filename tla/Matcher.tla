------------------------------- MODULE Matcher -------------------------------
(***************************************************************************)
(* The matching engine of one symbol (match/matcher.go): GenMatchResult,   *)
(* the handlers Match dispatches to, and their loops.                      *)
(*                                                                         *)
(* The order being processed is always orders[fromId].  A loop of          *)
(* matcher.go is taken one iteration at a time: an iteration is one action *)
(* and the process is in phase "matching" until the loop breaks.  One      *)
(* goroutine owns the book, so nothing else happens in between.  `results` *)
(* and `lastPrice` are the Items and the Price of the message being built; *)
(* they stay until the next order is taken, as do the order objects the    *)
(* message points to.                                                      *)
(***************************************************************************)
EXTENDS OrderBook, Sequences

CONSTANTS
  Inputs,      \* the rows upstream may write that are not cancel requests
  BatchLists   \* the order id lists of batch cancel requests

ASSUME InputAssumption ==
  /\ Inputs \subseteq Terms
  /\ BatchLists \subseteq Seq(SeqIds)
  /\ \A o \in Inputs : o.type # "Market" => o.price > 0

VARIABLES
  fromId,      \* OrderBook.FromId: the last sequence id taken
  phase,       \* "idle", "matching", or "dead" after common.Fatal
  results,     \* Items of the message of order fromId
  lastPrice    \* Price of that message, 0 without a trade

vars == <<orders, cache, buySet, sellSet, fromId, phase, results, lastPrice>>

Taker == orders[fromId]
Counterparties == orderSet(Opposite(Taker.side))

Item == [id: SeqIds, role: {"maker", "taker"}, amount: Nat, price: Nat,
         state: OrderState \cup {""}]

\* Slip: FilledAmount points to what the maker has left.
MakerItemLeft(m, e) ==
  [id |-> m, role |-> "maker", amount |-> e.maker.unfilled,
   price |-> e.maker.price, state |-> e.maker.state]

MakerItem(m, e) ==
  [id |-> m, role |-> "maker", amount |-> e.filled, price |-> e.maker.price,
   state |-> e.maker.state]

\* finalizeTaker: market orders publish no price, the others their limit.
TakerItem(i, o) ==
  [id |-> i, role |-> "taker", amount |-> o.unfilled,
   price |-> IF o.type = "Market" THEN 0 ELSE o.price,
   state |-> finalizeTaker(o)]

Init ==
  /\ InitOrderBook
  /\ fromId = 0
  /\ phase = "idle"
  /\ results = <<>>
  /\ lastPrice = 0

-----------------------------------------------------------------------------
(* Taking a row: GenMatchResult up to the handler's loop *)

\* The row gets the next sequence id; objects nothing points to any more go.
Load(o) ==
  /\ phase = "idle"
  /\ fromId < MaxSeqId
  /\ fromId' = fromId + 1
  /\ orders' = [i \in SeqIds |-> IF i = fromId + 1 THEN o
                                 ELSE IF i \in cache THEN orders[i] ELSE NoOrder]
  /\ lastPrice' = 0

TakeOrder(o) ==
  /\ o.type \in {"Market", "Limit"}
  /\ Load(NewOrder(o))
  /\ phase' = "matching"
  /\ results' = <<>>
  /\ UNCHANGED <<cache, buySet, sellSet>>

\* The price limit and the band of one maker in the scan of canFilledFokOrder.
\* The band is switched on by the maker's rate; a sell takes the width of its
\* own rate, a buy that of the maker's.
FokStops(o, m) ==
  \/ ~matchAble(o, m)
  \/ /\ m.rate # 0
     /\ IF o.side = "Sell"
        THEN (RateUnit - o.rate) * o.price >= RateUnit * m.price
        ELSE (RateUnit + m.rate) * o.price <= RateUnit * m.price

\* Slip: the scan looks at the amounts only.
canFilledAtAnyPrice(o) ==
  \E m \in orderSet(Opposite(o.side)) :
    UnfilledOf(UpTo(m, Opposite(o.side))) >= o.amount

\* The scan reaches a maker with which the amount is there before it stops.
canFilledFokOrder(o) ==
  \E m \in orderSet(Opposite(o.side)) :
    LET reached == UpTo(m, Opposite(o.side))
    IN  /\ \A k \in reached : ~FokStops(o, orders[k])
        /\ UnfilledOf(reached) >= o.amount

TakeFok(o) ==
  /\ o.type = "Fok"
  /\ Load(NewOrder(o))
  /\ IF canFilledFokOrder(o)
     THEN phase' = "matching" /\ results' = <<>>
     ELSE phase' = "idle" /\ results' = <<TakerItem(fromId + 1, NewOrder(o))>>
  /\ UNCHANGED <<cache, buySet, sellSet>>

\* A type the switch of Match does not name ends the process.
TakeUnrouted(o) ==
  /\ o.type = "Ioc"
  /\ Load(NewOrder(o))
  /\ phase' = "dead"
  /\ results' = <<>>
  /\ UNCHANGED <<cache, buySet, sellSet>>

\* Slip: no case for an order that was filled or decreased in part.
CancelStateUntouched(s) ==
  CASE s = "Submitted" -> "Canceled"
    [] s = "Filled" -> "Filled"
    [] OTHER -> ""

\* What is published for a resting order that is cancelled.
CancelState(s) ==
  CASE s = "Submitted" -> "Canceled"
    [] s \in {"PartialFilled", "SelfTradeDecreased"} -> "PartialCanceled"
    [] s = "Filled" -> "Filled"
    [] OTHER -> ""

CancelItem(i, found) ==
  [id |-> i, role |-> "taker", amount |-> IF found THEN orders[i].unfilled ELSE 0,
   price |-> 0, state |-> IF found THEN CancelState(orders[i].state) ELSE "Failed"]

TakeCancel(i) ==
  /\ Load(NoOrder)
  /\ phase' = IF Find(i) /\ DequeueFails(i) THEN "dead" ELSE "idle"
  /\ results' = <<CancelItem(i, Find(i))>>
  /\ Dequeue({i})

\* The ids of the list one after the other: an id is found only once.
TakeBatchCancel(ids) ==
  LET found(k) == Find(ids[k]) /\ \A j \in 1 .. k - 1 : ids[j] # ids[k]
      gone == {ids[k] : k \in DOMAIN ids}
  IN  /\ Load(NoOrder)
      /\ phase' = IF \E i \in gone : Find(i) /\ DequeueFails(i)
                  THEN "dead" ELSE "idle"
      /\ results' = [k \in 1 .. Len(ids) |-> CancelItem(ids[k], found(k))]
      /\ Dequeue(gone)

\* A row that failed the puller's scale check; the book is not touched.
TakeSystemCancel(o) ==
  /\ Load(NoOrder)
  /\ phase' = "idle"
  /\ results' = <<[id |-> fromId + 1, role |-> "taker", amount |-> o.amount,
                   price |-> 0, state |-> "Canceled"]>>
  /\ UNCHANGED <<cache, buySet, sellSet>>

-----------------------------------------------------------------------------
(* One iteration of the loop of matchMarket, matchLimit or matchFok *)

Looping == phase = "matching" /\ ~EndsLoop(Taker)

\* The circuit breaker measures from the price of the first item.
CircuitBroken(m) ==
  /\ Taker.type # "Limit"
  /\ results # <<>>
  /\ OutOfBand(Taker.rate, results[1].price, orders[m].price)

\* A limit order goes on only at its price; the others ask no price.
Admits(m) ==
  IF Taker.type = "Limit" THEN matchAble(Taker, orders[m]) ELSE ~CircuitBroken(m)

\* The Fatal conditions met with maker m: a maker newer than the taker, an
\* amount above what is unfilled, a filled maker missing from the book.
Asserts(m) ==
  \/ fromId <= m
  \/ /\ ~TooLittleCash(Taker, orders[m])
     /\ IsSelfTrade(Taker, orders[m]) => Taker.stp = "DC"
     /\ Overfills(Taker, orders[m])
  \/ LeavesBook(matchOrder(Taker, orders[m]).maker) /\ DequeueFails(m)

\* Slip: a maker filled in part leaves the price of the message as it was.
PriceOfLastFill(e) ==
  IF e.item /\ e.maker.state = "Filled" THEN e.maker.price ELSE lastPrice

\* Price follows the trades; a self-trade is none.
PriceAfter(e) ==
  IF e.item /\ e.maker.state \in {"Filled", "PartialFilled"}
  THEN e.maker.price ELSE lastPrice

MatchHead ==
  /\ Looping
  /\ \E m \in Counterparties :
       LET e == matchOrder(Taker, orders[m])
       IN  /\ IsHead(m, Opposite(Taker.side))
           /\ Admits(m)
           /\ ~Asserts(m)
           /\ orders' = [orders EXCEPT ![fromId] = e.taker, ![m] = e.maker]
           /\ results' = IF e.item THEN Append(results, MakerItem(m, e)) ELSE results
           /\ lastPrice' = PriceAfter(e)
           /\ IF LeavesBook(e.maker) THEN Dequeue({m})
                                     ELSE UNCHANGED <<cache, buySet, sellSet>>
  /\ UNCHANGED <<fromId, phase>>

Abort ==
  /\ Looping
  /\ \E m \in Counterparties :
       IsHead(m, Opposite(Taker.side)) /\ Admits(m) /\ Asserts(m)
  /\ phase' = "dead"
  /\ UNCHANGED <<orders, cache, buySet, sellSet, fromId, results, lastPrice>>

\* The taker's own item ends the message.
Publish(o) ==
  /\ orders' = [orders EXCEPT ![fromId] = o]
  /\ results' = Append(results, TakerItem(fromId, o))
  /\ UNCHANGED <<fromId, lastPrice>>

\* The taker is filled or cancelled.
Finish ==
  /\ phase = "matching"
  /\ EndsLoop(Taker)
  /\ Publish(Taker)
  /\ phase' = "idle"
  /\ UNCHANGED <<cache, buySet, sellSet>>

\* The rest of a limit order is put on the book.
Rest ==
  /\ Looping
  /\ Taker.type = "Limit"
  /\ \A m \in Counterparties : IsHead(m, Opposite(Taker.side)) => ~Admits(m)
  /\ Enqueue(fromId)
  /\ Publish(Taker)
  /\ phase' = IF EnqueueFails(fromId) THEN "dead" ELSE "idle"

\* The rest of a market or FOK order has no counterparty.
GiveUp ==
  /\ Looping
  /\ Taker.type # "Limit"
  /\ Counterparties = {}
  /\ Publish(IF Taker.type = "Fok" THEN SetState(Taker, "Canceled") ELSE Taker)
  /\ phase' = "idle"
  /\ UNCHANGED <<cache, buySet, sellSet>>

BreakCircuit ==
  /\ Looping
  /\ \E m \in Counterparties : IsHead(m, Opposite(Taker.side)) /\ CircuitBroken(m)
  /\ Publish(SetState(Taker, "CircuitCanceled"))
  /\ phase' = "idle"
  /\ UNCHANGED <<cache, buySet, sellSet>>

\* Every row of the bounded order table is taken: the puller finds nothing.
Idle ==
  /\ phase # "matching"
  /\ phase = "idle" => fromId = MaxSeqId
  /\ UNCHANGED vars

Loop == MatchHead \/ Abort \/ Finish \/ Rest \/ GiveUp \/ BreakCircuit

Next ==
  \/ \E o \in Inputs : TakeOrder(o) \/ TakeFok(o) \/ TakeUnrouted(o)
                        \/ TakeSystemCancel(o)
  \/ \E i \in SeqIds : TakeCancel(i)
  \/ \E ids \in BatchLists : TakeBatchCancel(ids)
  \/ Loop
  \/ Idle

Spec == Init /\ [][Next]_vars

\* The matching goroutine is never stopped while it has an order in hand.
FairSpec == Spec /\ WF_vars(Loop)
-----------------------------------------------------------------------------
(* Properties *)

\* The types of the variables.
TypeOK ==
  /\ orders \in [SeqIds -> OrderRecord \cup {NoOrder}]
  /\ cache \subseteq SeqIds
  /\ buySet \subseteq SeqIds
  /\ sellSet \subseteq SeqIds
  /\ fromId \in 0 .. MaxSeqId
  /\ phase \in {"idle", "matching", "dead"}
  /\ results \in Seq(Item)
  /\ lastPrice \in Nat

HasTaker == fromId > 0 /\ Taker # NoOrder

\* The index and the two trees name the same orders, each in the tree of its
\* side, and only limit orders with something left and a state a resting
\* order can have are there.  Find, Peek and Dequeue each look at another of
\* the three structures; a disagreement ends the process in Dequeue.
BookInStep ==
  /\ cache = buySet \cup sellSet
  /\ \A i \in cache :
       /\ orders[i] # NoOrder
       /\ i \in orderSet(orders[i].side)
       /\ i \notin orderSet(Opposite(orders[i].side))
       /\ orders[i].type = "Limit"
       /\ orders[i].unfilled > 0
       /\ orders[i].state \in {"Submitted", "PartialFilled", "SelfTradeDecreased"}

\* The process ends only on an order type Match does not route, or where a
\* market buy divides its cash by a unit price so large that decimal.Div
\* rounds its last place over the next integer (2 * 10^37 of the finest cash
\* unit).  Every other Fatal of Enqueue, Dequeue, fillAmount and matchOrder is
\* out of reach of any sequence of orders.
KilledOnlyByRounding ==
  phase = "dead" =>
    /\ HasTaker
    /\ \/ Taker.type = "Ioc"
       \/ /\ PaysCash(Taker)
          /\ \E m \in Counterparties :
               /\ IsHead(m, Opposite(Taker.side))
               /\ unitPrice(orders[m]) >= 2 * DivUnit

\* No resting buy order could trade with a resting sell order, whatever was
\* filled, cancelled or decreased before.
Uncrossed == \A b \in buySet, s \in sellSet : orders[b].price < orders[s].price

IsTrade(item) == item.role = "maker" /\ item.state \in {"Filled", "PartialFilled"}

Trades == {k \in DOMAIN results : IsTrade(results[k])}

\* Price, then time: every maker a message names was ahead of every order that
\* is still on its side of the book.
PriceTimePriority ==
  \A k \in DOMAIN results : results[k].role = "maker" =>
    \A j \in Counterparties \ {results[k].id} :
      \/ IF Taker.side = "Buy" THEN orders[j].price > results[k].price
                               ELSE orders[j].price < results[k].price
      \/ orders[j].price = results[k].price /\ results[k].id < j

\* A taker with a self-trade strategy never trades with its own user.
NoSelfTrade ==
  \A k \in DOMAIN results :
    IsTrade(results[k]) /\ Taker.stp # "AST"
      => orders[results[k].id].user # Taker.user

\* What item k took off the taker: a trade always, a self-trade item only
\* under DC and only when the taker was not cancelled by it.
Consumed(k) ==
  LET item == results[k]
      worth == IF PaysCash(Taker) THEN item.amount * item.price ELSE item.amount
      last == \A j \in DOMAIN results : results[j].role = "maker" => j <= k
      stCanceled == Taker.state \in {"SelfTradeCanceled", "SelfTradePartialCanceled"}
  IN  CASE item.role # "maker" -> 0
        [] IsTrade(item) -> worth
        [] item.role = "maker" /\ ~IsTrade(item)
             -> IF Taker.stp = "DC" /\ ~(last /\ stCanceled) THEN worth ELSE 0
        [] OTHER -> 0

\* The items of a message account for everything the taker used up, cash of a
\* market buy included, at any point of the loop.
MessageAddsUp ==
  HasTaker =>
    LET used[k \in 0 .. Len(results)] ==
          IF k = 0 THEN 0 ELSE used[k - 1] + Consumed(k)
    IN  Taker.amount - Taker.unfilled = used[Len(results)]

\* Price is the price of the message's last trade and 0 exactly when nothing
\* was traded: the klines take it to mean that a filled item can be found.
PriceIsLastTrade ==
  IF Trades = {} THEN lastPrice = 0
  ELSE lastPrice > 0 /\ lastPrice = results[Max(Trades)].price

\* A maker's item has a state, and the state an item gives its order says whether
\* it is on the book.
StatesTell ==
  \A k \in DOMAIN results :
    /\ results[k].role = "maker" => results[k].state # ""
    /\ results[k].state \in {"Submitted", "PartialFilled", "SelfTradeDecreased"}
         <=> results[k].id \in cache

\* A finished order's message names every maker once and ends with the one item
\* of the taker, and the state it gives an order says whether that order is on
\* the book now.  Every state is set but the taker's own of a FOK order, which
\* finalizeTakerFok leaves empty in two cases (see FinalStateSet).
MessageComplete ==
  phase = "idle" /\ HasTaker =>
    LET n == Len(results)
    IN  /\ n > 0
        /\ results[n].role = "taker" /\ results[n].id = fromId
        /\ Taker.type # "Fok" => results[n].state # ""
        /\ \A j, k \in 1 .. n : results[j].id = results[k].id => j = k
        /\ \A k \in 1 .. n - 1 : results[k].role = "maker"
        /\ StatesTell

\* A FOK order with no self-trade strategy and no circuit rate of its own is
\* filled whole within its limit or trades nothing, whatever rates the orders
\* on the book carry.
FokAllOrNothingUnguarded ==
  phase = "idle" /\ HasTaker /\ Taker.type = "Fok" /\ Taker.stp = "AST"
      /\ Taker.rate = 0
    => /\ Taker.state = "Filled" \/ Len(results) = 1
       /\ \A k \in DOMAIN results :
            IF Taker.side = "Buy" THEN results[k].price <= Taker.price
                                  ELSE results[k].price >= Taker.price

\* A step takes from a resting order only what it publishes as that order's
\* filled amount, and gives nothing back; a resting order keeps its terms.
BookMovesAsPublished ==
  [][\A i \in cache \cap cache' :
       /\ \A f \in {"user", "side", "type", "price", "amount"} :
            orders'[i][f] = orders[i][f]
       /\ orders'[i].unfilled # orders[i].unfilled =>
            LET item == results'[Len(results')]
            IN  /\ Len(results') = Len(results) + 1
                /\ item.id = i /\ item.role = "maker"
                /\ orders[i].unfilled - orders'[i].unfilled = item.amount]_vars

\* No order leaves the book without an item that says so in the same step.
ExitsArePublished ==
  [][\A i \in cache \ cache' :
       \E k \in DOMAIN results' :
         /\ results'[k].id = i
         /\ results'[k].state \in {"Filled", "Canceled", "PartialCanceled",
                                   "SelfTradeCanceled", "SelfTradePartialCanceled"}]_vars

\* The loops of matcher.go end for every order.
LoopsEnd == phase = "matching" ~> phase # "matching"

-----------------------------------------------------------------------------
(* What comments of matcher.go say and the code does not do *)

\* matchFok's comment: a FOK order is filled at once and whole, or cancelled
\* whole; partial execution is not allowed.
FokAllOrNothing ==
  phase = "idle" /\ HasTaker /\ Taker.type = "Fok"
    => Taker.state = "Filled" \/ Trades = {}

\* canFilledFokOrder's comment: the levels beyond the limit of a FOK order
\* cannot be traded with.
FokWithinLimit ==
  HasTaker /\ Taker.type = "Fok" =>
    \A k \in Trades : IF Taker.side = "Buy" THEN results[k].price <= Taker.price
                                            ELSE results[k].price >= Taker.price

\* matchCashAmountBasedOrder's comment: the quantity is the floor of the cash
\* divided by the price of a unit, so the assertion below it is never met.
CashIsFloored == phase = "dead" => HasTaker /\ ~PaysCash(Taker)

\* finalizeTaker's comment: every order that enters the engine ends with an
\* item whose state is the published form of the order's state.
FinalStateSet ==
  phase = "idle" /\ HasTaker => results[Len(results)].state # ""

\* matchMarket's comment: the circuit breaker measures from the price of the
\* order's first trade, so it stops only an order that traded, at a price out
\* of the band around that trade.
CircuitFromFirstTrade ==
  phase = "idle" /\ HasTaker /\ Taker.type = "Market"
      /\ Taker.state = "CircuitCanceled" =>
    /\ Trades # {}
    /\ \E m \in Counterparties :
         /\ IsHead(m, Opposite(Taker.side))
         /\ OutOfBand(Taker.rate, results[Min(Trades)].price, orders[m].price)

\* The head comment of matcher.go lists IOC among the supported order types.
EveryTypeRouted == phase = "dead" => HasTaker /\ Taker.type # "Ioc"
=============================================================================
