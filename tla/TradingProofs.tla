---------------------------- MODULE TradingProofs ----------------------------
(***************************************************************************)
(* What the messages of the matching engine say of the book, the abstract  *)
(* exchange the engine implements, and the depth the book is shown as, for *)
(* every catalogue of rows, every number of orders, every lot, precision,  *)
(* step, capacity and size.                                                *)
(***************************************************************************)
EXTENDS MatcherRefines, Depth, MatcherProofs

-----------------------------------------------------------------------------
(* Numbers *)

\* A set of numbers has a least one.
LEMMA LeastNumber ==
  ASSUME NEW S, S \subseteq Nat, S # {}
  PROVE  \E n \in S : \A k \in S : n <= k
<1> DEFINE T == {0 .. k : k \in S}
           R == StrictSubsetOrdering(Nat)
<1>1. T \subseteq FiniteSubsetsOf(Nat)
  <2>1. \A k \in S : 0 .. k \subseteq Nat /\ IsFiniteSet(0 .. k)
    BY FS_Interval
  <2>2. QED
    BY <2>1 DEF FiniteSubsetsOf
<1>2. IsWellFoundedOn(R, FiniteSubsetsOf(Nat))
  BY FS_StrictSubsetOrderingWellFounded
<1>3. T # {}
  OBVIOUS
<1>4. PICK U \in T : \A V \in T : ~(<<V, U>> \in R)
  <2> HIDE DEF T, R
  <2>1. QED
    BY <1>1, <1>2, <1>3, WFMin
<1>5. PICK n \in S : U = 0 .. n
  OBVIOUS
<1>6. ASSUME NEW k \in S, ~(n <= k)
      PROVE  FALSE
  <2>1. 0 .. k \subseteq 0 .. n /\ n \in 0 .. n /\ n \notin 0 .. k
    BY <1>6
  <2>2. 0 .. k \in SUBSET Nat /\ 0 .. n \in SUBSET Nat
    OBVIOUS
  <2>3. <<0 .. k, U>> \in R
    BY <1>5, <2>1, <2>2 DEF StrictSubsetOrdering
  <2>4. 0 .. k \in T
    OBVIOUS
  <2> HIDE DEF T, R
  <2>5. QED
    BY <1>4, <2>3, <2>4
<1>7. QED
  BY <1>6

-----------------------------------------------------------------------------
(* The steps of the engine, by what they do to orders and message *)

\* The new message says that order i was cancelled.
CancelPublished(i) ==
  \E k \in DOMAIN results' : /\ results'[k].id = i
                             /\ results'[k].state \in {"Canceled", "PartialCanceled"}

\* A row is taken: what rests is cancelled or left alone, and the message is
\* new.  The order put in the loop's hand is the row; the others are answered.
RowTaken ==
  /\ phase = "idle"
  /\ fromId' = fromId + 1 /\ fromId' \in SeqIds
  /\ lastPrice' = 0
  /\ cache' \subseteq cache
  /\ \A i \in cache : i < fromId' /\ orders'[i] = orders[i]
  /\ \A k \in DOMAIN results' : results'[k].role = "taker"
  /\ \A i \in cache \ cache' : CancelPublished(i)
  /\ phase' = "matching" => results' = <<>>
  /\ IF Taker' = NoOrder THEN phase' = "idle"
     ELSE /\ UNCHANGED <<cache, buySet, sellSet>>
          /\ \E o \in Inputs : Taker' = NewOrder(o)
          /\ phase' = "dead" => Taker'.type = "Ioc"
          /\ phase' = "matching" => Taker'.type # "Ioc"
          /\ phase' = "idle" => /\ Taker'.type = "Fok"
                                /\ results' = <<TakerItem(fromId', Taker')>>

\* The taker meets the head of the other side, e is the outcome.
HeadMet(m, e) ==
  /\ phase = "matching" /\ ~EndsLoop(Taker)
  /\ m \in Counterparties /\ m \in cache /\ m < fromId
  /\ IsHead(m, Opposite(Taker.side)) /\ Admits(m) /\ ~Asserts(m)
  /\ e = matchOrder(Taker, orders[m])
  /\ TakerAfter(Taker, e.taker) /\ MakerAfter(orders[m], e.maker)
  /\ e.filled \in Nat /\ e.item \in BOOLEAN
  /\ orders' = [orders EXCEPT ![fromId] = e.taker, ![m] = e.maker]
  /\ Taker' = e.taker /\ orders'[m] = e.maker
  /\ results' = IF e.item THEN Append(results, MakerItem(m, e)) ELSE results
  /\ lastPrice' = PriceAfter(e)
  /\ IF LeavesBook(e.maker) THEN Dequeue({m}) ELSE UNCHANGED <<cache, buySet, sellSet>>
  /\ UNCHANGED <<fromId, phase>>

\* The taker's item ends the message; o is what has become of the taker.
Published(o) ==
  /\ phase = "matching" /\ phase' = "idle"
  /\ SameTerms(o, Taker) /\ o.unfilled = Taker.unfilled
  /\ \/ o.state = Taker.state
     \/ Taker.state \in Open /\ o.state = "CircuitCanceled" /\ Taker.type # "Limit"
     \/ Taker.state \in Open /\ o.state = "Canceled" /\ Taker.type = "Fok"
  /\ Taker' = o
  /\ \A i \in SeqIds \ {fromId} : orders'[i] = orders[i]
  /\ orderSet(Opposite(Taker.side))' = Counterparties
  /\ cache \subseteq cache' /\ cache' \subseteq cache \cup {fromId}
  /\ o.state \in Open /\ o.type # "Market" => fromId \in cache'
  /\ results' = Append(results, TakerItem(fromId, o))
  /\ UNCHANGED <<fromId, lastPrice>>

\* Nothing happens, unless the process ends.
Halted ==
  /\ UNCHANGED <<orders, cache, buySet, sellSet, fromId, results, lastPrice>>
  /\ phase' # phase => phase = "matching" /\ phase' = "dead"

\* The order in hand is a routed one, at its end or open with something left.
LEMMA InHand ==
  ASSUME IInv, phase = "matching"
  PROVE  /\ fromId \in SeqIds /\ fromId \in Nat /\ fromId > 0
         /\ Taker \in OrderRecord /\ Taker # NoOrder /\ HasTaker
         /\ fromId \notin cache
         /\ Taker.type \in {"Market", "Limit", "Fok"}
         /\ Taker.type # "Market" => Taker.price > 0
         /\ Taker.side \in Sides /\ Opposite(Taker.side) \in Sides
         /\ ~EndsLoop(Taker) => /\ Taker.state \in Open
                                /\ PaysCash(Taker) \/ Taker.unfilled > 0
<1>1. /\ fromId \in SeqIds /\ Taker \in OrderRecord
      /\ Taker.type \in {"Market", "Limit", "Fok"}
      /\ Taker.type # "Market" => Taker.price > 0
      /\ ~EndsLoop(Taker) => /\ Taker.state \in Open
                             /\ PaysCash(Taker) \/ Taker.unfilled > 0
  BY DEF IInv, TakerInHand, EndsLoop
<1>2. fromId \in Nat /\ fromId > 0 /\ Taker # NoOrder
  BY <1>1, BookAssumption DEF SeqIds
<1>3. fromId \notin cache
  <2>1. ~(fromId < fromId)
    BY <1>2
  <2>2. QED
    BY <2>1 DEF IInv, Older
<1>4. Taker.side \in Sides /\ Opposite(Taker.side) \in Sides
  BY <1>1 DEF OrderRecord, Opposite, Sides
<1>5. QED
  BY <1>1, <1>2, <1>3, <1>4 DEF HasTaker

\* MatchHead is an encounter with the head of the other side.
LEMMA MatchHeadMet ==
  ASSUME IInv, MatchHead
  PROVE  \E m \in Counterparties : \E e : HeadMet(m, e)
<1>1. PICK m \in Counterparties :
        LET e == matchOrder(Taker, orders[m])
        IN  /\ IsHead(m, Opposite(Taker.side))
            /\ Admits(m)
            /\ ~Asserts(m)
            /\ orders' = [orders EXCEPT ![fromId] = e.taker, ![m] = e.maker]
            /\ results' = IF e.item THEN Append(results, MakerItem(m, e)) ELSE results
            /\ lastPrice' = PriceAfter(e)
            /\ IF LeavesBook(e.maker) THEN Dequeue({m})
                                      ELSE UNCHANGED <<cache, buySet, sellSet>>
  BY DEF MatchHead
<1>2. PICK e : e = matchOrder(Taker, orders[m])
  OBVIOUS
<1>3. /\ phase = "matching" /\ ~EndsLoop(Taker)
      /\ UNCHANGED <<fromId, phase>>
  BY DEF MatchHead, Looping
<1>4. /\ fromId \in SeqIds /\ Taker \in OrderRecord
      /\ m \in cache /\ m \in SeqIds /\ m < fromId
  BY <1>3, MakerFacts
<1>5. Taker.state \in Open /\ (PaysCash(Taker) \/ Taker.unfilled > 0)
  BY <1>3, InHand
<1>6. /\ TakerAfter(Taker, e.taker) /\ MakerAfter(orders[m], e.maker)
      /\ e.filled \in Nat /\ e.item \in BOOLEAN
  <2>1. ~TooLittleCash(Taker, orders[m])
          /\ (IsSelfTrade(Taker, orders[m]) => Taker.stp = "DC")
            => ~Overfills(Taker, orders[m])
    BY <1>1 DEF Asserts
  <2>2. QED
    BY <1>2, <1>4, <1>5, <2>1, RestingOrder, EncounterTyped
<1>7. orders' = [orders EXCEPT ![fromId] = e.taker, ![m] = e.maker]
  BY <1>1, <1>2
<1>8. Taker' = e.taker /\ orders'[m] = e.maker
  <2>1. fromId # m
    BY <1>4, InHand, <1>3
  <2>2. QED
    BY <1>3, <1>4, <1>7, <2>1 DEF IInv, TypeOK, Taker
<1>9. HeadMet(m, e)
  BY <1>1, <1>2, <1>3, <1>4, <1>6, <1>7, <1>8 DEF HeadMet
<1>10. QED
  BY <1>9

\* Publishing a taker that left the book alone or joined its own side.
LEMMA PublishPublished ==
  ASSUME IInv, phase = "matching", phase' = "idle", NEW o \in OrderRecord, Publish(o),
         SameTerms(o, Taker), o.unfilled = Taker.unfilled,
         \/ o.state = Taker.state
         \/ Taker.state \in Open /\ o.state = "CircuitCanceled" /\ Taker.type # "Limit"
         \/ Taker.state \in Open /\ o.state = "Canceled" /\ Taker.type = "Fok",
         \/ /\ UNCHANGED <<cache, buySet, sellSet>>
            /\ o.state \in Open => o.type = "Market"
         \/ Enqueue(fromId)
  PROVE  Published(o)
<1>1. /\ fromId \in SeqIds /\ Taker.side \in Sides
  BY InHand
<1>2. /\ orders' = [orders EXCEPT ![fromId] = o]
      /\ results' = Append(results, TakerItem(fromId, o))
      /\ UNCHANGED <<fromId, lastPrice>>
  BY DEF Publish
<1>3. Taker' = o /\ \A i \in SeqIds \ {fromId} : orders'[i] = orders[i]
  BY <1>1, <1>2 DEF IInv, TypeOK, Taker
<1>4. Taker'.side = Taker.side
  BY <1>3 DEF SameTerms
<1>5. /\ orderSet(Opposite(Taker.side))' = Counterparties
      /\ cache \subseteq cache' /\ cache' \subseteq cache \cup {fromId}
      /\ o.state \in Open /\ o.type # "Market" => fromId \in cache'
  <2>1. CASE UNCHANGED <<cache, buySet, sellSet>> /\ (o.state \in Open => o.type = "Market")
    BY <1>4, <2>1 DEF orderSet, Counterparties
  <2>2. CASE Enqueue(fromId)
    <3>1. orderSet(Opposite(Taker.side))' = Counterparties
      BY <1>1, <1>4, <2>2 DEF Enqueue, orderSet, Counterparties, Opposite, Sides, Taker
    <3>2. QED
      BY <2>2, <3>1 DEF Enqueue
  <2>3. QED
    BY <2>1, <2>2
<1>6. QED
  BY <1>2, <1>3, <1>5 DEF Published

\* A row that is an order leaves the book as it is.
LEMMA LoadTaken ==
  ASSUME IInv, NEW o \in Inputs, Load(NewOrder(o)),
         UNCHANGED <<cache, buySet, sellSet>>,
         \/ phase' = "idle" /\ o.type = "Fok"
              /\ results' = <<TakerItem(fromId', NewOrder(o))>>
         \/ phase' = "matching" /\ o.type # "Ioc" /\ results' = <<>>
         \/ phase' = "dead" /\ o.type = "Ioc" /\ results' = <<>>
  PROVE  RowTaken
<1>1. /\ phase = "idle"
      /\ fromId' = fromId + 1 /\ fromId' \in SeqIds
      /\ orders'[fromId'] = NewOrder(o)
      /\ \A i \in cache : i < fromId' /\ orders'[i] = orders[i]
  BY LoadFacts, NewOrderTyped
<1>2. lastPrice' = 0
  BY DEF Load
<1>3. Taker' = NewOrder(o) /\ Taker' # NoOrder /\ Taker'.type = o.type
  BY <1>1, NewOrderTyped, BookAssumption DEF Taker
<1>4. \A k \in DOMAIN results' : results'[k].role = "taker"
  BY DEF TakerItem
<1>5. QED
  BY <1>1, <1>2, <1>3, <1>4 DEF RowTaken

\* A row that is none takes orders off the book and says so.
LEMMA LoadCancelled ==
  ASSUME IInv, Load(NoOrder), NEW ids, Dequeue(ids), phase' = "idle",
         \A k \in DOMAIN results' : results'[k].role = "taker",
         \A i \in ids \cap cache : CancelPublished(i)
  PROVE  RowTaken
<1>1. /\ phase = "idle"
      /\ fromId' = fromId + 1 /\ fromId' \in SeqIds
      /\ orders'[fromId'] = NoOrder
      /\ \A i \in cache : i < fromId' /\ orders'[i] = orders[i]
  BY LoadFacts
<1>2. lastPrice' = 0 /\ cache' \subseteq cache
  BY DEF Load, Dequeue
<1>3. \A i \in cache \ cache' : CancelPublished(i)
  BY DEF Dequeue
<1>4. QED
  BY <1>1, <1>2, <1>3 DEF RowTaken, Taker

\* What is published for an order that is on the book when it is cancelled.
LEMMA CancelItemOf ==
  ASSUME IInv, NEW i \in cache
  PROVE  /\ CancelItem(i, TRUE).id = i
         /\ CancelItem(i, TRUE).state \in {"Canceled", "PartialCanceled"}
BY RestingOrder DEF CancelItem, CancelState, Open

\* Every step of the engine is one of the four kinds.
LEMMA Steps ==
  ASSUME IInv, [Next]_vars
  PROVE  \/ RowTaken
         \/ \E m \in Counterparties : \E e : HeadMet(m, e)
         \/ \E o \in OrderRecord : Published(o)
         \/ Halted
<1> DEFINE Goal == \/ RowTaken
                   \/ \E m \in Counterparties : \E e : HeadMet(m, e)
                   \/ \E o \in OrderRecord : Published(o)
                   \/ Halted
<1>1. ASSUME NEW o \in Inputs, TakeOrder(o)
      PROVE  RowTaken
  BY <1>1, LoadTaken DEF TakeOrder
<1>2. ASSUME NEW o \in Inputs, TakeFok(o)
      PROVE  RowTaken
  BY <1>2, LoadTaken, LoadFacts, NewOrderTyped DEF TakeFok
<1>3. ASSUME NEW o \in Inputs, TakeUnrouted(o)
      PROVE  RowTaken
  BY <1>3, LoadTaken DEF TakeUnrouted
<1>4. ASSUME NEW o \in Inputs, TakeSystemCancel(o)
      PROVE  RowTaken
  <2>1. Dequeue({})
    BY <1>4 DEF TakeSystemCancel, Dequeue
  <2>2. QED
    BY <1>4, <2>1, LoadCancelled DEF TakeSystemCancel
<1>5. ASSUME NEW i \in SeqIds, TakeCancel(i)
      PROVE  RowTaken
  <2>1. phase' = "idle"
    BY <1>5, DequeueWorks DEF TakeCancel, Find
  <2>2. \A k \in DOMAIN results' : results'[k].role = "taker"
    BY <1>5 DEF TakeCancel, CancelItem
  <2>3. \A j \in {i} \cap cache : CancelPublished(j)
    <3> SUFFICES ASSUME i \in cache PROVE CancelPublished(i)
      OBVIOUS
    <3>1. results' = <<CancelItem(i, TRUE)>>
      BY <1>5 DEF TakeCancel, Find
    <3>2. 1 \in DOMAIN results' /\ results'[1] = CancelItem(i, TRUE)
      BY <3>1
    <3>3. QED
      BY <3>2, CancelItemOf DEF CancelPublished
  <2>4. QED
    BY <1>5, <2>1, <2>2, <2>3, LoadCancelled DEF TakeCancel
<1>6. ASSUME NEW ids \in BatchLists, TakeBatchCancel(ids)
      PROVE  RowTaken
  <2> DEFINE found(k) == Find(ids[k]) /\ \A j \in 1 .. k - 1 : ids[j] # ids[k]
             gone == {ids[k] : k \in DOMAIN ids}
  <2>1. /\ Load(NoOrder)
        /\ phase' = IF \E i \in gone : Find(i) /\ DequeueFails(i)
                    THEN "dead" ELSE "idle"
        /\ results' = [k \in 1 .. Len(ids) |-> CancelItem(ids[k], found(k))]
        /\ Dequeue(gone)
    BY <1>6 DEF TakeBatchCancel
  <2>2. phase' = "idle"
    BY <2>1, DequeueWorks DEF Find
  <2>3. \A k \in DOMAIN results' : results'[k].role = "taker"
    <3> HIDE DEF found
    <3>1. QED
      BY <2>1 DEF CancelItem
  <2>4. ids \in Seq(SeqIds) /\ Len(ids) \in Nat /\ DOMAIN ids = 1 .. Len(ids)
    BY InputAssumption
  <2>5. \A i \in gone \cap cache : CancelPublished(i)
    <3> SUFFICES ASSUME NEW i \in gone, i \in cache PROVE CancelPublished(i)
      OBVIOUS
    <3>1. PICK k \in {n \in 1 .. Len(ids) : ids[n] = i} :
            \A n \in {x \in 1 .. Len(ids) : ids[x] = i} : k <= n
      <4> DEFINE S == {n \in 1 .. Len(ids) : ids[n] = i}
      <4>1. S \subseteq Nat /\ S # {}
        BY <2>4
      <4>2. QED
        BY <4>1, LeastNumber
    <3>2. \A j \in 1 .. k - 1 : ids[j] # ids[k]
      BY <2>4, <3>1
    <3>3. found(k) = TRUE
      BY <3>1, <3>2 DEF Find
    <3>4. k \in DOMAIN results' /\ results'[k] = CancelItem(i, TRUE)
      <4> HIDE DEF found
      <4>1. QED
        BY <2>1, <3>1, <3>3
    <3>5. QED
      BY <3>4, CancelItemOf DEF CancelPublished
  <2>6. QED
    BY <2>1, <2>2, <2>3, <2>5, LoadCancelled
<1>7. ASSUME MatchHead PROVE Goal
  BY <1>7, MatchHeadMet
<1>8. ASSUME Abort PROVE Halted
  BY <1>8 DEF Abort, Looping, Halted
<1>9. ASSUME Finish PROVE Published(Taker)
  <2>1. /\ Taker \in OrderRecord /\ SameTerms(Taker, Taker)
        /\ Taker.state \notin Open
    BY <1>9, InHand DEF Finish, SameTerms, EndsLoop, Open
  <2>2. QED
    BY <1>9, <2>1, PublishPublished DEF Finish
<1>10. ASSUME Rest PROVE Published(Taker)
  <2>1. phase = "matching"
    BY <1>10 DEF Rest, Looping
  <2>2. Taker \in OrderRecord /\ SameTerms(Taker, Taker) /\ fromId \notin cache
    BY <2>1, InHand DEF SameTerms
  <2>3. phase' = "idle"
    BY <1>10, <2>2 DEF Rest, EnqueueFails, Find
  <2>4. QED
    BY <1>10, <2>1, <2>2, <2>3, PublishPublished DEF Rest
<1>11. ASSUME GiveUp PROVE Goal
  <2> DEFINE o == IF Taker.type = "Fok" THEN SetState(Taker, "Canceled") ELSE Taker
  <2>1. phase = "matching" /\ Taker.state \in Open /\ Taker \in OrderRecord
    BY <1>11, InHand DEF GiveUp, Looping
  <2>2. /\ o \in OrderRecord /\ SameTerms(o, Taker) /\ o.unfilled = Taker.unfilled
        /\ IF Taker.type = "Fok" THEN o.state = "Canceled" ELSE o.state = Taker.state
    BY <2>1 DEF SetState, OrderRecord, OrderState, SameTerms
  <2>3. /\ Publish(o) /\ phase' = "idle" /\ UNCHANGED <<cache, buySet, sellSet>>
        /\ Taker.type \in {"Market", "Fok"}
    BY <1>11, <2>1, InHand DEF GiveUp
  <2> HIDE DEF o
  <2>4. o.state \in Open => o.type = "Market"
    BY <2>2, <2>3 DEF SameTerms, Open
  <2>5. Published(o)
    BY <2>1, <2>2, <2>3, <2>4, PublishPublished
  <2>6. QED
    BY <2>2, <2>5
<1>12. ASSUME BreakCircuit PROVE Goal
  <2> DEFINE o == SetState(Taker, "CircuitCanceled")
  <2>1. /\ phase = "matching" /\ Taker.state \in Open /\ Taker \in OrderRecord
        /\ Taker.type # "Limit"
    BY <1>12, InHand DEF BreakCircuit, Looping, CircuitBroken
  <2>2. /\ o \in OrderRecord /\ SameTerms(o, Taker) /\ o.unfilled = Taker.unfilled
        /\ o.state = "CircuitCanceled"
    BY <2>1 DEF SetState, OrderRecord, OrderState, SameTerms
  <2>3. Publish(o) /\ phase' = "idle" /\ UNCHANGED <<cache, buySet, sellSet>>
    BY <1>12 DEF BreakCircuit
  <2> HIDE DEF o
  <2>4. Published(o)
    BY <2>1, <2>2, <2>3, PublishPublished DEF Open
  <2>5. QED
    BY <2>2, <2>4
<1>13. ASSUME UNCHANGED vars PROVE Halted
  BY <1>13 DEF vars, Halted
<1>14. Taker \in OrderRecord \/ phase # "matching"
  BY InHand
<1>15. ASSUME Finish \/ Rest PROVE Taker \in OrderRecord
  BY <1>14, <1>15 DEF Finish, Rest, Looping
<1>16. QED
  BY <1>1, <1>2, <1>3, <1>4, <1>5, <1>6, <1>7, <1>8, <1>9, <1>10, <1>11, <1>12,
     <1>13, <1>15 DEF Next, Loop, Idle

-----------------------------------------------------------------------------
(* The invariant of the messages *)

\* While a loop runs, its message names makers only, each of them once and all
\* older than the taker; one that is still on the book has a state that says so,
\* and has had all the taker can pay for there.
MakersNamed ==
  phase = "matching" =>
    /\ \A k \in DOMAIN results :
         /\ results[k].role = "maker" /\ results[k].id < fromId
         /\ results[k].state # "" /\ (results[k].state \in Open <=> results[k].id \in cache)
         /\ results[k].id \in cache /\ ~EndsLoop(Taker)
              => TooLittleCash(Taker, orders[results[k].id])
    /\ \A j, k \in DOMAIN results : results[j].id = results[k].id => j = k
    /\ Taker.state = "PrecisionCanceled" => PaysCash(Taker)

\* PriceIsLastTrade without a maximum: some trade is the last, and its price is
\* that of the message.
LastTrade ==
  \/ Trades = {} /\ lastPrice = 0
  \/ /\ lastPrice > 0
     /\ \E k \in Trades : /\ \A j \in Trades : j <= k
                          /\ lastPrice = results[k].price

MessageInv ==
  /\ IInv
  /\ MakersNamed
  /\ LastTrade
  /\ PriceTimePriority
  /\ NoSelfTrade
  /\ MessageComplete

\* What the published rest of the message is about.
LEMMA ResultsTyped ==
  ASSUME IInv
  PROVE  /\ results \in Seq(Item) /\ Len(results) \in Nat
         /\ DOMAIN results = 1 .. Len(results)
         /\ \A k \in DOMAIN results : results[k] \in Item /\ results[k].id \in SeqIds
<1>1. results \in Seq(Item)
  BY DEF IInv, TypeOK
<1>2. /\ Len(results) \in Nat /\ DOMAIN results = 1 .. Len(results)
      /\ \A k \in DOMAIN results : results[k] \in Item
  BY <1>1
<1>3. \A item \in Item : item.id \in SeqIds
  BY DEF Item
<1>4. QED
  BY <1>1, <1>2, <1>3

\* An item is put behind the others.
LEMMA Appended ==
  ASSUME IInv, NEW item, results' = Append(results, item)
  PROVE  /\ Len(results') = Len(results) + 1
         /\ DOMAIN results' = 1 .. Len(results) + 1
         /\ results'[Len(results) + 1] = item
         /\ \A k \in DOMAIN results : k \in DOMAIN results' /\ results'[k] = results[k]
         /\ \A k \in DOMAIN results' : k \in DOMAIN results \/ k = Len(results) + 1
  BY ResultsTyped

\* Taker and maker of an encounter are two orders, the maker's price positive.
LEMMA HeadMetFacts ==
  ASSUME IInv, NEW m \in Counterparties, NEW e, HeadMet(m, e)
  PROVE  /\ fromId \in SeqIds /\ Taker \in OrderRecord /\ fromId # m /\ m \in SeqIds
         /\ orders[m] \in OrderRecord
         /\ e.maker \in OrderRecord /\ e.maker.price = orders[m].price
         /\ orders[m].price > 0
         /\ \A i \in SeqIds \ {fromId, m} : orders'[i] = orders[i]
         /\ cache' = IF LeavesBook(e.maker) THEN cache \ {m} ELSE cache
         /\ Counterparties' = IF LeavesBook(e.maker) THEN Counterparties \ {m}
                                                     ELSE Counterparties
         /\ e.taker.unfilled <= Taker.unfilled
         /\ e.taker.state = "PrecisionCanceled" => PaysCash(Taker)
         /\ ~e.item => /\ e.maker = orders[m]
                       /\ StCanceled(e.taker) => Taker.stp # "DC"
         /\ e.item => ~TooLittleCash(Taker, orders[m])
         /\ e.item /\ ~LeavesBook(e.maker)
              => /\ orders[m].unfilled - e.maker.unfilled = e.filled
                 /\ \/ EndsLoop(e.taker)
                    \/ PaysCash(Taker) /\ unitPrice(orders[m]) > e.taker.unfilled
         /\ e.item /\ e.maker.state \in {"Filled", "PartialFilled"}
              => ~IsSelfTrade(Taker, orders[m])
         /\ Taker.unfilled - e.taker.unfilled =
              IF e.item /\ (\/ e.maker.state \in {"Filled", "PartialFilled"}
                            \/ Taker.stp = "DC" /\ ~StCanceled(e.taker))
              THEN Worth(Taker, e.filled, orders[m].price) ELSE 0
<1> USE DEF HeadMet
<1>1. /\ fromId \in SeqIds /\ Taker \in OrderRecord /\ Taker.side \in Sides
      /\ Taker.state \in Open /\ (PaysCash(Taker) \/ Taker.unfilled > 0)
      /\ fromId \notin cache
  BY InHand
<1>2. /\ m \in SeqIds /\ orders[m] \in OrderRecord /\ orders[m].price > 0
      /\ orders[m].state \in Open /\ orders[m].unfilled > 0
  BY RestingOrder
<1>3. fromId # m
  BY <1>1
<1>4. e.maker \in OrderRecord /\ e.maker.price = orders[m].price
  BY DEF MakerAfter, SameTerms
<1>5. \A i \in SeqIds \ {fromId, m} : orders'[i] = orders[i]
  BY <1>1, <1>2 DEF IInv, TypeOK
<1>6. cache' = IF LeavesBook(e.maker) THEN cache \ {m} ELSE cache
  BY DEF Dequeue
<1>7. Counterparties' = IF LeavesBook(e.maker) THEN Counterparties \ {m}
                                              ELSE Counterparties
  <2>1. Taker'.side = Taker.side
    BY DEF TakerAfter, SameTerms
  <2>2. QED
    BY <2>1 DEF Counterparties, orderSet, Dequeue
<1>8. ~TooLittleCash(Taker, orders[m])
        /\ (IsSelfTrade(Taker, orders[m]) => Taker.stp = "DC")
          => ~Overfills(Taker, orders[m])
  BY DEF Asserts
<1>9. e = matchOrder(Taker, orders[m])
  OBVIOUS
<1> HIDE DEF HeadMet
<1>10. QED
  BY <1>1, <1>2, <1>3, <1>4, <1>5, <1>6, <1>7, <1>8, <1>9, EncounterPublished

\* A new message names no maker and no trade.
LEMMA RowTakenMessages ==
  ASSUME MessageInv, IInv', RowTaken
  PROVE  MessageInv'
<1> USE DEF RowTaken
<1>1. MakersNamed'
  BY NewOrderTyped DEF MakersNamed
<1>2. LastTrade'
  BY DEF LastTrade, Trades, IsTrade
<1>3. PriceTimePriority' /\ NoSelfTrade'
  BY DEF PriceTimePriority, NoSelfTrade, IsTrade
<1>4. MessageComplete'
  <2> SUFFICES ASSUME phase' = "idle", HasTaker' PROVE MessageComplete'
    BY DEF MessageComplete
  <2>1. Taker'.type = "Fok" /\ results' = <<TakerItem(fromId', Taker')>>
    BY DEF HasTaker
  <2>2. Taker'.state = "Submitted" /\ fromId' \notin cache'
    <3>1. fromId' \notin cache
      BY DEF SeqIds
    <3>2. QED
      BY <3>1 DEF HasTaker, NewOrder
  <2>3. /\ TakerItem(fromId', Taker').role = "taker" /\ TakerItem(fromId', Taker').id = fromId'
        /\ TakerItem(fromId', Taker').state = "Canceled"
    BY <2>1, <2>2 DEF TakerItem, finalizeTaker, finalizeTakerFok
  <2>4. /\ Len(results') = 1 /\ results'[1] = TakerItem(fromId', Taker')
        /\ DOMAIN results' = {1}
    BY <2>1
  <2> HIDE DEF RowTaken
  <2>5. StatesTell'
    <3>1. /\ results'[1].role = "taker" /\ results'[1].state = "Canceled"
          /\ results'[1].id \notin cache'
      BY <2>2, <2>3, <2>4
    <3>2. QED
      BY <2>4, <3>1 DEF StatesTell
  <2>6. QED
    BY <2>1, <2>3, <2>4, <2>5 DEF MessageComplete
<1>5. QED
  BY <1>1, <1>2, <1>3, <1>4 DEF MessageInv

\* An encounter adds the item of its maker.
LEMMA HeadMetMessages ==
  ASSUME MessageInv, IInv', NEW m \in Counterparties, NEW e, HeadMet(m, e)
  PROVE  MessageInv'
<1>0. IInv
  BY DEF MessageInv
<1> DEFINE n == Len(results)
<1>1. /\ phase = "matching" /\ phase' = "matching" /\ fromId' = fromId
      /\ ~EndsLoop(Taker) /\ Taker' = e.taker /\ orders'[m] = e.maker
      /\ m \in cache /\ m < fromId /\ IsHead(m, Opposite(Taker.side))
      /\ results' = IF e.item THEN Append(results, MakerItem(m, e)) ELSE results
      /\ lastPrice' = PriceAfter(e)
      /\ e.item \in BOOLEAN
      /\ SameTerms(e.taker, Taker) /\ SameTerms(e.maker, orders[m])
  BY DEF HeadMet, TakerAfter, MakerAfter
<1>2. /\ fromId \in SeqIds /\ fromId # m /\ m \in SeqIds
      /\ Taker \in OrderRecord /\ orders[m] \in OrderRecord
      /\ e.maker.price = orders[m].price /\ orders[m].price > 0
      /\ \A i \in SeqIds \ {fromId, m} : orders'[i] = orders[i]
      /\ cache' \subseteq cache /\ (LeavesBook(e.maker) => m \notin cache')
      /\ Counterparties' \subseteq Counterparties
  BY <1>0, HeadMetFacts
<1>3. ASSUME NEW i \in SeqIds
      PROVE  orders'[i].user = orders[i].user /\ orders'[i].price = orders[i].price
  BY <1>1, <1>2 DEF SameTerms, Taker
<1>4. /\ DOMAIN results = 1 .. n /\ n \in Nat
      /\ \A k \in DOMAIN results :
           k \in DOMAIN results' /\ results'[k] = results[k] /\ results[k].id \in SeqIds
      /\ \A k \in DOMAIN results' :
           \/ k \in DOMAIN results
           \/ e.item /\ k = n + 1 /\ results'[k] = MakerItem(m, e)
      /\ e.item => n + 1 \in DOMAIN results' /\ results'[n + 1] = MakerItem(m, e)
  <2>1. /\ DOMAIN results = 1 .. n /\ n \in Nat
        /\ \A k \in DOMAIN results : results[k].id \in SeqIds
    BY <1>0, ResultsTyped
  <2>2. CASE e.item
    <3>1. results' = Append(results, MakerItem(m, e))
      BY <1>1, <2>2
    <3>2. QED
      BY <1>0, <2>1, <2>2, <3>1, Appended
  <2>3. CASE ~e.item
    BY <1>1, <2>1, <2>3
  <2>4. QED
    BY <2>2, <2>3
<1>5. /\ MakerItem(m, e).id = m /\ MakerItem(m, e).role = "maker"
      /\ MakerItem(m, e).price = orders[m].price
      /\ MakerItem(m, e).state = e.maker.state
  BY <1>2 DEF MakerItem
<1>6. ASSUME e.item, NEW k \in DOMAIN results PROVE results[k].id # m
  <2>1. ~TooLittleCash(Taker, orders[m])
    BY <1>0, <1>6, HeadMetFacts
  <2>2. results[k].id \in cache => TooLittleCash(Taker, orders[results[k].id])
    BY <1>1, <1>6 DEF MessageInv, MakersNamed
  <2>3. QED
    BY <1>1, <2>1, <2>2
<1>7. /\ cache' = IF LeavesBook(e.maker) THEN cache \ {m} ELSE cache
      /\ ~LeavesBook(e.maker) => e.maker.state \in Open
      /\ LeavesBook(e.maker) => e.maker.state \notin Open \cup {""}
      /\ ~e.item => e.maker = orders[m]
  BY <1>0, HeadMetFacts DEF HeadMet, MakerAfter, LeavesBook, Open
<1>8. ASSUME NEW k \in DOMAIN results'
      PROVE  /\ results'[k].state # ""
             /\ results'[k].state \in Open <=> results'[k].id \in cache'
  <2>1. CASE k \in DOMAIN results
    <3>1. /\ results'[k] = results[k] /\ results[k].state # ""
          /\ results[k].state \in Open <=> results[k].id \in cache
      BY <1>1, <1>4, <2>1 DEF MessageInv, MakersNamed
    <3>2. CASE e.item
      BY <1>6, <1>7, <2>1, <3>1, <3>2
    <3>3. CASE ~e.item
      <4>1. orders[m].state \in Open
        BY <1>0, <1>1, RestingOrder
      <4>2. cache' = cache
        BY <1>7, <3>3, <4>1
      <4>3. QED
        BY <3>1, <4>2
    <3>4. QED
      BY <3>2, <3>3
  <2>2. CASE e.item /\ k = n + 1 /\ results'[k] = MakerItem(m, e)
    BY <1>1, <1>5, <1>7, <2>2 DEF Open
  <2>3. QED
    BY <1>4, <2>1, <2>2
<1>9. MakersNamed'
  <2>1. ASSUME NEW k \in DOMAIN results'
        PROVE  /\ results'[k].role = "maker" /\ results'[k].id < fromId'
               /\ results'[k].id \in cache' /\ ~EndsLoop(Taker')
                    => TooLittleCash(Taker, orders[results[k].id])'
    <3>1. CASE k \in DOMAIN results
      <4> DEFINE i == results[k].id
      <4>1. results'[k] = results[k] /\ i \in SeqIds
        BY <1>4, <3>1
      <4>2. /\ results[k].role = "maker" /\ i < fromId
            /\ i \in cache => TooLittleCash(Taker, orders[i])
        BY <1>1, <3>1 DEF MessageInv, MakersNamed
      <4>3. ASSUME i \in cache'
            PROVE  PaysCash(Taker) /\ unitPrice(orders[i]) > Taker.unfilled
        BY <1>2, <4>2, <4>3 DEF TooLittleCash
      <4>4. e.taker.unfilled <= Taker.unfilled
        BY <1>0, HeadMetFacts
      <4>5. orders'[i].price = orders[i].price
        BY <1>3, <4>1
      <4>6. ASSUME i \in cache' PROVE TooLittleCash(Taker', orders'[i])
        <5>1. unitPrice(orders'[i]) = unitPrice(orders[i])
          BY <4>5 DEF unitPrice
        <5>2. i \in cache /\ unitPrice(orders[i]) \in Nat
          <6>1. i \in cache
            BY <1>2, <4>6
          <6>2. orders[i].price \in Nat
            BY <1>0, <6>1, RestingOrder DEF OrderRecord
          <6>3. QED
            BY <6>1, <6>2, ConstAssumption DEF unitPrice
        <5>3. Taker.unfilled \in Nat /\ e.taker.unfilled \in Nat
          BY <1>2 DEF OrderRecord, HeadMet, TakerAfter
        <5>4. PaysCash(Taker')
          BY <1>1, <4>3, <4>6 DEF PaysCash, SameTerms
        <5> HIDE DEF i
        <5>5. QED
          BY <1>1, <4>3, <4>4, <4>6, <5>1, <5>2, <5>3, <5>4 DEF TooLittleCash
      <4>7. QED
        BY <1>1, <4>1, <4>2, <4>6
    <3>2. CASE e.item /\ k = n + 1 /\ results'[k] = MakerItem(m, e)
      <4>1. ASSUME m \in cache', ~EndsLoop(Taker')
            PROVE  TooLittleCash(Taker', orders'[m])
        <5>1. PaysCash(Taker) /\ unitPrice(orders[m]) > e.taker.unfilled
          BY <1>0, <1>1, <1>2, <3>2, <4>1, HeadMetFacts
        <5>2. QED
          BY <1>1, <1>2, <5>1 DEF TooLittleCash, unitPrice, PaysCash, SameTerms
      <4>2. QED
        BY <1>1, <1>5, <3>2, <4>1
    <3>3. QED
      BY <1>4, <3>1, <3>2
  <2>2. ASSUME NEW j \in DOMAIN results', NEW k \in DOMAIN results',
               results'[j].id = results'[k].id
        PROVE  j = k
    <3>1. \A a, b \in DOMAIN results : results[a].id = results[b].id => a = b
      BY <1>1 DEF MessageInv, MakersNamed
    <3>2. QED
      BY <1>4, <1>5, <1>6, <2>2, <3>1
  <2>3. Taker'.state = "PrecisionCanceled" => PaysCash(Taker')
    <3>1. e.taker.state = "PrecisionCanceled" => PaysCash(Taker)
      BY <1>0, HeadMetFacts
    <3>2. QED
      BY <1>1, <3>1 DEF PaysCash, SameTerms
  <2>4. QED
    BY <1>8, <2>1, <2>2, <2>3 DEF MakersNamed
<1>10. LastTrade'
  <2>1. CASE e.item /\ e.maker.state \in {"Filled", "PartialFilled"}
    <3>1. lastPrice' = orders[m].price /\ lastPrice' > 0
      BY <1>1, <1>2, <2>1 DEF PriceAfter
    <3>2. n + 1 \in Trades' /\ lastPrice' = results'[n + 1].price
      BY <1>4, <1>5, <2>1, <3>1 DEF Trades, IsTrade
    <3>3. \A j \in Trades' : j <= n + 1
      BY <1>4 DEF Trades
    <3>4. QED
      BY <3>1, <3>2, <3>3 DEF LastTrade
  <2>2. CASE ~(e.item /\ e.maker.state \in {"Filled", "PartialFilled"})
    <3>1. lastPrice' = lastPrice
      BY <1>1, <2>2 DEF PriceAfter
    <3>2. Trades' = Trades /\ \A k \in Trades : results'[k] = results[k]
      BY <1>4, <1>5, <2>2 DEF Trades, IsTrade
    <3>3. QED
      BY <3>1, <3>2 DEF MessageInv, LastTrade
  <2>3. QED
    BY <2>1, <2>2
<1>11. PriceTimePriority'
  <2> SUFFICES ASSUME NEW k \in DOMAIN results', results'[k].role = "maker",
                      NEW j \in Counterparties', j # results'[k].id
               PROVE  \/ IF Taker'.side = "Buy"
                         THEN orders'[j].price > results'[k].price
                         ELSE orders'[j].price < results'[k].price
                      \/ orders'[j].price = results'[k].price /\ results'[k].id < j
    BY DEF PriceTimePriority
  <2>1. j \in Counterparties /\ j \in SeqIds /\ orders[j].side = Opposite(Taker.side)
    <3>1. Opposite(Taker.side) \in Sides
      BY <1>0, <1>1, InHand
    <3>2. QED
      BY <1>0, <1>2, <3>1, SidesOK DEF SideOK, Counterparties
  <2>2. orders'[j].price = orders[j].price /\ Taker'.side = Taker.side
    BY <1>1, <1>3, <2>1 DEF SameTerms
  <2>3. CASE k \in DOMAIN results
    BY <1>4, <2>1, <2>2, <2>3 DEF MessageInv, PriceTimePriority
  <2>4. CASE e.item /\ k = n + 1 /\ results'[k] = MakerItem(m, e)
    <3>1. Before(m, j)
      BY <1>1, <1>5, <2>1, <2>4 DEF IsHead, Counterparties
    <3>2. orders[m].side = Opposite(Taker.side)
      <4>1. Opposite(Taker.side) \in Sides
        BY <1>0, <1>1, InHand
      <4>2. QED
        BY <1>0, <4>1, SidesOK DEF SideOK, Counterparties
    <3>3. orders[m].price \in Nat /\ orders[j].price \in Nat
      BY <1>0, <1>2, <2>1, <3>2, SidesOK, InHand, <1>1 DEF SideOK, Counterparties, OrderRecord
    <3>4. QED
      BY <1>5, <2>2, <2>4, <3>1, <3>2, <3>3 DEF Before, Opposite
  <2>5. QED
    BY <1>4, <2>3, <2>4
<1>12. NoSelfTrade'
  <2> SUFFICES ASSUME NEW k \in DOMAIN results', IsTrade(results'[k]), Taker'.stp # "AST"
               PROVE  orders'[results'[k].id].user # Taker'.user
    BY DEF NoSelfTrade, IsTrade
  <2>1. Taker'.user = Taker.user /\ Taker.stp # "AST"
    BY <1>1 DEF SameTerms
  <2>2. CASE k \in DOMAIN results
    <3>1. orders[results[k].id].user # Taker.user
      BY <1>4, <2>1, <2>2 DEF MessageInv, NoSelfTrade
    <3>2. QED
      BY <1>3, <1>4, <2>1, <2>2, <3>1
  <2>3. CASE e.item /\ k = n + 1 /\ results'[k] = MakerItem(m, e)
    <3>1. ~IsSelfTrade(Taker, orders[m])
      BY <1>0, <1>5, <2>3, HeadMetFacts DEF IsTrade
    <3>2. QED
      BY <1>2, <1>3, <1>5, <2>1, <2>3, <3>1 DEF IsSelfTrade
  <2>4. QED
    BY <1>4, <2>2, <2>3
<1>13. MessageComplete'
  BY <1>1 DEF MessageComplete
<1>14. QED
  BY <1>9, <1>10, <1>11, <1>12, <1>13 DEF MessageInv

\* The taker's item completes the message.
LEMMA PublishedMessages ==
  ASSUME MessageInv, IInv', NEW o \in OrderRecord, Published(o)
  PROVE  MessageInv'
<1>0. IInv
  BY DEF MessageInv
<1> DEFINE n == Len(results)
           last == TakerItem(fromId, o)
<1>1. /\ phase = "matching" /\ phase' = "idle" /\ fromId' = fromId
      /\ SameTerms(o, Taker) /\ Taker' = o
      /\ \A i \in SeqIds \ {fromId} : orders'[i] = orders[i]
      /\ orderSet(Opposite(Taker.side))' = Counterparties
      /\ results' = Append(results, last)
      /\ lastPrice' = lastPrice
      /\ cache \subseteq cache' /\ cache' \subseteq cache \cup {fromId}
      /\ o.state \in Open /\ o.type # "Market" => fromId \in cache'
  BY DEF Published
<1>2. /\ fromId \in SeqIds /\ fromId \in Nat /\ Taker \in OrderRecord
      /\ Taker.type \in {"Market", "Limit", "Fok"} /\ Taker.side \in Sides
      /\ Opposite(Taker.side) \in Sides /\ fromId \notin cache
  BY <1>0, <1>1, InHand
<1>3. /\ DOMAIN results = 1 .. n /\ n \in Nat
      /\ Len(results') = n + 1 /\ DOMAIN results' = 1 .. n + 1
      /\ results'[n + 1] = last
      /\ \A k \in DOMAIN results :
           k \in DOMAIN results' /\ results'[k] = results[k] /\ results[k].id \in SeqIds
      /\ \A k \in DOMAIN results' : k \in DOMAIN results \/ k = n + 1
  BY <1>0, <1>1, ResultsTyped, Appended
<1>4. last.role = "taker" /\ last.id = fromId /\ last.state = finalizeTaker(o)
  BY DEF TakerItem
<1>5. /\ \A k \in DOMAIN results :
           /\ results[k].role = "maker" /\ results[k].id < fromId
      /\ \A j, k \in DOMAIN results : results[j].id = results[k].id => j = k
      /\ Taker.state = "PrecisionCanceled" => PaysCash(Taker)
  BY <1>1 DEF MessageInv, MakersNamed
<1>6. \A k \in DOMAIN results :
        /\ results[k].state # ""
        /\ results[k].state \in Open <=> results[k].id \in cache
  BY <1>1 DEF MessageInv, MakersNamed
<1> HIDE DEF n, last
<1>7. MakersNamed'
  BY <1>1 DEF MakersNamed
<1>8. LastTrade'
  <2>1. Trades' = Trades /\ \A k \in Trades : results'[k] = results[k]
    BY <1>3, <1>4 DEF Trades, IsTrade
  <2>2. QED
    BY <1>1, <2>1 DEF MessageInv, LastTrade
<1>9. PriceTimePriority'
  <2>1. Taker'.side = Taker.side /\ Counterparties' = Counterparties
    BY <1>1 DEF SameTerms, Counterparties
  <2>2. \A j \in Counterparties : orders'[j] = orders[j]
    <3>1. Counterparties \subseteq cache
      BY <1>0, <1>2, SidesOK DEF Counterparties
    <3>2. QED
      BY <1>0, <1>1, <1>2, <3>1, RestingOrder
  <2>3. QED
    BY <1>3, <1>4, <2>1, <2>2 DEF MessageInv, PriceTimePriority
<1>10. NoSelfTrade'
  <2>1. Taker'.user = Taker.user /\ Taker'.stp = Taker.stp
    BY <1>1 DEF SameTerms
  <2>2. \A i \in SeqIds : orders'[i].user = orders[i].user
    BY <1>1, <2>1 DEF Taker
  <2>3. QED
    BY <1>3, <1>4, <2>1, <2>2 DEF MessageInv, NoSelfTrade, IsTrade
<1>11. MessageComplete'
  <2>1. ASSUME Taker.type # "Fok" PROVE finalizeTaker(o) # ""
    <3>1. o.type = Taker.type
      BY <1>1 DEF SameTerms
    <3>2. Taker.state \in Open \cup {"Filled", "SelfTradeCanceled",
                                     "SelfTradePartialCanceled", "PrecisionCanceled"}
      BY <1>0, <1>1 DEF IInv, TakerInHand
    <3>3. Taker.state = "PrecisionCanceled" => Taker.type = "Market"
      BY <1>5 DEF PaysCash
    <3>4. \/ o.state = Taker.state
          \/ o.state = "CircuitCanceled" /\ Taker.type # "Limit"
      BY <2>1 DEF Published
    <3>5. CASE Taker.type = "Market"
      <4>1. finalizeTaker(o) = finalizeTakerMarket(o.state)
        BY <3>1, <3>5 DEF finalizeTaker
      <4>2. o.state \in {"Submitted", "PartialFilled", "SelfTradeDecreased",
                         "CircuitCanceled", "SelfTradeCanceled", "Filled",
                         "SelfTradePartialCanceled", "PrecisionCanceled"}
        BY <3>2, <3>4 DEF Open
      <4>3. QED
        BY <4>1, <4>2 DEF finalizeTakerMarket
    <3>6. CASE Taker.type = "Limit"
      <4>1. finalizeTaker(o) = finalizeTakerLimit(o.state)
        BY <3>1, <3>6 DEF finalizeTaker
      <4>2. o.state \in Open \cup {"Filled", "SelfTradeCanceled", "SelfTradePartialCanceled"}
        BY <3>2, <3>3, <3>4, <3>6
      <4>3. QED
        BY <4>1, <4>2 DEF finalizeTakerLimit, Open
    <3>7. QED
      BY <1>2, <2>1, <3>5, <3>6
  <2>2. Taker'.type = Taker.type
    BY <1>1 DEF SameTerms
  <2>3. \A k \in DOMAIN results : results[k].id # fromId
    BY <1>2, <1>5
  <2>4. \A j, k \in 1 .. n + 1 : results'[j].id = results'[k].id => j = k
    BY <1>3, <1>4, <1>5, <2>3
  <2>5. \A k \in 1 .. (n + 1) - 1 : results'[k].role = "maker"
    BY <1>3, <1>5
  <2>6. finalizeTaker(o) \in Open <=> fromId \in cache'
    <3>1. o.type = Taker.type
      BY <1>1 DEF SameTerms
    <3>2. ASSUME finalizeTaker(o) \in Open PROVE fromId \in cache'
      <4>1. o.type # "Market"
        BY <3>2 DEF finalizeTaker, finalizeTakerMarket, Open
      <4>2. o.state \in Open
        BY <1>2, <3>1, <3>2, <4>1 DEF finalizeTaker, finalizeTakerLimit, finalizeTakerFok, Open
      <4>3. QED
        BY <1>1, <4>1, <4>2
    <3>3. ASSUME fromId \in cache' PROVE finalizeTaker(o) \in Open
      <4>1. o.type = "Limit" /\ o.state \in Open
        BY <1>1, <3>3 DEF IInv, BookInStep, Open, Taker
      <4>2. QED
        BY <4>1 DEF finalizeTaker, finalizeTakerLimit, Open
    <3>4. QED
      BY <3>2, <3>3
  <2>7. ASSUME NEW k \in 1 .. n + 1
        PROVE  /\ results'[k].role = "maker" => results'[k].state # ""
               /\ results'[k].state \in Open <=> results'[k].id \in cache'
    <3>1. CASE k \in DOMAIN results
      <4>1. results'[k] = results[k] /\ results[k].id # fromId
        BY <1>3, <2>3, <3>1
      <4>2. /\ results[k].state # ""
            /\ results[k].state \in Open <=> results[k].id \in cache
        BY <1>6, <3>1
      <4>3. results[k].id \in cache <=> results[k].id \in cache'
        BY <1>1, <4>1
      <4>4. QED
        BY <4>1, <4>2, <4>3
    <3>2. CASE k = n + 1
      BY <1>3, <1>4, <2>6, <3>2
    <3>3. QED
      BY <1>3, <3>1, <3>2
  <2>8. /\ results'[n + 1].role = "taker" /\ results'[n + 1].id = fromId'
        /\ Taker'.type # "Fok" => results'[n + 1].state # ""
    BY <1>1, <1>3, <1>4, <2>1, <2>2
  <2>9. Len(results') = n + 1 /\ n + 1 > 0
    BY <1>3
  <2>10. /\ Len(results') > 0
         /\ results'[Len(results')].role = "taker"
         /\ results'[Len(results')].id = fromId'
         /\ Taker'.type # "Fok" => results'[Len(results')].state # ""
    BY <2>8, <2>9
  <2>11. \A j, k \in 1 .. Len(results') : results'[j].id = results'[k].id => j = k
    BY <2>4, <2>9
  <2>12. \A k \in 1 .. Len(results') - 1 : results'[k].role = "maker"
    BY <2>5, <2>9
  <2>13. StatesTell'
    BY <1>3, <2>7 DEF StatesTell, Open
  <2>14. QED
    BY <2>10, <2>11, <2>12, <2>13 DEF MessageComplete
<1>12. QED
  BY <1>7, <1>8, <1>9, <1>10, <1>11 DEF MessageInv

\* A process that ended sends nothing more.
LEMMA HaltedMessages ==
  ASSUME MessageInv, IInv', Halted
  PROVE  MessageInv'
<1>1. /\ Taker' = Taker /\ Counterparties' = Counterparties
      /\ Trades' = Trades /\ HasTaker' = HasTaker
  BY DEF Halted, Taker, Counterparties, orderSet, Trades, HasTaker
<1>2. phase' = phase \/ phase' = "dead"
  BY DEF Halted
<1>3. MakersNamed' /\ MessageComplete'
  BY <1>1, <1>2
     DEF Halted, MessageInv, MakersNamed, MessageComplete, TooLittleCash, StatesTell
<1>4. LastTrade'
  BY <1>1 DEF Halted, MessageInv, LastTrade
<1>5. PriceTimePriority' /\ NoSelfTrade'
  BY <1>1 DEF Halted, MessageInv, PriceTimePriority, NoSelfTrade
<1>6. QED
  BY <1>3, <1>4, <1>5 DEF MessageInv

\* No message is there at first.
LEMMA InitMessages == Init => MessageInv
<1> SUFFICES ASSUME Init PROVE MessageInv
  OBVIOUS
<1>1. results = <<>> /\ phase = "idle" /\ fromId = 0 /\ lastPrice = 0
  BY DEF Init
<1>2. QED
  BY <1>1, InitInv DEF MessageInv, MakersNamed, LastTrade, Trades, PriceTimePriority,
     NoSelfTrade, MessageComplete, HasTaker

\* Every step keeps what the messages say.
LEMMA StepMessages == MessageInv /\ [Next]_vars => MessageInv'
<1> SUFFICES ASSUME MessageInv, [Next]_vars PROVE MessageInv'
  OBVIOUS
<1>1. IInv /\ IInv'
  BY StepInv DEF MessageInv
<1>2. QED
  BY <1>1, Steps, RowTakenMessages, HeadMetMessages, PublishedMessages, HaltedMessages

\* The inductive invariant of the messages.
THEOREM MessagesInvariant == Spec => []MessageInv
BY InitMessages, StepMessages, PTL DEF Spec

\* At no point of a message is an order left on the book that should have been
\* met before a maker the message names.
THEOREM PriceTimeKept == Spec => []PriceTimePriority
<1>1. MessageInv => PriceTimePriority
  BY DEF MessageInv
<1>2. QED
  BY <1>1, MessagesInvariant, PTL

\* No order with a self-trade strategy trades with an order of its own user.
THEOREM NeverWithItself == Spec => []NoSelfTrade
<1>1. MessageInv => NoSelfTrade
  BY DEF MessageInv
<1>2. QED
  BY <1>1, MessagesInvariant, PTL

\* A message names every order once, the taker last, and the state it gives an
\* order is one of a resting order exactly if the order is on the book then.
THEOREM MessagesComplete == Spec => []MessageComplete
<1>1. MessageInv => MessageComplete
  BY DEF MessageInv
<1>2. QED
  BY <1>1, MessagesInvariant, PTL

\* The price of a message is the price of its last trade.
THEOREM PriceFollowsTrades == Spec => []PriceIsLastTrade
<1>1. MessageInv => PriceIsLastTrade
  <2> SUFFICES ASSUME MessageInv PROVE PriceIsLastTrade
    OBVIOUS
  <2>1. CASE Trades = {} /\ lastPrice = 0
    BY <2>1 DEF PriceIsLastTrade
  <2>2. CASE ~(Trades = {} /\ lastPrice = 0)
    <3>1. PICK k \in Trades : /\ \A j \in Trades : j <= k
                              /\ lastPrice = results[k].price
                              /\ lastPrice > 0
      BY <2>2 DEF MessageInv, LastTrade
    <3>2. Trades \subseteq Nat
      BY ResultsTyped DEF MessageInv, Trades
    <3>3. Max(Trades) = k
      <4>1. /\ \A y \in Trades : k >= y
            /\ \A x \in Trades : (\A y \in Trades : x >= y) => x = k
        BY <3>1, <3>2
      <4>2. QED
        BY <4>1 DEF Max
    <3>4. QED
      BY <3>1, <3>3 DEF PriceIsLastTrade
  <2>3. QED
    BY <2>1, <2>2
<1>2. QED
  BY <1>1, MessagesInvariant, PTL

-----------------------------------------------------------------------------
(* The items account for the taker *)

\* s adds up what the items take off the taker, one after the other.
Totals(s) ==
  /\ s \in [0 .. Len(results) -> Nat]
  /\ s[0] = 0
  /\ \A k \in 1 .. Len(results) : s[k] = s[k - 1] + Consumed(k)

\* MessageAddsUp with the totals named.
Accounted ==
  HasTaker => \E s : Totals(s) /\ s[Len(results)] = Taker.amount - Taker.unfilled

\* The recursive function of MessageAddsUp is the one Totals describes.
LEMMA TotalsAreUnique ==
  ASSUME NEW n \in Nat, NEW c, NEW s,
         s[0] = 0, \A k \in 1 .. n : s[k] = s[k - 1] + c[k],
         NEW f, f[0] = 0, \A k \in 1 .. n : f[k] = f[k - 1] + c[k]
  PROVE  f[n] = s[n]
<1> DEFINE bad == {k \in 0 .. n : f[k] # s[k]}
<1>1. bad # {} => \E k \in bad : \A j \in bad : k <= j
  <2>1. bad \subseteq Nat
    OBVIOUS
  <2> HIDE DEF bad
  <2>2. QED
    BY <2>1, LeastNumber
<1>2. ASSUME NEW k \in bad, \A j \in bad : k <= j
      PROVE  FALSE
  <2>1. CASE k = 0
    BY <2>1
  <2>2. CASE k # 0
    <3>1. k \in 1 .. n /\ k - 1 \in 0 .. n /\ k - 1 \notin bad
      BY <1>2, <2>2
    <3>2. f[k - 1] = s[k - 1]
      BY <3>1
    <3>3. f[k] = f[k - 1] + c[k]
      BY <3>1
    <3>4. QED
      BY <3>1, <3>2, <3>3
  <2>3. QED
    BY <2>1, <2>2
<1>3. bad = {}
  <2> HIDE DEF bad
  <2>1. QED
    BY <1>1, <1>2
<1>4. n \in 0 .. n
  OBVIOUS
<1>5. QED
  BY <1>3, <1>4

\* Running totals kept with the message are the witness for MessageAddsUp.
LEMMA AddsUp ==
  ASSUME IInv, Accounted
  PROVE  MessageAddsUp
<1> SUFFICES ASSUME HasTaker PROVE MessageAddsUp
  BY DEF MessageAddsUp
<1> DEFINE n == Len(results)
           c == [k \in 1 .. n |-> Consumed(k)]
           IsUsed(f) == f = [k \in 0 .. n |-> IF k = 0 THEN 0 ELSE f[k - 1] + Consumed(k)]
           used == CHOOSE f : IsUsed(f)
<1>1. n \in Nat
  BY ResultsTyped
<1>2. PICK s : Totals(s) /\ s[n] = Taker.amount - Taker.unfilled
  BY DEF Accounted
<1>3. IsUsed(s)
  <2>1. s = [k \in 0 .. n |-> s[k]]
    BY <1>2 DEF Totals
  <2>2. \A k \in 0 .. n : s[k] = IF k = 0 THEN 0 ELSE s[k - 1] + Consumed(k)
    <3> HIDE DEF c
    <3>1. QED
      BY <1>1, <1>2 DEF Totals
  <2> HIDE DEF n
  <2>3. QED
    BY <2>1, <2>2
<1>4. IsUsed(used)
  <2> HIDE DEF IsUsed
  <2>1. QED
    BY <1>3
<1>5. used[n] = s[n]
  <2> HIDE DEF used
  <2>1. used[0] = 0 /\ \A k \in 1 .. n : used[k] = used[k - 1] + c[k]
    <3>1. used = [k \in 0 .. n |-> IF k = 0 THEN 0 ELSE used[k - 1] + Consumed(k)]
      BY <1>4
    <3>2. \A k \in 1 .. n : k \in 0 .. n /\ k # 0 /\ c[k] = Consumed(k)
      BY <1>1
    <3>3. 0 \in 0 .. n
      BY <1>1
    <3> HIDE DEF n, c
    <3>4. QED
      BY <3>1, <3>2, <3>3
  <2>2. \A k \in 1 .. n : s[k] = s[k - 1] + c[k]
    BY <1>2 DEF Totals
  <2>3. s[0] = 0
    BY <1>2 DEF Totals
  <2> HIDE DEF n, c, IsUsed
  <2>4. QED
    BY <1>1, <2>1, <2>2, <2>3, TotalsAreUnique
<1>6. QED
  BY <1>2, <1>5 DEF MessageAddsUp

\* A new message takes nothing off its taker.
LEMMA RowTakenAccounted ==
  ASSUME IInv', RowTaken
  PROVE  Accounted'
<1> SUFFICES ASSUME HasTaker' PROVE Accounted'
  BY DEF Accounted
<1> DEFINE n == Len(results')
<1>0. PICK s : s = [k \in 0 .. n |-> 0]
  OBVIOUS
<1>1. n \in Nat /\ DOMAIN results' = 1 .. n
  BY DEF IInv, TypeOK
<1>2. \A k \in 1 .. n : Consumed(k)' = 0
  <2>1. \A k \in 1 .. n : results'[k].role = "taker"
    BY <1>1 DEF RowTaken
  <2>2. ASSUME NEW k \in 1 .. n PROVE Consumed(k)' = 0
    <3>1. results'[k].role # "maker"
      BY <2>1
    <3>2. QED
      BY <3>1 DEF Consumed, IsTrade
  <2>3. QED
    BY <2>2
<1>3. Taker'.amount - Taker'.unfilled = 0
  <2>1. PICK o \in Inputs : Taker' = NewOrder(o)
    BY DEF RowTaken, HasTaker
  <2>2. Taker'.unfilled = Taker'.amount /\ Taker'.amount \in Nat
    BY <2>1, NewOrderTyped DEF NewOrder, OrderRecord
  <2>3. QED
    BY <2>2
<1>4. Totals(s)'
  <2>1. s \in [0 .. n -> Nat] /\ s[0] = 0
    BY <1>0, <1>1
  <2>2. \A k \in 1 .. n : s[k] = s[k - 1] + Consumed(k)'
    <3>1. \A k \in 1 .. n : s[k] = 0 /\ s[k - 1] = 0
      BY <1>0, <1>1
    <3> HIDE DEF n
    <3>2. QED
      BY <1>2, <3>1
  <2>3. QED
    BY <2>1, <2>2 DEF Totals
<1>5. s[n] = 0
  BY <1>0, <1>1
<1>6. QED
  BY <1>3, <1>4, <1>5 DEF Accounted

\* The new item is what the taker loses; what the others took stays.
LEMMA HeadMetAccounted ==
  ASSUME MessageInv, Accounted, NEW m \in Counterparties, NEW e, HeadMet(m, e)
  PROVE  Accounted'
<1>0. IInv
  BY DEF MessageInv
<1> DEFINE drop == Taker.unfilled - e.taker.unfilled
<1>n. PICK n : n = Len(results)
  OBVIOUS
<1>1. /\ phase = "matching" /\ ~EndsLoop(Taker) /\ Taker' = e.taker
      /\ results' = IF e.item THEN Append(results, MakerItem(m, e)) ELSE results
      /\ e.item \in BOOLEAN /\ e.filled \in Nat
      /\ SameTerms(e.taker, Taker)
  BY DEF HeadMet, TakerAfter
<1>2. /\ Taker \in OrderRecord /\ e.taker \in OrderRecord
      /\ orders[m].price \in Nat /\ e.maker.price = orders[m].price
      /\ drop = IF e.item /\ (\/ e.maker.state \in {"Filled", "PartialFilled"}
                              \/ Taker.stp = "DC" /\ ~StCanceled(e.taker))
                THEN Worth(Taker, e.filled, orders[m].price) ELSE 0
      /\ ~e.item /\ StCanceled(e.taker) => Taker.stp # "DC"
  <2>1. e.taker \in OrderRecord
    BY DEF HeadMet, TakerAfter
  <2>2. /\ Taker \in OrderRecord /\ orders[m] \in OrderRecord
        /\ e.maker.price = orders[m].price
        /\ drop = IF e.item /\ (\/ e.maker.state \in {"Filled", "PartialFilled"}
                                \/ Taker.stp = "DC" /\ ~StCanceled(e.taker))
                  THEN Worth(Taker, e.filled, orders[m].price) ELSE 0
        /\ ~e.item /\ StCanceled(e.taker) => Taker.stp # "DC"
    BY <1>0, HeadMetFacts
  <2>3. orders[m].price \in Nat
    BY <2>2 DEF OrderRecord
  <2> HIDE DEF drop
  <2>4. QED
    BY <2>1, <2>2, <2>3
<1>3. /\ ~StCanceled(Taker)
      /\ Taker'.stp = Taker.stp /\ PaysCash(Taker') = PaysCash(Taker)
      /\ Taker'.amount = Taker.amount /\ Taker.amount \in Nat
      /\ Taker.unfilled \in Nat /\ e.taker.unfilled \in Nat
      /\ drop \in Nat
  <2>1. ~StCanceled(Taker)
    BY <1>1 DEF StCanceled, EndsLoop
  <2>2. /\ Taker'.stp = Taker.stp /\ PaysCash(Taker') = PaysCash(Taker)
        /\ Taker'.amount = Taker.amount
    BY <1>1 DEF SameTerms, PaysCash
  <2>3. /\ Taker.amount \in Nat /\ Taker.unfilled \in Nat /\ e.taker.unfilled \in Nat
    BY <1>2 DEF OrderRecord
  <2>4. drop \in Nat
    BY <1>1, <1>2 DEF Worth
  <2>5. QED
    BY <2>1, <2>2, <2>3, <2>4
<1>4. PICK s : Totals(s) /\ s[n] = Taker.amount - Taker.unfilled
  BY <1>0, <1>1, <1>n, InHand DEF Accounted
<1>5. n \in Nat /\ DOMAIN results = 1 .. n
  BY <1>0, <1>n, ResultsTyped
<1>6. \A k \in 1 .. n : results[k].role = "maker"
  BY <1>1, <1>5 DEF MessageInv, MakersNamed
<1>7. /\ s \in [0 .. n -> Nat] /\ s[0] = 0
      /\ \A k \in 1 .. n : s[k] = s[k - 1] + Consumed(k)
  BY <1>4, <1>n DEF Totals
<1>8. \A k \in 1 .. n :
        Consumed(k) = IF IsTrade(results[k]) \/ Taker.stp = "DC"
                      THEN Worth(Taker, results[k].amount, results[k].price) ELSE 0
  BY <1>3, <1>6 DEF Consumed, Worth, StCanceled
<1> HIDE DEF drop
<1>9. CASE e.item
  <2>1. /\ Len(results') = n + 1 /\ DOMAIN results' = 1 .. n + 1
        /\ results'[n + 1] = MakerItem(m, e)
        /\ \A k \in 1 .. n : results'[k] = results[k]
    BY <1>0, <1>1, <1>5, <1>9, <1>n, Appended
  <2>2. \A k \in 1 .. n : Consumed(k)' = Consumed(k)
    <3> SUFFICES ASSUME NEW k \in 1 .. n PROVE Consumed(k)' = Consumed(k)
      OBVIOUS
    <3>1. results'[k] = results[k] /\ results'[k].role = "maker"
      BY <1>6, <2>1
    <3>2. n + 1 \in DOMAIN results' /\ results'[n + 1].role = "maker" /\ ~(n + 1 <= k)
      BY <1>5, <2>1 DEF MakerItem
    <3>3. Consumed(k)' = IF IsTrade(results[k]) \/ Taker.stp = "DC"
                         THEN Worth(Taker, results[k].amount, results[k].price) ELSE 0
      BY <1>3, <3>1, <3>2 DEF Consumed, Worth, IsTrade
    <3>4. QED
      BY <1>8, <3>3
  <2>3. Consumed(n + 1)' = drop
    <3>1. /\ results'[n + 1].role = "maker" /\ results'[n + 1].amount = e.filled
          /\ results'[n + 1].price = orders[m].price
          /\ results'[n + 1].state = e.maker.state
      BY <1>2, <2>1 DEF MakerItem
    <3>2. \A j \in DOMAIN results' : j <= n + 1
      BY <1>5, <2>1
    <3>3. IsTrade(results'[n + 1]) <=> e.maker.state \in {"Filled", "PartialFilled"}
      BY <3>1 DEF IsTrade
    <3>4. Consumed(n + 1)' =
            IF IsTrade(results'[n + 1]) \/ (Taker.stp = "DC" /\ ~StCanceled(Taker'))
            THEN Worth(Taker, e.filled, orders[m].price) ELSE 0
      <4>1. Consumed(n + 1)' =
              IF IsTrade(results'[n + 1]) \/ (Taker'.stp = "DC" /\ ~StCanceled(Taker'))
              THEN Worth(Taker', results'[n + 1].amount, results'[n + 1].price) ELSE 0
        BY <3>1, <3>2 DEF Consumed, Worth, IsTrade, StCanceled
      <4>2. QED
        BY <1>3, <3>1, <4>1 DEF Worth
    <3>5. QED
      BY <1>1, <1>2, <1>9, <3>3, <3>4
  <2>10. PICK u : u = [k \in 0 .. n + 1 |-> IF k = n + 1 THEN s[n] + drop ELSE s[k]]
    OBVIOUS
  <2>4. u \in [0 .. n + 1 -> Nat] /\ u[0] = 0 /\ u[n + 1] = s[n] + drop
    BY <1>3, <1>5, <1>7, <2>10
  <2>5. \A k \in 1 .. n + 1 : u[k] = u[k - 1] + Consumed(k)'
    <3>1. \A k \in 1 .. n : u[k] = s[k] /\ u[k - 1] = s[k - 1]
      BY <1>5, <2>10
    <3>2. u[(n + 1) - 1] = s[n] /\ u[n + 1] = s[n] + drop
      BY <1>5, <2>10
    <3>3. \A k \in 1 .. n : s[k] = s[k - 1] + Consumed(k)'
      BY <1>7, <2>2
    <3>4. \A k \in 1 .. n : u[k] = u[k - 1] + Consumed(k)'
      BY <3>1, <3>3
    <3>5. u[n + 1] = u[(n + 1) - 1] + Consumed(n + 1)'
      BY <2>3, <3>2
    <3>6. \A k \in 1 .. n + 1 : k \in 1 .. n \/ k = n + 1
      BY <1>5
    <3>7. QED
      BY <3>4, <3>5, <3>6
  <2>6. Totals(u)'
    BY <2>1, <2>4, <2>5 DEF Totals
  <2>7. u[Len(results')] = Taker'.amount - Taker'.unfilled
    BY <1>1, <1>3, <1>4, <2>1, <2>4 DEF drop
  <2>8. QED
    BY <2>6, <2>7 DEF Accounted
<1>10. CASE ~e.item
  <2>1. results' = results
    BY <1>1, <1>10
  <2>2. Taker'.stp = "DC" => ~StCanceled(Taker')
    BY <1>1, <1>2, <1>3, <1>10
  <2>3. \A k \in 1 .. n : Consumed(k)' = Consumed(k)
    <3> SUFFICES ASSUME NEW k \in 1 .. n PROVE Consumed(k)' = Consumed(k)
      OBVIOUS
    <3>1. Consumed(k)' = IF IsTrade(results[k]) \/ Taker.stp = "DC"
                         THEN Worth(Taker, results[k].amount, results[k].price) ELSE 0
      BY <1>3, <1>6, <2>1, <2>2 DEF Consumed, Worth, IsTrade, StCanceled
    <3>2. QED
      BY <1>8, <3>1
  <2>4. Totals(s)'
    BY <1>7, <2>1, <2>3, <1>n DEF Totals
  <2>5. s[Len(results')] = Taker'.amount - Taker'.unfilled
    BY <1>1, <1>2, <1>3, <1>4, <1>10, <2>1, <1>n DEF drop
  <2>6. QED
    BY <2>4, <2>5 DEF Accounted
<1>11. QED
  BY <1>1, <1>9, <1>10

\* The taker's own item takes nothing.
LEMMA PublishedAccounted ==
  ASSUME IInv, Accounted, NEW o \in OrderRecord, Published(o)
  PROVE  Accounted'
<1> DEFINE last == TakerItem(fromId, o)
<1>1. /\ phase = "matching" /\ SameTerms(o, Taker) /\ o.unfilled = Taker.unfilled
      /\ Taker' = o /\ results' = Append(results, last)
      /\ \/ o.state = Taker.state
         \/ Taker.state \in Open /\ o.state \in {"Canceled", "CircuitCanceled"}
  BY DEF Published
<1>2. PICK n : n = Len(results)
  OBVIOUS
<1>3. n \in Nat /\ DOMAIN results = 1 .. n
  BY <1>2, ResultsTyped
<1>4. PICK s : Totals(s) /\ s[n] = Taker.amount - Taker.unfilled
  BY <1>1, <1>2, InHand DEF Accounted
<1>5. /\ s \in [0 .. n -> Nat] /\ s[0] = 0
      /\ \A k \in 1 .. n : s[k] = s[k - 1] + Consumed(k)
  BY <1>2, <1>4 DEF Totals
<1>6. /\ StCanceled(Taker') = StCanceled(Taker)
      /\ Taker'.stp = Taker.stp /\ PaysCash(Taker') = PaysCash(Taker)
      /\ Taker'.amount = Taker.amount
  BY <1>1 DEF StCanceled, Open, SameTerms, PaysCash
<1>7. /\ Len(results') = n + 1 /\ DOMAIN results' = 1 .. n + 1
      /\ results'[n + 1].role = "taker"
      /\ \A k \in 1 .. n : results'[k] = results[k]
  BY <1>1, <1>2, <1>3, Appended DEF TakerItem
<1>8. \A k \in 1 .. n : Consumed(k)' = Consumed(k)
  <2> SUFFICES ASSUME NEW k \in 1 .. n PROVE Consumed(k)' = Consumed(k)
    OBVIOUS
  <2>1. results'[k] = results[k]
    BY <1>7
  <2>2. (\A j \in DOMAIN results' : results'[j].role = "maker" => j <= k)
          <=> (\A j \in DOMAIN results : results[j].role = "maker" => j <= k)
    <3>1. \A j \in 1 .. n + 1 : j \in 1 .. n \/ j = n + 1
      BY <1>3
    <3>2. \A j \in 1 .. n : j \in 1 .. n + 1
      BY <1>3
    <3>3. QED
      BY <1>3, <1>7, <3>1, <3>2
  <2>3. QED
    BY <1>6, <2>1, <2>2 DEF Consumed, IsTrade, StCanceled
<1>9. Consumed(n + 1)' = 0
  BY <1>7 DEF Consumed, IsTrade
<1>10. PICK u : u = [k \in 0 .. n + 1 |-> IF k = n + 1 THEN s[n] ELSE s[k]]
  OBVIOUS
<1>11. u \in [0 .. n + 1 -> Nat] /\ u[0] = 0 /\ u[n + 1] = s[n] /\ s[n] \in Nat
  BY <1>3, <1>5, <1>10
<1>12. \A k \in 1 .. n + 1 : u[k] = u[k - 1] + Consumed(k)'
  <2>1. \A k \in 1 .. n : u[k] = s[k] /\ u[k - 1] = s[k - 1]
    BY <1>3, <1>10
  <2>2. u[(n + 1) - 1] = s[n]
    BY <1>3, <1>10
  <2>3. \A k \in 1 .. n : u[k] = u[k - 1] + Consumed(k)'
    BY <1>5, <1>8, <2>1
  <2>4. u[n + 1] = u[(n + 1) - 1] + Consumed(n + 1)'
    BY <1>9, <1>11, <2>2
  <2>5. \A k \in 1 .. n + 1 : k \in 1 .. n \/ k = n + 1
    BY <1>3
  <2>6. QED
    BY <2>3, <2>4, <2>5
<1>13. Totals(u)'
  BY <1>7, <1>11, <1>12 DEF Totals
<1>14. u[Len(results')] = Taker'.amount - Taker'.unfilled
  BY <1>1, <1>4, <1>6, <1>7, <1>11
<1>15. QED
  BY <1>13, <1>14 DEF Accounted

\* The items of every message account for all its taker used up.
THEOREM EverythingAccounted == Spec => []MessageAddsUp
<1> DEFINE Inv == MessageInv /\ Accounted
<1>1. Init => Inv
  <2> SUFFICES ASSUME Init PROVE Inv
    OBVIOUS
  <2>1. ~HasTaker
    BY DEF Init, HasTaker
  <2>2. QED
    BY <2>1, InitMessages DEF Accounted
<1>2. Inv /\ [Next]_vars => Inv'
  <2> SUFFICES ASSUME Inv, [Next]_vars PROVE Inv'
    OBVIOUS
  <2>1. IInv /\ MessageInv' /\ IInv'
    BY StepMessages DEF MessageInv
  <2>2. ASSUME Halted PROVE Accounted'
    BY <2>2 DEF Halted, Accounted, HasTaker, Taker, Totals, Consumed, IsTrade
  <2>3. QED
    BY <2>1, <2>2, Steps, RowTakenAccounted, HeadMetAccounted, PublishedAccounted
<1>3. Inv => MessageAddsUp
  BY AddsUp DEF MessageInv
<1>4. QED
  BY <1>1, <1>2, <1>3, PTL DEF Spec

-----------------------------------------------------------------------------
(* What a step may do to a resting order *)

\* A step takes from a resting order what it publishes and changes nothing else.
THEOREM MovesArePublished == Spec => BookMovesAsPublished
<1> DEFINE A(i) ==
      /\ \A f \in {"user", "side", "type", "price", "amount"} :
           orders'[i][f] = orders[i][f]
      /\ orders'[i].unfilled # orders[i].unfilled =>
           LET item == results'[Len(results')]
           IN  /\ Len(results') = Len(results) + 1
               /\ item.id = i /\ item.role = "maker"
               /\ orders[i].unfilled - orders'[i].unfilled = item.amount
<1>1. ASSUME IInv, [Next]_vars, NEW i \in cache, i \in cache'
      PROVE  A(i)
  <2>1. ASSUME orders'[i] = orders[i] PROVE A(i)
    BY <2>1
  <2>2. ASSUME RowTaken PROVE A(i)
    BY <2>1, <2>2 DEF RowTaken
  <2>3. ASSUME NEW m \in Counterparties, NEW e, HeadMet(m, e) PROVE A(i)
    <3>1. /\ fromId \notin cache /\ i \in SeqIds
          /\ \A j \in SeqIds \ {fromId, m} : orders'[j] = orders[j]
      BY <1>1, <2>3, HeadMetFacts, InHand, RestingOrder DEF HeadMet
    <3>2. CASE i # m
      BY <1>1, <2>1, <3>1, <3>2
    <3>3. CASE i = m
      <4>1. orders'[m] = e.maker /\ SameTerms(e.maker, orders[m])
        BY <2>3 DEF HeadMet, MakerAfter
      <4>2. CASE ~e.item
        <5>1. orders'[m] = orders[m]
          BY <1>1, <2>3, <4>1, <4>2, HeadMetFacts
        <5>2. QED
          BY <2>1, <3>3, <5>1
      <4>3. CASE e.item
        <5>1. ~LeavesBook(e.maker)
          BY <1>1, <2>3, <3>3, HeadMetFacts
        <5>2. orders[m].unfilled - e.maker.unfilled = e.filled
          BY <1>1, <2>3, <4>3, <5>1, HeadMetFacts
        <5>3. results' = Append(results, MakerItem(m, e))
          BY <2>3, <4>3 DEF HeadMet
        <5>4. Len(results') = Len(results) + 1 /\ results'[Len(results')] = MakerItem(m, e)
          BY <1>1, <5>3, Appended
        <5>5. \A f \in {"user", "side", "type", "price", "amount"} :
                orders'[m][f] = orders[m][f]
          BY <4>1 DEF SameTerms
        <5>6. QED
          BY <3>3, <4>1, <5>2, <5>4, <5>5 DEF MakerItem
      <4>4. QED
        BY <2>3, <4>2, <4>3 DEF HeadMet
    <3>4. QED
      BY <3>2, <3>3
  <2>4. ASSUME NEW o \in OrderRecord, Published(o) PROVE A(i)
    <3>1. fromId \notin cache /\ i \in SeqIds
      BY <1>1, <2>4, InHand, RestingOrder DEF Published
    <3>2. QED
      BY <1>1, <2>1, <2>4, <3>1 DEF Published
  <2>5. ASSUME Halted PROVE A(i)
    BY <2>1, <2>5 DEF Halted
  <2> HIDE DEF A
  <2>6. QED
    BY <1>1, <2>2, <2>3, <2>4, <2>5, Steps
<1>2. IInv /\ [Next]_vars => [\A i \in cache \cap cache' : A(i)]_vars
  <2> HIDE DEF A
  <2>1. QED
    BY <1>1
<1>3. QED
  BY <1>2, Invariance, PTL DEF Spec, BookMovesAsPublished

\* No order leaves the book unpublished.
THEOREM LeavingIsPublished == Spec => ExitsArePublished
<1> DEFINE B(i) ==
      \E k \in DOMAIN results' :
        /\ results'[k].id = i
        /\ results'[k].state \in {"Filled", "Canceled", "PartialCanceled",
                                  "SelfTradeCanceled", "SelfTradePartialCanceled"}
<1>1. ASSUME IInv, [Next]_vars, NEW i \in cache, i \notin cache'
      PROVE  B(i)
  <2>1. ASSUME RowTaken PROVE B(i)
    BY <1>1, <2>1 DEF RowTaken, CancelPublished
  <2>2. ASSUME NEW m \in Counterparties, NEW e, HeadMet(m, e) PROVE B(i)
    <3>1. i = m /\ LeavesBook(e.maker)
      BY <1>1, <2>2, HeadMetFacts
    <3>2. e.item
      <4>1. orders[m].state \in Open
        BY <1>1, <3>1, RestingOrder
      <4>2. ~LeavesBook(orders[m])
        BY <4>1 DEF LeavesBook, Open
      <4>3. QED
        BY <1>1, <2>2, <3>1, <4>2, HeadMetFacts DEF HeadMet
    <3>3. results' = Append(results, MakerItem(m, e))
      BY <2>2, <3>2 DEF HeadMet
    <3>4. /\ Len(results) + 1 \in DOMAIN results'
          /\ results'[Len(results) + 1] = MakerItem(m, e)
      BY <1>1, <3>3, ResultsTyped, Appended
    <3>5. QED
      BY <3>1, <3>4 DEF MakerItem, LeavesBook
  <2>3. ASSUME NEW o \in OrderRecord, Published(o) PROVE FALSE
    BY <1>1, <2>3 DEF Published
  <2>4. ASSUME Halted PROVE FALSE
    BY <1>1, <2>4 DEF Halted
  <2> HIDE DEF B
  <2>5. QED
    BY <1>1, <2>1, <2>2, <2>3, <2>4, Steps
<1>2. IInv /\ [Next]_vars => [\A i \in cache \ cache' : B(i)]_vars
  <2> HIDE DEF B
  <2>1. QED
    BY <1>1
<1>3. QED
  BY <1>2, Invariance, PTL DEF Spec, ExitsArePublished

-----------------------------------------------------------------------------
(* Fill or kill *)

\* A fill-or-kill order that trades with its own user and has no circuit rate.
PlainFok == Taker.type = "Fok" /\ Taker.stp = "AST" /\ Taker.rate = 0

\* No item has a price beyond the taker's limit.
WithinLimit ==
  \A k \in DOMAIN results :
    IF Taker.side = "Buy" THEN results[k].price <= Taker.price
                          ELSE results[k].price >= Taker.price

\* The orders R are the front of the other side, can all be met within the
\* limit, and have left what the taker still needs.
Suffices(R) ==
  /\ R \subseteq Counterparties
  /\ \A j \in R, i \in Counterparties : Before(i, j) => i \in R
  /\ \A j \in R : matchAble(Taker, orders[j])
  /\ UnfilledOf(R) >= Taker.unfilled

\* While such an order is in the loop the book can still fill it whole.
CanBeFilled ==
  phase = "matching" /\ PlainFok =>
    /\ WithinLimit
    /\ IF EndsLoop(Taker) THEN Taker.state = "Filled" ELSE \E R : Suffices(R)

FokInv == IInv /\ CanBeFilled /\ FokAllOrNothingUnguarded

\* Orders of the book: their number is finite and what they have left is a number.
LEMMA UnfilledFacts ==
  ASSUME IInv, NEW R, R \subseteq cache
  PROVE  /\ IsFiniteSet(R) /\ \A i \in R : orders[i].unfilled \in Nat
         /\ UnfilledOf(R) \in Nat
<1>1. IsFiniteSet(R)
  <2>1. IsFiniteSet(1 .. MaxSeqId)
    BY BookAssumption, FS_Interval
  <2>2. R \subseteq 1 .. MaxSeqId
    BY DEF IInv, TypeOK, SeqIds
  <2>3. QED
    BY <2>1, <2>2, FS_Subset
<1>2. \A i \in R : orders[i].unfilled \in Nat
  BY RestingOrder DEF OrderRecord
<1>3. QED
  BY <1>1, <1>2, SumLeftNat, UnfilledIsSum

\* The scan that admits a fill-or-kill order finds orders that suffice.
LEMMA FokAdmitted ==
  ASSUME IInv, NEW o \in Inputs, TakeFok(o), phase' = "matching", IInv'
  PROVE  PlainFok' => CanBeFilled'
<1>1. /\ fromId' \in SeqIds /\ orders'[fromId'] = NewOrder(o)
      /\ \A i \in cache : orders'[i] = orders[i]
      /\ UNCHANGED <<cache, buySet, sellSet>> /\ results' = <<>>
      /\ canFilledFokOrder(o)
  BY LoadFacts, NewOrderTyped DEF TakeFok
<1>2. /\ o \in Terms /\ o.side \in Sides /\ Opposite(o.side) \in Sides
  BY InputAssumption DEF Terms, Sides, Opposite
<1>3. /\ Taker' = NewOrder(o) /\ NewOrder(o).side = o.side /\ NewOrder(o).price = o.price
      /\ NewOrder(o).unfilled = o.amount /\ NewOrder(o).state = "Submitted"
  BY <1>1 DEF NewOrder, Taker
<1> DEFINE side == Opposite(o.side)
<1>4. Counterparties' = orderSet(side) /\ orderSet(side) \subseteq cache /\ SideOK(side)
  <2>1. Counterparties' = orderSet(side)
    BY <1>1, <1>3 DEF Counterparties, orderSet
  <2>2. QED
    BY <1>2, <2>1, SidesOK
<1>5. PICK m \in orderSet(side) :
        /\ \A k \in UpTo(m, side) : ~FokStops(o, orders[k])
        /\ UnfilledOf(UpTo(m, side)) >= o.amount
  BY <1>1 DEF canFilledFokOrder
<1> PICK R : R = UpTo(m, side)
  OBVIOUS
<1>6. R \subseteq orderSet(side) /\ R \subseteq cache
  BY <1>4 DEF UpTo
<1>7. R \subseteq Counterparties'
  BY <1>4, <1>6
<1>8. ASSUME NEW j \in R, NEW i \in Counterparties', Before(i, j)'
      PROVE  i \in R
  <2>1. i \in orderSet(side) /\ j \in orderSet(side) /\ m \in orderSet(side)
    BY <1>4, <1>5, <1>6
  <2>2. Before(i, j)
    <3>1. orders'[i] = orders[i] /\ orders'[j] = orders[j]
      BY <1>1, <1>4, <2>1
    <3>2. QED
      BY <1>8, <3>1 DEF Before
  <2>3. j = m \/ Before(j, m)
    BY DEF UpTo
  <2>4. Before(i, m)
    BY <1>2, <1>4, <2>1, <2>2, <2>3, BeforeIsStrictOrder
  <2>5. QED
    BY <2>1, <2>4 DEF UpTo
<1>9. ASSUME NEW j \in R
      PROVE  matchAble(Taker', orders'[j])
  <2>1. orders'[j] = orders[j] /\ matchAble(o, orders[j])
    BY <1>1, <1>5, <1>6 DEF FokStops
  <2>2. QED
    BY <1>3, <2>1 DEF matchAble
<1>10. UnfilledOf(R)' >= Taker'.unfilled
  <2>1. SumLeft(orders, R) = SumLeft(orders', R)
    <3>1. IsFiniteSet(R) /\ \A i \in R : orders[i].unfilled \in Nat
      BY <1>6, UnfilledFacts
    <3>2. \A i \in R : orders[i].unfilled = orders'[i].unfilled
      BY <1>1, <1>6
    <3>3. QED
      BY <3>1, <3>2, SumLeftSame
  <2>2. QED
    BY <1>3, <1>5, <2>1, UnfilledIsSum
<1>11. ~EndsLoop(Taker)' /\ WithinLimit'
  BY <1>1, <1>3 DEF EndsLoop, WithinLimit
<1>12. QED
  BY <1>7, <1>8, <1>9, <1>10, <1>11 DEF CanBeFilled, Suffices

\* What a fill-or-kill order that suffices does to the head of the other side.
LEMMA FokHeadMet ==
  ASSUME IInv, CanBeFilled, IInv', NEW m \in Counterparties, NEW e, HeadMet(m, e)
  PROVE  CanBeFilled'
<1>1. /\ phase = "matching" /\ phase' = "matching" /\ fromId' = fromId
      /\ ~EndsLoop(Taker) /\ Taker' = e.taker /\ orders'[m] = e.maker
      /\ IsHead(m, Opposite(Taker.side)) /\ ~Asserts(m)
      /\ e = matchOrder(Taker, orders[m])
      /\ results' = IF e.item THEN Append(results, MakerItem(m, e)) ELSE results
      /\ SameTerms(e.taker, Taker) /\ SameTerms(e.maker, orders[m])
  BY DEF HeadMet, TakerAfter, MakerAfter
<1>2. /\ fromId \in SeqIds /\ fromId # m /\ m \in SeqIds
      /\ Taker \in OrderRecord /\ orders[m] \in OrderRecord
      /\ \A i \in SeqIds \ {fromId, m} : orders'[i] = orders[i]
      /\ Counterparties' = IF LeavesBook(e.maker) THEN Counterparties \ {m}
                                                  ELSE Counterparties
  BY HeadMetFacts
<1>3. /\ fromId \notin cache /\ Taker.side \in Sides /\ Opposite(Taker.side) \in Sides
      /\ Taker.unfilled > 0 \/ PaysCash(Taker)
  BY <1>1, InHand
<1>4. /\ Counterparties \subseteq cache /\ SideOK(Opposite(Taker.side))
      /\ orders[m].unfilled > 0 /\ orders[m].price > 0
  <2>1. Counterparties \subseteq cache /\ SideOK(Opposite(Taker.side))
    BY <1>3, SidesOK DEF Counterparties
  <2>2. QED
    BY <2>1, RestingOrder
<1> SUFFICES ASSUME PlainFok' PROVE CanBeFilled'
  BY DEF CanBeFilled
<1>5. PlainFok /\ Taker'.side = Taker.side /\ Taker'.price = Taker.price
  BY <1>1 DEF PlainFok, SameTerms
<1>6. WithinLimit /\ \E R : Suffices(R)
  BY <1>1, <1>5 DEF CanBeFilled
<1>7. PICK R : Suffices(R)
  BY <1>6
<1>8. /\ R \subseteq Counterparties /\ R \subseteq cache
      /\ \A j \in R, i \in Counterparties : Before(i, j) => i \in R
      /\ \A j \in R : matchAble(Taker, orders[j])
      /\ UnfilledOf(R) >= Taker.unfilled
  BY <1>4, <1>7 DEF Suffices
<1>9. IsFiniteSet(R) /\ \A i \in R : orders[i].unfilled \in Nat
  BY <1>8, UnfilledFacts
<1>10. ~PaysCash(Taker) /\ Taker.unfilled \in Nat /\ Taker.unfilled > 0
  BY <1>2, <1>3, <1>5 DEF PlainFok, PaysCash, OrderRecord
<1>11. m \in R
  <2>1. R # {}
    <3> SUFFICES ASSUME R = {} PROVE FALSE
      OBVIOUS
    <3>1. UnfilledOf(R) = 0
      BY <1>9, SumLeftUnfolds, UnfilledIsSum
    <3>2. QED
      BY <1>8, <1>10, <3>1
  <2>2. PICK j \in R : TRUE
    BY <2>1
  <2>3. j = m \/ Before(m, j)
    BY <1>1, <1>8, <2>2 DEF IsHead, Counterparties
  <2>4. QED
    BY <1>8, <2>3
<1> DEFINE q == matchAmount(Taker, orders[m])
<1>12. /\ e.item /\ e.filled = q
       /\ e.taker = fillAmount(Taker, q) /\ e.maker = fillAmount(orders[m], q)
       /\ q = Least(Taker.unfilled, orders[m].unfilled)
  <2>1. ~TooLittleCash(Taker, orders[m]) /\ ~IsSelfTrade(Taker, orders[m])
    BY <1>5, <1>10 DEF TooLittleCash, IsSelfTrade, PlainFok
  <2>2. TakerAmount(Taker, orders[m]) = q
    BY <1>10 DEF TakerAmount
  <2>3. e = Encounter(fillAmount(Taker, q), fillAmount(orders[m], q), q, TRUE)
    BY <1>1, <2>1, <2>2 DEF matchOrder
  <2>4. q = Least(Taker.unfilled, orders[m].unfilled)
    BY <1>10 DEF matchAmount, Wanted
  <2> HIDE DEF q
  <2>5. QED
    BY <2>3, <2>4 DEF Encounter
<1> HIDE DEF q
<1>13. orders[m].unfilled \in Nat /\ matchAble(Taker, orders[m])
  BY <1>8, <1>9, <1>11
<1>14. WithinLimit'
  <2> SUFFICES ASSUME NEW k \in DOMAIN results'
               PROVE  IF Taker.side = "Buy" THEN results'[k].price <= Taker.price
                                            ELSE results'[k].price >= Taker.price
    BY <1>5 DEF WithinLimit
  <2>1. results' = Append(results, MakerItem(m, e))
    BY <1>1, <1>12
  <2>2. CASE k \in DOMAIN results
    BY <1>6, <2>1, <2>2, Appended DEF WithinLimit
  <2>3. CASE results'[k] = MakerItem(m, e)
    <3>1. results'[k].price = orders[m].price
      BY <1>1, <2>3 DEF MakerItem, SameTerms
    <3>2. QED
      BY <1>2, <1>13, <3>1 DEF matchAble, OrderRecord
  <2>4. QED
    BY <2>1, <2>2, <2>3, Appended
<1>15. CASE q = Taker.unfilled
  <2>1. Taker'.state = "Filled"
    BY <1>1, <1>2, <1>12, <1>15 DEF fillAmount, OrderRecord
  <2>2. QED
    BY <1>14, <2>1 DEF CanBeFilled, EndsLoop
<1>16. CASE q # Taker.unfilled
  <2>1. q = orders[m].unfilled /\ q < Taker.unfilled
    BY <1>10, <1>12, <1>13, <1>16 DEF Least
  <2>2. Taker'.state = "PartialFilled" /\ Taker'.unfilled = Taker.unfilled - q
    BY <1>1, <1>2, <1>12, <1>16 DEF fillAmount, OrderRecord
  <2>3. e.maker.state = "Filled"
    BY <1>2, <1>12, <2>1 DEF fillAmount, OrderRecord
  <2>4. Counterparties' = Counterparties \ {m}
    BY <1>2, <2>3 DEF LeavesBook
  <2>5. \A i \in Counterparties \ {m} : orders'[i] = orders[i]
    BY <1>2, <1>3, <1>4 DEF IInv, TypeOK
  <2> PICK S : S = R \ {m}
    OBVIOUS
  <2>6. S \subseteq Counterparties' /\ \A i \in S : orders'[i] = orders[i] /\ i \in R /\ i # m
    BY <1>8, <2>4, <2>5
  <2>7. ASSUME NEW j \in S, NEW i \in Counterparties', Before(i, j)'
        PROVE  i \in S
    <3>1. i \in Counterparties /\ i # m /\ orders'[i] = orders[i] /\ orders'[j] = orders[j]
      BY <2>4, <2>5, <2>6
    <3>2. Before(i, j)
      BY <2>7, <3>1 DEF Before
    <3>3. QED
      BY <1>8, <2>6, <3>1, <3>2
  <2>8. ASSUME NEW j \in S
        PROVE  matchAble(Taker', orders'[j])
    <3>1. orders'[j] = orders[j] /\ matchAble(Taker, orders[j])
      BY <1>8, <2>6
    <3>2. QED
      BY <1>5, <3>1 DEF matchAble
  <2>9. UnfilledOf(S)' >= Taker'.unfilled
    <3>1. IsFiniteSet(S) /\ \A i \in S : orders[i].unfilled \in Nat
      BY <1>9, FS_Subset
    <3>2. SumLeft(orders, S) = SumLeft(orders', S)
      <4>1. \A i \in S : orders[i].unfilled = orders'[i].unfilled
        BY <2>6
      <4>2. QED
        BY <3>1, <4>1, SumLeftSame
    <3>3. SumLeft(orders, R) = orders[m].unfilled + SumLeft(orders, S)
      BY <1>9, <1>11, SumLeftRemove
    <3>4. SumLeft(orders, S) \in Nat
      BY <3>1, SumLeftNat
    <3>5. SumLeft(orders, R) >= Taker.unfilled
      BY <1>8, UnfilledIsSum
    <3>6. SumLeft(orders', S) >= Taker'.unfilled
      BY <1>10, <1>13, <2>1, <2>2, <3>2, <3>3, <3>4, <3>5
    <3>7. QED
      BY <3>6, UnfilledIsSum
  <2>10. Suffices(S)'
    BY <2>6, <2>7, <2>8, <2>9 DEF Suffices
  <2>11. ~EndsLoop(Taker)'
    BY <2>2 DEF EndsLoop
  <2>12. QED
    BY <1>14, <2>10, <2>11 DEF CanBeFilled
<1>17. QED
  BY <1>15, <1>16

\* A taker that leaves the loop was taken off by one of the four endings.
LEMMA LoopEndings ==
  ASSUME [Next]_vars, phase = "matching", phase' = "idle"
  PROVE  Finish \/ Rest \/ GiveUp \/ BreakCircuit
BY DEF Next, Loop, vars, TakeOrder, TakeFok, TakeUnrouted, TakeSystemCancel, TakeCancel,
   TakeBatchCancel, Load, MatchHead, Abort, Idle

\* Orders enter the loop by one of two actions.
LEMMA LoopEntries ==
  ASSUME [Next]_vars, phase = "idle", phase' = "matching"
  PROVE  \E o \in Inputs : TakeOrder(o) \/ TakeFok(o)
BY DEF Next, Loop, vars, TakeUnrouted, TakeSystemCancel, TakeCancel,
   TakeBatchCancel, MatchHead, Abort, Finish, Rest, GiveUp, BreakCircuit, Idle

\* A fill-or-kill order that ends its loop is filled.
LEMMA FokPublished ==
  ASSUME IInv, CanBeFilled, IInv', [Next]_vars, NEW o \in OrderRecord, Published(o)
  PROVE  FokAllOrNothingUnguarded'
<1>1. /\ phase = "matching" /\ phase' = "idle" /\ fromId' = fromId
      /\ SameTerms(o, Taker) /\ Taker' = o
      /\ results' = Append(results, TakerItem(fromId, o))
      /\ o.state = Taker.state \/ Taker.state \in Open
  BY DEF Published
<1> SUFFICES ASSUME PlainFok' PROVE Taker'.state = "Filled" /\ WithinLimit'
  BY DEF FokAllOrNothingUnguarded, PlainFok, WithinLimit
<1>2. PlainFok /\ o.side = Taker.side /\ o.price = Taker.price /\ o.type = Taker.type
  BY <1>1 DEF PlainFok, SameTerms
<1>3. WithinLimit /\ IF EndsLoop(Taker) THEN Taker.state = "Filled" ELSE \E R : Suffices(R)
  BY <1>1, <1>2 DEF CanBeFilled
<1>4. EndsLoop(Taker)
  <2> SUFFICES ASSUME ~EndsLoop(Taker) PROVE FALSE
    OBVIOUS
  <2>1. PICK R : Suffices(R)
    BY <1>3
  <2>2. Taker.unfilled > 0 /\ Taker.unfilled \in Nat
    BY <1>1, <1>2, InHand DEF PlainFok, PaysCash, OrderRecord
  <2>3. Counterparties # {}
    <3> SUFFICES ASSUME Counterparties = {} PROVE FALSE
      OBVIOUS
    <3>1. UnfilledOf(R) = 0
      <4>1. R = {}
        BY <2>1 DEF Suffices
      <4>2. QED
        BY <4>1, SumLeftUnfolds, UnfilledIsSum, FS_EmptySet
    <3>2. QED
      BY <2>1, <2>2, <3>1 DEF Suffices
  <2>4. GiveUp \/ Rest \/ BreakCircuit
    BY <1>1, LoopEndings DEF Finish
  <2>5. QED
    BY <1>2, <2>3, <2>4 DEF GiveUp, Rest, BreakCircuit, CircuitBroken, OutOfBand, PlainFok
<1>5. Taker'.state = "Filled"
  BY <1>1, <1>3, <1>4 DEF Open
<1>6. WithinLimit'
  <2> SUFFICES ASSUME NEW k \in DOMAIN results'
               PROVE  IF Taker.side = "Buy" THEN results'[k].price <= Taker.price
                                            ELSE results'[k].price >= Taker.price
    BY <1>1, <1>2 DEF WithinLimit
  <2>1. CASE k \in DOMAIN results
    BY <1>1, <1>3, <2>1, Appended DEF WithinLimit
  <2>2. CASE results'[k] = TakerItem(fromId, o)
    <3>1. results'[k].price = Taker.price
      BY <1>2, <2>2 DEF TakerItem, PlainFok
    <3>2. Taker.price \in Nat
      BY <1>1, InHand DEF OrderRecord
    <3>3. QED
      BY <3>1, <3>2
  <2>3. QED
    BY <1>1, <2>1, <2>2, Appended
<1>7. QED
  BY <1>5, <1>6

\* A row answered at once is answered with its own item alone.
LEMMA FokRowTaken ==
  ASSUME IInv, IInv', [Next]_vars, RowTaken
  PROVE  CanBeFilled' /\ FokAllOrNothingUnguarded'
<1>1. CanBeFilled'
  <2> SUFFICES ASSUME phase' = "matching", PlainFok' PROVE CanBeFilled'
    BY DEF CanBeFilled
  <2>1. PICK o \in Inputs : TakeOrder(o) \/ TakeFok(o)
    BY LoopEntries DEF RowTaken
  <2>2. CASE TakeOrder(o)
    <3>1. Taker' = NewOrder(o)
      BY <2>2, LoadFacts, NewOrderTyped DEF TakeOrder, Taker
    <3>2. QED
      BY <2>2, <3>1 DEF TakeOrder, NewOrder, PlainFok
  <2>3. CASE TakeFok(o)
    BY <2>3, FokAdmitted
  <2>4. QED
    BY <2>1, <2>2, <2>3
<1>2. FokAllOrNothingUnguarded'
  <2> SUFFICES ASSUME phase' = "idle", HasTaker', Taker'.type = "Fok"
               PROVE  Len(results') = 1 /\ WithinLimit'
    BY DEF FokAllOrNothingUnguarded, WithinLimit
  <2>1. results' = <<TakerItem(fromId', Taker')>>
    BY DEF RowTaken, HasTaker
  <2>2. TakerItem(fromId', Taker').price = Taker'.price
    BY DEF TakerItem
  <2>3. Taker'.price \in Nat
    BY NewOrderTyped DEF RowTaken, HasTaker, OrderRecord
  <2>4. Len(results') = 1 /\ DOMAIN results' = {1} /\ results'[1] = TakerItem(fromId', Taker')
    BY <2>1
  <2>5. QED
    BY <2>2, <2>3, <2>4 DEF WithinLimit
<1>3. QED
  BY <1>1, <1>2

\* Every step keeps a fill-or-kill order fillable or answered whole.
LEMMA FokStep == FokInv /\ [Next]_vars => FokInv'
<1> SUFFICES ASSUME FokInv, [Next]_vars PROVE FokInv'
  OBVIOUS
<1>1. IInv /\ IInv' /\ CanBeFilled /\ FokAllOrNothingUnguarded
  BY StepInv DEF FokInv
<1>2. CASE RowTaken
  BY <1>1, <1>2, FokRowTaken DEF FokInv
<1>3. CASE \E m \in Counterparties : \E e : HeadMet(m, e)
  <2>1. CanBeFilled'
    BY <1>1, <1>3, FokHeadMet
  <2>2. phase' = "matching"
    BY <1>3 DEF HeadMet
  <2>3. QED
    BY <1>1, <2>1, <2>2 DEF FokInv, FokAllOrNothingUnguarded
<1>4. CASE \E o \in OrderRecord : Published(o)
  <2>1. FokAllOrNothingUnguarded'
    BY <1>1, <1>4, FokPublished
  <2>2. phase' = "idle"
    BY <1>4 DEF Published
  <2>3. QED
    BY <1>1, <2>1, <2>2 DEF FokInv, CanBeFilled
<1>5. CASE Halted
  <2>1. /\ Taker' = Taker /\ Counterparties' = Counterparties /\ HasTaker' = HasTaker
        /\ \A R : UnfilledOf(R)' = UnfilledOf(R)
    BY <1>5, UnfilledIsSum DEF Halted, Taker, Counterparties, orderSet, HasTaker
  <2>2. \A R : Suffices(R) => Suffices(R)'
    BY <1>5, <2>1 DEF Suffices, Halted, Before
  <2>3. phase' = phase \/ phase' = "dead"
    BY <1>5 DEF Halted
  <2>4. CanBeFilled'
    BY <1>1, <1>5, <2>1, <2>2, <2>3 DEF CanBeFilled, PlainFok, WithinLimit, Halted
  <2>5. FokAllOrNothingUnguarded'
    BY <1>1, <1>5, <2>1, <2>3 DEF FokAllOrNothingUnguarded, Halted
  <2>6. QED
    BY <1>1, <2>4, <2>5 DEF FokInv
<1>6. QED
  BY <1>1, <1>2, <1>3, <1>4, <1>5, Steps

\* A fill-or-kill order is filled whole within its limit, or trades nothing.
THEOREM FillOrKill == Spec => []FokAllOrNothingUnguarded
<1>1. Init => FokInv
  BY InitInv DEF Init, FokInv, CanBeFilled, FokAllOrNothingUnguarded, HasTaker
<1>2. FokInv => FokAllOrNothingUnguarded
  BY DEF FokInv
<1>3. QED
  BY <1>1, <1>2, FokStep, PTL DEF Spec

-----------------------------------------------------------------------------
(* The engine implements the abstract exchange *)

\* A view keeps the terms of an order and what is left of it.
LEMMA ViewOf ==
  ASSUME NEW o
  PROVE  /\ View(o).user = o.user /\ View(o).side = o.side /\ View(o).type = o.type
         /\ View(o).price = o.price /\ View(o).stp = o.stp /\ View(o).left = o.unfilled
         /\ View(o).banded <=> o.rate # 0
         /\ View(o) = [user |-> View(o).user, side |-> View(o).side, type |-> View(o).type,
                       price |-> View(o).price, stp |-> View(o).stp,
                       banded |-> View(o).banded, left |-> View(o).left]
BY DEF View

\* Orders with the same terms differ in nothing but what is left.
LEMMA ViewLess ==
  ASSUME NEW o, NEW p, SameTerms(p, o), NEW q, p.unfilled = o.unfilled - q
  PROVE  View(p) = [View(o) EXCEPT !.left = @ - q]
BY DEF View, SameTerms

\* The exchange's view of the engine with an order in the loop.
LEMMA AtWorkBars ==
  ASSUME IInv, phase = "matching"
  PROVE  /\ AtWork /\ workingBar = fromId /\ workingBar # 0
         /\ DOMAIN liveBar = cache \cup {fromId}
         /\ liveBar = [i \in cache \cup {fromId} |-> View(orders[i])]
         /\ \A i \in cache \cup {fromId} : liveBar[i] = View(orders[i])
         /\ doneBar = EndsLoop(Taker)
         /\ X!Resting = cache /\ X!Rivals = Counterparties
<1>1. AtWork /\ workingBar = fromId /\ fromId # 0 /\ fromId \notin cache
  BY InHand DEF AtWork, workingBar
<1>2. /\ DOMAIN liveBar = cache \cup {fromId}
      /\ liveBar = [i \in cache \cup {fromId} |-> View(orders[i])]
  BY <1>1 DEF liveBar
<1>3. \A i \in cache \cup {fromId} : liveBar[i] = View(orders[i])
  BY <1>2
<1>4. doneBar = EndsLoop(Taker)
  BY <1>1 DEF doneBar, EndsLoop
<1>5. X!Resting = cache
  BY <1>1, <1>2 DEF X!Resting
<1>6. ASSUME NEW i \in cache
      PROVE  liveBar[i].side # liveBar[workingBar].side <=> i \in Counterparties
  <2>1. liveBar[i].side = orders[i].side /\ liveBar[workingBar].side = Taker.side
    BY <1>1, <1>3, ViewOf DEF Taker
  <2>2. /\ i \in orderSet(orders[i].side)
        /\ i \notin orderSet(Opposite(orders[i].side))
    BY DEF IInv, BookInStep
  <2>3. orders[i].side \in Sides /\ Taker.side \in Sides
    BY InHand, RestingOrder DEF OrderRecord
  <2>4. QED
    BY <2>1, <2>2, <2>3 DEF Counterparties, Opposite, Sides
<1>7. Counterparties \subseteq cache
  BY InHand, SidesOK DEF Counterparties
<1>8. X!Rivals = Counterparties
  BY <1>5, <1>6, <1>7 DEF X!Rivals
<1>9. QED
  BY <1>1, <1>2, <1>3, <1>4, <1>5, <1>8

\* The exchange's view with none.
LEMMA AtRestBars ==
  ASSUME IInv, phase # "matching", phase = "dead" => Taker.type = "Ioc"
  PROVE  /\ ~AtWork /\ workingBar = 0 /\ doneBar = FALSE
         /\ DOMAIN liveBar = cache /\ liveBar = [i \in cache |-> View(orders[i])]
<1>1. ~AtWork
  BY DEF AtWork
<1>2. QED
  BY <1>1 DEF workingBar, doneBar, liveBar

\* The head of the other side is the best rival, and Admits is Acceptable.
LEMMA HeadIsBest ==
  ASSUME IInv, phase = "matching", NEW m \in Counterparties
  PROVE  /\ IsHead(m, Opposite(Taker.side)) => X!Best(m)
         /\ X!Acceptable(m) <=> (Taker.type = "Limit" => matchAble(Taker, orders[m]))
<1>1. /\ workingBar = fromId /\ X!Rivals = Counterparties
      /\ \A i \in cache \cup {fromId} : liveBar[i] = View(orders[i])
  BY AtWorkBars
<1>2. /\ Counterparties \subseteq cache /\ Taker.side \in Sides
      /\ \A i \in Counterparties : orders[i].side = Opposite(Taker.side)
  BY InHand, SidesOK DEF Counterparties, SideOK
<1>3. /\ liveBar[workingBar].side = Taker.side /\ liveBar[workingBar].type = Taker.type
      /\ liveBar[workingBar].price = Taker.price
  BY <1>1, ViewOf DEF Taker
<1>4. \A i \in Counterparties : liveBar[i].price = orders[i].price
  BY <1>1, <1>2, ViewOf
<1>5. ASSUME NEW k \in Counterparties, Before(m, k)
      PROVE  X!Better(m, k, Taker.side)
  BY <1>2, <1>4, <1>5 DEF Before, X!Better, Opposite, Sides
<1>6. IsHead(m, Opposite(Taker.side)) => X!Best(m)
  BY <1>1, <1>3, <1>5 DEF IsHead, X!Best, Counterparties
<1>7. X!Acceptable(m) <=> (Taker.type = "Limit" => matchAble(Taker, orders[m]))
  <2>1. Taker.price \in Nat /\ orders[m].price \in Nat
    BY <1>2, InHand, RestingOrder DEF OrderRecord
  <2>2. QED
    BY <1>3, <1>4, <2>1 DEF X!Acceptable, matchAble
<1>8. QED
  BY <1>6, <1>7

\* An encounter that takes q and c is what the exchange calls Less.
LEMMA LessBar ==
  ASSUME IInv, IInv', NEW m \in Counterparties, NEW e, HeadMet(m, e),
         NEW q, NEW c, Takes(Taker, orders[m], e, q, c)
  PROVE  liveBar' = X!Less(m, q, c)
<1>1. /\ phase = "matching" /\ phase' = "matching" /\ fromId' = fromId
      /\ m \in cache /\ orders'[m] = e.maker /\ Taker' = e.taker
      /\ SameTerms(e.taker, Taker) /\ SameTerms(e.maker, orders[m])
  BY DEF HeadMet, TakerAfter, MakerAfter
<1>2. /\ workingBar = fromId /\ DOMAIN liveBar = cache \cup {fromId}
      /\ \A i \in cache \cup {fromId} : liveBar[i] = View(orders[i])
  BY <1>1, AtWorkBars
<1>3. liveBar' = [i \in cache' \cup {fromId} |-> View(orders'[i])]
  BY <1>1 DEF liveBar, AtWork
<1>4. /\ fromId # m /\ fromId \notin cache /\ cache \subseteq SeqIds
      /\ \A i \in SeqIds \ {fromId, m} : orders'[i] = orders[i]
      /\ cache' = IF LeavesBook(e.maker) THEN cache \ {m} ELSE cache
  BY <1>1, HeadMetFacts, InHand, RestingOrder
<1>5. liveBar[m].left = orders[m].unfilled
  BY <1>1, <1>2, ViewOf
<1> DEFINE D == IF q = liveBar[m].left THEN DOMAIN liveBar \ {m} ELSE DOMAIN liveBar
           L(i) == CASE i = m -> [liveBar[m] EXCEPT !.left = @ - q]
                     [] i = workingBar -> [liveBar[workingBar] EXCEPT !.left = @ - c]
                     [] OTHER -> liveBar[i]
<1>6. D = cache' \cup {fromId}
  BY <1>1, <1>2, <1>4, <1>5 DEF Takes
<1>7. ASSUME NEW i \in D
      PROVE  View(orders'[i]) = L(i)
  <2>1. CASE i = m
    <3>1. orders'[m] = e.maker /\ q # orders[m].unfilled
      BY <1>1, <1>5, <1>7, <2>1
    <3>2. e.maker.unfilled = orders[m].unfilled - q
      BY <3>1 DEF Takes
    <3>3. View(e.maker) = [View(orders[m]) EXCEPT !.left = @ - q]
      BY <1>1, <3>2, ViewLess
    <3>4. liveBar[m] = View(orders[m])
      BY <1>1, <1>2
    <3>5. L(i) = [liveBar[m] EXCEPT !.left = @ - q]
      BY <1>2, <1>4, <2>1
    <3> HIDE DEF L
    <3>6. QED
      BY <2>1, <3>1, <3>3, <3>4, <3>5
  <2>2. CASE i = fromId
    <3>1. e.taker.unfilled = Taker.unfilled - c /\ orders'[fromId] = e.taker
      BY <1>1 DEF Takes, Taker
    <3>2. View(e.taker) = [View(Taker) EXCEPT !.left = @ - c]
      BY <1>1, <3>1, ViewLess
    <3>3. liveBar[workingBar] = View(Taker)
      BY <1>2 DEF Taker
    <3>4. L(i) = [liveBar[workingBar] EXCEPT !.left = @ - c]
      BY <1>2, <1>4, <2>2
    <3> HIDE DEF L
    <3>5. QED
      BY <2>2, <3>1, <3>2, <3>3, <3>4
  <2>3. CASE i # m /\ i # fromId
    <3>1. i \in cache
      BY <1>2, <1>7, <2>3
    <3>2. QED
      BY <1>2, <1>4, <2>3, <3>1
  <2>4. QED
    BY <2>1, <2>2, <2>3
<1>8. X!Less(m, q, c) = [i \in D |-> L(i)]
  BY DEF X!Less
<1> HIDE DEF D, L
<1>9. QED
  BY <1>3, <1>6, <1>7, <1>8

\* What the exchange's operators are about for a taker and its maker.
LEMMA PairBars ==
  ASSUME IInv, phase = "matching", NEW m \in Counterparties
  PROVE  /\ liveBar[workingBar] = View(Taker) /\ liveBar[m] = View(orders[m])
         /\ liveBar[m].left = orders[m].unfilled
         /\ X!Cash(liveBar[workingBar]) <=> PaysCash(Taker)
         /\ \A q : X!Pays(q, m) = Worth(Taker, q, orders[m].price)
         /\ \A c : SpentAt(Taker, orders[m], c)
                    => X!Spent(liveBar[workingBar], m, c)
         /\ (liveBar[workingBar].stp # "AST" /\ liveBar[workingBar].user = liveBar[m].user)
              <=> IsSelfTrade(Taker, orders[m])
<1>1. liveBar[workingBar] = View(Taker) /\ liveBar[m] = View(orders[m])
  <2>1. m \in cache
    BY InHand, SidesOK DEF Counterparties
  <2>2. QED
    BY <2>1, AtWorkBars DEF Taker
<1>2. /\ liveBar[m].left = orders[m].unfilled /\ liveBar[m].price = orders[m].price
      /\ liveBar[m].user = orders[m].user
      /\ liveBar[workingBar].left = Taker.unfilled
      /\ liveBar[workingBar].type = Taker.type /\ liveBar[workingBar].side = Taker.side
      /\ liveBar[workingBar].stp = Taker.stp /\ liveBar[workingBar].user = Taker.user
  BY <1>1, ViewOf
<1>3. X!Cash(liveBar[workingBar]) <=> PaysCash(Taker)
  BY <1>2 DEF X!Cash, PaysCash
<1>4. \A q : X!Pays(q, m) = Worth(Taker, q, orders[m].price)
  BY <1>2, <1>3 DEF X!Pays, Worth
<1>5. \A c : SpentAt(Taker, orders[m], c) => X!Spent(liveBar[workingBar], m, c)
  BY <1>2, <1>3 DEF X!Spent, SpentAt, unitPrice
<1>6. (liveBar[workingBar].stp # "AST" /\ liveBar[workingBar].user = liveBar[m].user)
        <=> IsSelfTrade(Taker, orders[m])
  BY <1>2 DEF IsSelfTrade
<1>7. QED
  BY <1>1, <1>2, <1>3, <1>4, <1>5, <1>6

\* An encounter is a trade, a prevented self-trade, or the end of the cash.
LEMMA HeadMetBar ==
  ASSUME IInv, IInv', NEW m \in Counterparties, NEW e, HeadMet(m, e)
  PROVE  X!XNext
<1> DEFINE t == Taker
           k == orders[m]
           lt == liveBar[workingBar]
<1>1. /\ phase = "matching" /\ phase' = "matching" /\ fromId' = fromId
      /\ ~EndsLoop(t) /\ IsHead(m, Opposite(t.side)) /\ Admits(m) /\ ~Asserts(m)
      /\ m \in cache /\ orders'[m] = e.maker /\ Taker' = e.taker /\ e = matchOrder(t, k)
      /\ SameTerms(e.taker, t)
  BY DEF HeadMet, TakerAfter
<1>2. /\ workingBar = fromId /\ workingBar # 0 /\ workingBar' = workingBar
      /\ doneBar = FALSE /\ doneBar' = EndsLoop(e.taker)
      /\ X!Rivals = Counterparties
  BY <1>1, AtWorkBars DEF workingBar, doneBar, AtWork, EndsLoop
<1>3. X!Best(m) /\ X!Acceptable(m)
  BY <1>1, HeadIsBest DEF Admits
<1>4. /\ liveBar[m].left = k.unfilled /\ lt.left = t.unfilled /\ lt.stp = t.stp
      /\ X!Cash(lt) <=> PaysCash(t)
      /\ \A q : X!Pays(q, m) = Worth(t, q, k.price)
      /\ \A c : SpentAt(t, k, c) => X!Spent(lt, m, c)
      /\ (lt.stp # "AST" /\ lt.user = liveBar[m].user) <=> IsSelfTrade(t, k)
      /\ liveBar[m].price = k.price
  BY <1>1, PairBars, ViewOf
<1>5. /\ t \in OrderRecord /\ k \in OrderRecord /\ k.price > 0
      /\ t.state \in Open /\ k.state \in Open /\ k.unfilled > 0
      /\ PaysCash(t) \/ t.unfilled > 0
  BY <1>1, InHand, RestingOrder
<1>6. ~TooLittleCash(t, k) /\ (IsSelfTrade(t, k) => t.stp = "DC") => ~Overfills(t, k)
  BY <1>1 DEF Asserts
<1>7. \/ RunsDry(t, k, e)
      \/ \E q \in 1 .. k.unfilled : Traded(t, k, e, q) \/ Prevented(t, k, e, q)
  <2> HIDE DEF t, k
  <2>1. QED
    BY <1>1, <1>5, <1>6, EncounterOutcome
<1>8. ASSUME NEW q, NEW c, Takes(t, k, e, q, c)
      PROVE  liveBar' = X!Less(m, q, c)
  BY <1>8, LessBar
<1>9. ASSUME e.maker = k, e.taker.unfilled = t.unfilled, EndsLoop(e.taker)
      PROVE  liveBar' = liveBar
  <2>1. ~LeavesBook(e.maker)
    BY <1>5, <1>9 DEF LeavesBook, Open
  <2>2. cache' = cache /\ \A i \in SeqIds \ {fromId, m} : orders'[i] = orders[i]
    BY <2>1, HeadMetFacts
  <2>3. /\ liveBar = [i \in cache \cup {fromId} |-> View(orders[i])]
        /\ liveBar' = [i \in cache \cup {fromId} |-> View(orders'[i])]
    BY <1>1, <2>2, AtWorkBars DEF liveBar, AtWork
  <2>4. View(orders'[fromId]) = View(orders[fromId])
    BY <1>1, <1>9 DEF View, SameTerms, Taker
  <2>5. cache \subseteq SeqIds
    BY RestingOrder
  <2>6. \A i \in cache \cup {fromId} : View(orders'[i]) = View(orders[i])
    BY <1>1, <1>9, <2>2, <2>4, <2>5
  <2>7. QED
    BY <2>3, <2>6
<1> HIDE DEF t, k, lt
<1>10. CASE RunsDry(t, k, e)
  <2>1. X!Cash(lt) /\ lt.left < Lot * liveBar[m].price
    <3>1. PaysCash(t) /\ unitPrice(k) > t.unfilled
      BY <1>10 DEF RunsDry, TooLittleCash
    <3>2. t.unfilled \in Nat /\ unitPrice(k) \in Nat
      BY <1>5, ConstAssumption DEF OrderRecord, unitPrice
    <3>3. QED
      BY <1>4, <3>1, <3>2 DEF unitPrice
  <2>2. liveBar' = liveBar /\ doneBar' = TRUE
    BY <1>2, <1>9, <1>10 DEF RunsDry, EndsLoop
  <2>3. X!RunDry(m)
    BY <1>2, <1>3, <2>1, <2>2 DEF X!RunDry, lt
  <2>4. QED
    BY <1>2, <2>3 DEF X!XNext
<1>11. ASSUME NEW q \in 1 .. k.unfilled, Traded(t, k, e, q)
       PROVE  X!XNext
  <2> DEFINE c == Worth(t, q, k.price)
  <2>1. /\ c <= t.unfilled /\ (q = k.unfilled \/ SpentAt(t, k, c))
        /\ Takes(t, k, e, q, c) /\ ~IsSelfTrade(t, k)
        /\ EndsLoop(e.taker) <=> c = t.unfilled
    BY <1>11 DEF Traded
  <2>2. X!Pays(q, m) = c /\ liveBar' = X!Less(m, q, c)
    BY <1>4, <1>8, <2>1
  <2>3. doneBar' = (c = lt.left)
    BY <1>2, <1>4, <2>1 DEF EndsLoop
  <2> HIDE DEF c
  <2>4. X!Trade(m, q)
    BY <1>2, <1>3, <1>4, <2>1, <2>2, <2>3 DEF X!Trade, lt
  <2>5. QED
    BY <1>2, <1>4, <1>11, <2>4 DEF X!XNext
<1>12. ASSUME NEW q \in 1 .. k.unfilled, Prevented(t, k, e, q)
       PROVE  X!XNext
  <2> DEFINE c == Worth(t, q, k.price)
  <2>1. IsSelfTrade(t, k) /\ X!Pays(q, m) = c
    BY <1>4, <1>12 DEF Prevented
  <2>2. CASE /\ t.stp \in {"CO", "CB"} /\ q = k.unfilled
             /\ Takes(t, k, e, q, 0)
             /\ EndsLoop(e.taker) <=> t.stp = "CB"
    <3>1. liveBar' = X!Less(m, q, 0) /\ doneBar' = (lt.stp = "CB")
      BY <1>2, <1>4, <1>8, <2>2 DEF EndsLoop
    <3>2. X!Prevent(m, q)
      BY <1>2, <1>3, <1>4, <2>1, <2>2, <3>1 DEF X!Prevent, lt
    <3>3. QED
      BY <1>2, <1>4, <1>12, <3>2 DEF X!XNext
  <2>3. CASE /\ t.stp = "CN"
             /\ e.maker = k /\ e.taker.unfilled = t.unfilled /\ EndsLoop(e.taker)
    <3>1. liveBar' = liveBar /\ doneBar' = TRUE
      BY <1>2, <1>9, <2>3 DEF EndsLoop
    <3>2. X!Prevent(m, q)
      BY <1>2, <1>3, <1>4, <2>1, <2>3, <3>1 DEF X!Prevent, lt
    <3>3. QED
      BY <1>2, <1>4, <1>12, <3>2 DEF X!XNext
  <2>4. CASE /\ t.stp = "DC" /\ q = k.unfilled /\ c < t.unfilled
             /\ Takes(t, k, e, q, c)
             /\ ~EndsLoop(e.taker)
    <3>1. liveBar' = X!Less(m, q, c)
      BY <1>8, <2>4
    <3> HIDE DEF c
    <3>2. doneBar' = FALSE
      <4>1. EndsLoop(e.taker) = FALSE
        BY <2>4 DEF EndsLoop
      <4>2. QED
        BY <1>2, <4>1
    <3>3. X!Prevent(m, q)
      BY <1>2, <1>3, <1>4, <2>1, <2>4, <3>1, <3>2 DEF X!Prevent, lt
    <3>4. QED
      BY <1>2, <1>4, <1>12, <3>3 DEF X!XNext
  <2>5. CASE /\ t.stp = "DC" /\ SpentAt(t, k, c)
             /\ Takes(t, k, e, q, 0)
             /\ EndsLoop(e.taker)
    <3>1. liveBar' = X!Less(m, q, 0) /\ doneBar' = TRUE
      BY <1>2, <1>8, <2>5 DEF EndsLoop
    <3> HIDE DEF c
    <3>2. X!Prevent(m, q)
      BY <1>2, <1>3, <1>4, <2>1, <2>5, <3>1 DEF X!Prevent, lt
    <3>3. QED
      BY <1>2, <1>4, <1>12, <3>2 DEF X!XNext
  <2>6. QED
    BY <1>12, <2>2, <2>3, <2>4, <2>5 DEF Prevented
<1>13. QED
  BY <1>7, <1>10, <1>11, <1>12

\* Taking a row accepts an order or takes resting ones away.
LEMMA RowTakenBar ==
  ASSUME IInv, IInv', RowTaken
  PROVE  X!XNext
<1>1. /\ phase = "idle" /\ fromId' = fromId + 1 /\ fromId' \in SeqIds
      /\ cache' \subseteq cache
      /\ \A i \in cache : i < fromId' /\ orders'[i] = orders[i]
      /\ phase' \in {"idle", "matching", "dead"}
  BY DEF RowTaken, IInv, TypeOK
<1>2. /\ workingBar = 0 /\ doneBar = FALSE /\ DOMAIN liveBar = cache
      /\ liveBar = [i \in cache |-> View(orders[i])]
  BY <1>1, AtRestBars
<1>3. \A i \in cache : liveBar[i] = View(orders[i])
  BY <1>2
<1>4. CASE phase' = "matching"
  <2>1. PICK o \in Inputs : Taker' = NewOrder(o)
    BY <1>4 DEF RowTaken
  <2>2. cache' = cache
    BY <1>4 DEF RowTaken
  <2>3. /\ workingBar' = fromId'
        /\ liveBar' = [i \in cache \cup {fromId'} |-> View(orders'[i])]
    BY <1>4, <2>2 DEF workingBar, liveBar, AtWork
  <2>4. doneBar' = FALSE
    <3>1. ~EndsLoop(Taker')
      BY <2>1, NewOrderTyped DEF EndsLoop
    <3>2. QED
      BY <3>1 DEF doneBar
  <2>5. View(NewOrder(o)) \in Views
    BY DEF Views
  <2>6. \A j \in cache \cup {fromId'} :
          View(orders'[j]) = IF j = fromId' THEN View(NewOrder(o)) ELSE liveBar[j]
    BY <1>1, <1>3, <2>1 DEF Taker
  <2>7. liveBar' = [j \in DOMAIN liveBar \cup {fromId'} |->
                      IF j = fromId' THEN View(NewOrder(o)) ELSE liveBar[j]]
    BY <1>2, <2>3, <2>6
  <2>8. X!Accept(fromId')
    BY <1>1, <1>2, <2>3, <2>4, <2>5, <2>7 DEF X!Accept
  <2>9. QED
    BY <1>1, <2>8 DEF X!XNext
<1>5. CASE phase' # "matching"
  <2>1. phase' = "dead" => Taker'.type = "Ioc"
    BY DEF RowTaken
  <2>2. ~AtWork'
    BY <1>5, <2>1 DEF AtWork
  <2>3. /\ workingBar' = 0 /\ doneBar' = FALSE
        /\ liveBar' = [i \in cache' |-> View(orders'[i])]
    BY <2>2 DEF workingBar, doneBar, liveBar
  <2>4. \A i \in cache' : View(orders'[i]) = liveBar[i]
    BY <1>1, <1>3
  <2>5. DOMAIN liveBar \ (cache \ cache') = cache'
    BY <1>1, <1>2
  <2>6. liveBar' = [i \in DOMAIN liveBar \ (cache \ cache') |-> liveBar[i]]
    BY <2>3, <2>4, <2>5
  <2>7. X!Withdraw(cache \ cache')
    BY <1>2, <2>3, <2>6 DEF X!Withdraw
  <2>8. cache \ cache' \in SUBSET DOMAIN liveBar
    BY <1>2
  <2>9. QED
    BY <2>7, <2>8 DEF X!XNext
<1>6. QED
  BY <1>4, <1>5

\* An order that is done, or that is no limit order and out of rivals or out of
\* its band, leaves.
LEMMA LeaveBar ==
  ASSUME IInv, phase = "matching", phase' = "idle", NEW o, Publish(o),
         UNCHANGED <<cache, buySet, sellSet>>,
         \/ EndsLoop(Taker)
         \/ Taker.type # "Limit" /\ Counterparties = {}
         \/ Taker.type # "Limit" /\ Taker.rate # 0
  PROVE  X!Leave
<1>1. /\ workingBar = fromId /\ workingBar # 0 /\ doneBar = EndsLoop(Taker)
      /\ X!Resting = cache /\ X!Rivals = Counterparties
      /\ \A i \in cache \cup {fromId} : liveBar[i] = View(orders[i])
  BY AtWorkBars
<1>2. /\ liveBar[workingBar].type = Taker.type
      /\ liveBar[workingBar].banded <=> Taker.rate # 0
  <2>1. liveBar[workingBar] = View(Taker)
    BY <1>1 DEF Taker
  <2>2. QED
    BY <2>1, ViewOf
<1>3. /\ workingBar' = 0 /\ doneBar' = FALSE
      /\ liveBar' = [i \in cache |-> View(orders'[i])]
  BY DEF workingBar, doneBar, liveBar, AtWork
<1>4. \A i \in cache : View(orders'[i]) = liveBar[i]
  <2>1. fromId \notin cache /\ fromId \in SeqIds /\ cache \subseteq SeqIds
    BY InHand, RestingOrder
  <2>2. \A i \in cache : orders'[i] = orders[i]
    BY <2>1 DEF Publish, IInv, TypeOK
  <2>3. QED
    BY <1>1, <2>2
<1>5. liveBar' = [i \in X!Resting |-> liveBar[i]]
  BY <1>1, <1>3, <1>4
<1>6. QED
  BY <1>1, <1>2, <1>3, <1>5 DEF X!Leave

\* The rest of a limit order that finds no acceptable rival joins the others.
LEMMA RestBar ==
  ASSUME IInv, Rest
  PROVE  X!Rest
<1>1. /\ phase = "matching" /\ ~EndsLoop(Taker) /\ Taker.type = "Limit"
      /\ \A m \in Counterparties : IsHead(m, Opposite(Taker.side)) => ~Admits(m)
      /\ Enqueue(fromId) /\ Publish(Taker)
  BY DEF Rest, Looping
<1>2. /\ fromId \in SeqIds /\ fromId \notin cache
      /\ Taker \in OrderRecord /\ Opposite(Taker.side) \in Sides
  BY <1>1, InHand
<1>3. phase' = "idle"
  BY <1>2 DEF Rest, EnqueueFails, Find
<1>4. /\ workingBar = fromId /\ workingBar # 0 /\ doneBar = EndsLoop(Taker)
      /\ X!Rivals = Counterparties
      /\ liveBar = [i \in cache \cup {fromId} |-> View(orders[i])]
      /\ \A i \in cache \cup {fromId} : liveBar[i] = View(orders[i])
  BY <1>1, AtWorkBars
<1>5. liveBar' = liveBar
  <2>1. cache' = cache \cup {fromId}
    BY <1>1 DEF Enqueue
  <2>2. orders' = orders
    BY <1>1, <1>2 DEF Publish, Taker, IInv, TypeOK
  <2>3. QED
    BY <1>3, <1>4, <2>1, <2>2 DEF liveBar, AtWork
<1>6. workingBar' = 0 /\ doneBar' = FALSE /\ doneBar = FALSE
  BY <1>1, <1>3, <1>4 DEF workingBar, doneBar, AtWork
<1>7. liveBar[workingBar].type = "Limit"
  <2>1. liveBar[workingBar] = View(Taker)
    BY <1>4 DEF Taker
  <2>2. QED
    BY <1>1, <2>1, ViewOf
<1>8. ASSUME NEW m \in Counterparties, X!Acceptable(m)
      PROVE  FALSE
  <2>1. matchAble(Taker, orders[m])
    BY <1>1, <1>8, HeadIsBest
  <2>2. /\ SideOK(Opposite(Taker.side))
        /\ Counterparties = orderSet(Opposite(Taker.side))
    BY <1>2, SidesOK DEF Counterparties
  <2>3. PICK h \in Counterparties : IsHead(h, Opposite(Taker.side))
    BY <1>2, <2>2, HeadExists
  <2>4. ~matchAble(Taker, orders[h])
    BY <1>1, <2>3 DEF Admits
  <2>5. Taker.price \in Nat /\ Taker.side = Opposite(Opposite(Taker.side))
    BY <1>2 DEF OrderRecord, Opposite, Sides
  <2>6. QED
    BY <1>2, <2>1, <2>2, <2>3, <2>4, <2>5, HeadIsBestPrice
<1>9. QED
  BY <1>4, <1>5, <1>6, <1>7, <1>8 DEF X!Rest

\* Every behaviour of the engine is one of the exchange.
THEOREM ExchangeImplemented == Spec => ImplementsExchange
<1>1. Init => X!XInit
  <2> SUFFICES ASSUME Init PROVE X!XInit
    OBVIOUS
  <2>1. cache = {} /\ ~AtWork
    BY DEF Init, InitOrderBook, AtWork
  <2>2. liveBar = [i \in {} |-> View(orders[i])]
    BY <2>1 DEF liveBar
  <2>3. liveBar = <<>>
    BY <2>2
  <2>4. QED
    BY <2>1, <2>3 DEF X!XInit, workingBar, doneBar
<1>2. IInv /\ IInv' /\ [Next]_vars => [X!XNext]_(X!xvars)
  <2> SUFFICES ASSUME IInv, IInv', [Next]_vars
               PROVE  X!XNext \/ UNCHANGED X!xvars
    OBVIOUS
  <2>1. ASSUME NEW o \in OrderRecord, Published(o), Loop PROVE X!XNext
    <3>1. CASE Finish
      BY <3>1, LeaveBar DEF Finish, X!XNext
    <3>2. CASE Rest
      BY <3>2, RestBar DEF X!XNext
    <3>3. CASE GiveUp
      BY <3>3, LeaveBar DEF GiveUp, Looping, X!XNext
    <3>4. CASE BreakCircuit
      <4>1. Taker.type # "Limit" /\ Taker.rate # 0
        BY <3>4 DEF BreakCircuit, CircuitBroken, OutOfBand
      <4>2. QED
        BY <3>4, <4>1, LeaveBar DEF BreakCircuit, Looping, X!XNext
    <3>5. CASE MatchHead \/ Abort
      BY <2>1, <3>5 DEF Published, MatchHead, Looping, Abort
    <3>6. QED
      BY <2>1, <3>1, <3>2, <3>3, <3>4, <3>5 DEF Loop
  <2>2. ASSUME NEW o \in OrderRecord, Published(o) PROVE Loop
    BY <2>2 DEF Published, Next, Load, TakeOrder, TakeFok, TakeUnrouted,
       TakeSystemCancel, TakeCancel, TakeBatchCancel, Idle, vars
  <2>3. ASSUME Halted PROVE UNCHANGED X!xvars
    <3>1. AtWork' = AtWork
      <4>1. CASE phase' = phase
        BY <2>3, <4>1 DEF Halted, AtWork, Taker
      <4>2. CASE phase' # phase
        <5>1. phase = "matching" /\ phase' = "dead" /\ Taker' = Taker
          BY <2>3, <4>2 DEF Halted, Taker
        <5>2. Taker.type # "Ioc"
          BY <5>1, InHand
        <5>3. QED
          BY <5>1, <5>2 DEF AtWork
      <4>3. QED
        BY <4>1, <4>2
    <3>2. liveBar' = liveBar /\ workingBar' = workingBar /\ doneBar' = doneBar
      BY <2>3, <3>1 DEF Halted, liveBar, workingBar, doneBar, Taker
    <3>3. QED
      BY <3>2 DEF X!xvars
  <2>4. QED
    BY <2>1, <2>2, <2>3, Steps, RowTakenBar, HeadMetBar
<1>3. QED
  BY <1>1, <1>2, Invariance, PTL DEF Spec, ImplementsExchange, X!XSpec
-----------------------------------------------------------------------------
(* The depth of the market: the orders that are taken *)

\* The orders of a side are finitely many.
LEMMA SideFinite ==
  ASSUME NEW side, SideOK(side), NEW U \in SUBSET orderSet(side)
  PROVE  IsFiniteSet(U) /\ Cardinality(U) \in Nat
<1>1. IsFiniteSet(SeqIds)
  BY BookAssumption, FS_Interval DEF SeqIds
<1>2. IsFiniteSet(U)
  BY <1>1, FS_Subset DEF SideOK
<1>3. QED
  BY <1>2, FS_CardinalityType

\* The place of an order in the tree of its side: how many are up to it.
LEMMA Places ==
  ASSUME NEW side \in Sides, SideOK(side), NEW n, n = Cardinality(orderSet(side))
  PROVE  /\ n \in Nat
         /\ \A i \in orderSet(side) : Cardinality(UpTo(i, side)) \in 1 .. n
         /\ \A i, j \in orderSet(side) :
              Before(i, j) => Cardinality(UpTo(i, side)) < Cardinality(UpTo(j, side))
         /\ \A i, j \in orderSet(side) :
              Cardinality(UpTo(i, side)) = Cardinality(UpTo(j, side)) => i = j
         /\ \A k \in 1 .. n : \E i \in orderSet(side) : Cardinality(UpTo(i, side)) = k
<1> DEFINE S == orderSet(side)
           rank == [i \in S |-> Cardinality(UpTo(i, side))]
<1>1. n \in Nat /\ IsFiniteSet(S)
  BY SideFinite
<1>2. ASSUME NEW i \in S
      PROVE  /\ Cardinality(UpTo(i, side)) \in 1 .. n
             /\ IsFiniteSet(UpTo(i, side)) /\ i \in UpTo(i, side)
             /\ UpTo(i, side) \subseteq S
  <2>1. UpTo(i, side) \in SUBSET S /\ i \in UpTo(i, side)
    BY DEF UpTo
  <2>2. IsFiniteSet(UpTo(i, side)) /\ Cardinality(UpTo(i, side)) \in Nat
    BY <2>1, SideFinite
  <2>3. Cardinality(UpTo(i, side)) <= n
    BY <1>1, <2>1, FS_Subset
  <2>4. Cardinality(UpTo(i, side)) # 0
    BY <2>1, <2>2, FS_EmptySet
  <2>5. QED
    BY <1>1, <2>1, <2>2, <2>3, <2>4
<1>3. ASSUME NEW i \in S, NEW j \in S, Before(i, j)
      PROVE  Cardinality(UpTo(i, side)) < Cardinality(UpTo(j, side))
  <2>1. UpTo(i, side) \subseteq UpTo(j, side)
    BY <1>3, BeforeIsStrictOrder DEF UpTo
  <2>2. j \notin UpTo(i, side)
    BY <1>3, BeforeIsStrictOrder DEF UpTo
  <2>3. UpTo(i, side) # UpTo(j, side)
    BY <1>2, <2>2
  <2>4. Cardinality(UpTo(i, side)) <= Cardinality(UpTo(j, side))
        /\ Cardinality(UpTo(i, side)) # Cardinality(UpTo(j, side))
    BY <1>2, <2>1, <2>3, FS_Subset
  <2>5. Cardinality(UpTo(i, side)) \in Nat /\ Cardinality(UpTo(j, side)) \in Nat
    BY <1>2
  <2>6. QED
    BY <2>4, <2>5
<1>4. ASSUME NEW i \in S, NEW j \in S, i # j
      PROVE  Cardinality(UpTo(i, side)) # Cardinality(UpTo(j, side))
  <2>1. Before(i, j) \/ Before(j, i)
    BY <1>4, BeforeIsStrictOrder
  <2>2. Cardinality(UpTo(i, side)) \in Nat /\ Cardinality(UpTo(j, side)) \in Nat
    BY <1>2
  <2>3. QED
    BY <1>3, <2>1, <2>2
<1>5. rank \in Injection(S, 1 .. n)
  <2>1. rank \in [S -> 1 .. n]
    BY <1>2
  <2>2. \A i, j \in S : rank[i] = rank[j] => i = j
    BY <1>4
  <2>3. QED
    BY <2>1, <2>2 DEF Injection, IsInjective
<1>6. rank \in Surjection(S, 1 .. n)
  <2>1. IsFiniteSet(1 .. n) /\ Cardinality(1 .. n) = n
    BY <1>1, FS_Interval
  <2> HIDE DEF rank
  <2>2. QED
    BY <1>5, <2>1, FS_Injection
<1>7. ASSUME NEW k \in 1 .. n
      PROVE  \E i \in S : Cardinality(UpTo(i, side)) = k
  BY <1>6 DEF Surjection
<1>8. QED
  BY <1>1, <1>2, <1>3, <1>4, <1>7

\* What Take returns: every order within size of the front, at its place.
LEMMA TakeIs ==
  ASSUME NEW side \in Sides, SideOK(side), NEW size \in Nat \ {0}
  PROVE  \E N \in Nat :
           /\ Take(side, size) \in [1 .. N -> Shown(side, size)]
           /\ Shown(side, size) \subseteq orderSet(side)
           /\ \A k \in 1 .. N : Cardinality(UpTo(Take(side, size)[k], side)) = k
           /\ \A i \in Shown(side, size) :
                /\ Cardinality(UpTo(i, side)) \in 1 .. N
                /\ Take(side, size)[Cardinality(UpTo(i, side))] = i
<1> DEFINE n == Cardinality(orderSet(side))
           N == IF size < n THEN size ELSE n
<1>1. n \in Nat
  BY Places
<1>2. N \in Nat /\ N <= n /\ N <= size
  BY <1>1
<1>3. Take(side, size) = [k \in 1 .. N |->
                           CHOOSE i \in orderSet(side) : Cardinality(UpTo(i, side)) = k]
  BY DEF Take
<1> HIDE DEF N, n
<1>4. ASSUME NEW k \in 1 .. N
      PROVE  /\ Take(side, size)[k] \in orderSet(side)
             /\ Cardinality(UpTo(Take(side, size)[k], side)) = k
  <2>1. k \in 1 .. n
    BY <1>1, <1>2
  <2>2. \E i \in orderSet(side) : Cardinality(UpTo(i, side)) = k
    BY <2>1, Places DEF n
  <2>3. QED
    BY <1>3, <2>2
<1>5. Shown(side, size) \subseteq orderSet(side)
  BY DEF Shown
<1>6. \A k \in 1 .. N : Take(side, size)[k] \in Shown(side, size)
  BY <1>2, <1>4 DEF Shown
<1>7. Take(side, size) \in [1 .. N -> Shown(side, size)]
  BY <1>3, <1>6
<1>8. ASSUME NEW i \in Shown(side, size)
      PROVE  /\ Cardinality(UpTo(i, side)) \in 1 .. N
             /\ Take(side, size)[Cardinality(UpTo(i, side))] = i
  <2>1. i \in orderSet(side) /\ Cardinality(UpTo(i, side)) <= size
    BY DEF Shown
  <2>2. Cardinality(UpTo(i, side)) \in 1 .. n
    BY <2>1, Places DEF n
  <2>3. Cardinality(UpTo(i, side)) \in 1 .. N
    BY <1>1, <2>1, <2>2 DEF N
  <2>4. QED
    BY <1>4, <2>1, <2>3, Places
<1>9. QED
  BY <1>2, <1>4, <1>5, <1>7, <1>8

-----------------------------------------------------------------------------
(* The loop of orderDepth *)

\* What Max picks from places of a list.
LEMMA LastPlace ==
  ASSUME NEW N \in Nat, NEW S, S \subseteq 1 .. N, S # {}
  PROVE  /\ Max(S) \in S /\ \A k \in S : k <= Max(S)
         /\ S \ {Max(S)} \subseteq 1 .. N - 1
<1> DEFINE Bounds == {n \in 0 .. N : \A k \in S : k <= n}
<1>1. PICK b \in Bounds : \A n \in Bounds : b <= n
  <2>1. N \in Bounds /\ Bounds \subseteq Nat
    OBVIOUS
  <2> HIDE DEF Bounds
  <2>2. QED
    BY <2>1, LeastNumber
<1>2. b \in S
  <2>1. SUFFICES ASSUME b \notin S PROVE FALSE
    OBVIOUS
  <2>2. PICK s \in S : TRUE
    OBVIOUS
  <2>3. b \in 1 .. N
    BY <2>1, <2>2
  <2>4. b - 1 \in Bounds
    BY <2>1, <2>3
  <2>5. QED
    BY <1>1, <2>3, <2>4
<1>3. \A k \in S : b >= k
  OBVIOUS
<1>4. Max(S) \in S /\ \A k \in S : Max(S) >= k
  BY <1>2, <1>3 DEF Max
<1>5. ASSUME NEW k \in S, k # Max(S)
      PROVE  k \in 1 .. N - 1
  <2>1. k \in 1 .. N /\ Max(S) \in 1 .. N /\ Max(S) >= k
    BY <1>4
  <2>2. QED
    BY <1>5, <2>1
<1>6. \A k \in S : k <= Max(S)
  <2>1. S \subseteq Int
    OBVIOUS
  <2>2. Max(S) \in Int
    BY <1>4, <2>1
  <2>3. QED
    BY <1>4, <2>1, <2>2
<1>7. QED
  BY <1>4, <1>5, <1>6

\* g adds the orders at every set of places of a list, the last place last.
AddsOrders(g, taken, step, capacity, S) ==
  g = [s \in SUBSET S |-> IF s = {} THEN <<>>
                          ELSE LET x == Max(s)
                               IN  AddOrder(g[s \ {x}], taken[x], step, capacity)]

\* There is such a g for every list.
LEMMA AddsOrdersExists ==
  ASSUME NEW taken, NEW step, NEW capacity, NEW N \in Nat
  PROVE  \E g : AddsOrders(g, taken, step, capacity, 1 .. N)
<1> DEFINE Good(k) == \E g : AddsOrders(g, taken, step, capacity, 1 .. k)
           Bad == {k \in 0 .. N : ~Good(k)}
<1>1. SUFFICES ASSUME Bad # {} PROVE FALSE
  OBVIOUS
<1>2. PICK k \in Bad : \A j \in Bad : k <= j
  <2>1. Bad \subseteq Nat
    OBVIOUS
  <2> HIDE DEF Bad
  <2>2. QED
    BY <1>1, <2>1, LeastNumber
<1>3. k \in 0 .. N /\ ~Good(k)
  <2> HIDE DEF Good
  <2>1. QED
    OBVIOUS
<1>4. k # 0
  <2>1. SUFFICES ASSUME k = 0 PROVE FALSE
    OBVIOUS
  <2> DEFINE g == [s \in SUBSET (1 .. 0) |-> <<>>]
  <2>2. \A s \in SUBSET (1 .. 0) : s = {}
    OBVIOUS
  <2>3. AddsOrders(g, taken, step, capacity, 1 .. 0)
    BY <2>2 DEF AddsOrders
  <2>4. QED
    BY <1>3, <2>1, <2>3
<1>5. k \in 1 .. N /\ Good(k - 1)
  <2> HIDE DEF Good
  <2>1. k \in 1 .. N /\ k - 1 \in 0 .. N
    BY <1>3, <1>4
  <2>2. k - 1 \notin Bad
    BY <1>2, <2>1
  <2>3. QED
    BY <2>1, <2>2
<1>6. PICK h : AddsOrders(h, taken, step, capacity, 1 .. k - 1)
  BY <1>5
<1> DEFINE G(s) == IF s = {} THEN <<>>
                   ELSE LET x == Max(s)
                        IN  AddOrder(h[s \ {x}], taken[x], step, capacity)
           g == [s \in SUBSET (1 .. k) |-> G(s)]
<1>7. ASSUME NEW t \in SUBSET (1 .. k - 1)
      PROVE  g[t] = h[t]
  <2>1. t \in SUBSET (1 .. k)
    BY <1>5
  <2>2. g[t] = G(t)
    BY <2>1
  <2>3. h[t] = G(t)
    BY <1>6 DEF AddsOrders
  <2>4. QED
    BY <2>2, <2>3
<1>8. ASSUME NEW s \in SUBSET (1 .. k)
      PROVE  G(s) = IF s = {} THEN <<>>
                    ELSE LET x == Max(s)
                         IN  AddOrder(g[s \ {x}], taken[x], step, capacity)
  <2>1. CASE s = {}
    BY <2>1
  <2>2. CASE s # {}
    <3>1. k \in Nat /\ s \subseteq 1 .. k
      BY <1>5
    <3>2. s \ {Max(s)} \in SUBSET (1 .. k - 1)
      <4> HIDE DEF G, g, Bad, Good
      <4>1. QED
        BY <2>2, <3>1, LastPlace
    <3>3. g[s \ {Max(s)}] = h[s \ {Max(s)}]
      BY <1>7, <3>2
    <3> HIDE DEF g
    <3>4. QED
      BY <2>2, <3>3
  <2>3. QED
    BY <2>1, <2>2
<1>9. g = [s \in SUBSET (1 .. k) |->
             IF s = {} THEN <<>>
             ELSE LET x == Max(s) IN AddOrder(g[s \ {x}], taken[x], step, capacity)]
  <2> HIDE DEF G
  <2>1. QED
    BY <1>8
<1> HIDE DEF g
<1>10. AddsOrders(g, taken, step, capacity, 1 .. k)
  BY <1>9 DEF AddsOrders
<1>11. QED
  BY <1>3, <1>10

\* orderDepth adds the orders of its list one after the other.
LEMMA DepthUnfolds ==
  ASSUME NEW N \in Nat, NEW taken, DOMAIN taken = 1 .. N, NEW step, NEW capacity
  PROVE  \E d : /\ d[0] = <<>> /\ d[N] = orderDepth(taken, step, capacity)
                /\ \A k \in 1 .. N :
                      d[k] = AddOrder(d[k - 1], taken[k], step, capacity)
<1> DEFINE g == CHOOSE h : AddsOrders(h, taken, step, capacity, DOMAIN taken)
<1>1. AddsOrders(g, taken, step, capacity, 1 .. N)
  <2>1. \E h : AddsOrders(h, taken, step, capacity, DOMAIN taken)
    BY AddsOrdersExists
  <2> HIDE DEF AddsOrders
  <2>2. AddsOrders(g, taken, step, capacity, DOMAIN taken)
    BY <2>1
  <2> HIDE DEF g
  <2>3. QED
    BY <2>2
<1>2. orderDepth(taken, step, capacity) = g[DOMAIN taken]
  BY DEF orderDepth, FoldLeft, MapThenFoldSet, AddsOrders
<1> HIDE DEF g
<1> DEFINE d == [k \in 0 .. N |-> g[1 .. k]]
<1>3. d[0] = <<>>
  <2>1. 1 .. 0 = {} /\ 1 .. 0 \in SUBSET (1 .. N) /\ 0 \in 0 .. N
    OBVIOUS
  <2>2. g[1 .. 0] = <<>>
    BY <1>1, <2>1 DEF AddsOrders
  <2>3. QED
    BY <2>1, <2>2
<1>4. d[N] = orderDepth(taken, step, capacity)
  BY <1>2
<1>5. ASSUME NEW k \in 1 .. N
      PROVE  d[k] = AddOrder(d[k - 1], taken[k], step, capacity)
  <2>1. 1 .. k \in SUBSET (1 .. N) /\ k \in 1 .. k /\ k \in 0 .. N /\ k - 1 \in 0 .. N
    OBVIOUS
  <2>2. Max(1 .. k) = k
    <3>1. Max(1 .. k) \in 1 .. k /\ \A x \in 1 .. k : x <= Max(1 .. k)
      <4>1. k \in Nat /\ 1 .. k \subseteq 1 .. k /\ 1 .. k # {}
        BY <2>1
      <4>2. QED
        BY <4>1, LastPlace
    <3>2. QED
      BY <3>1
  <2>3. (1 .. k) \ {k} = 1 .. k - 1
    OBVIOUS
  <2>4. g[1 .. k] = AddOrder(g[(1 .. k) \ {Max(1 .. k)}], taken[Max(1 .. k)], step, capacity)
    BY <1>1, <2>1 DEF AddsOrders
  <2>5. g[1 .. k] = AddOrder(g[1 .. k - 1], taken[k], step, capacity)
    BY <2>2, <2>3, <2>4
  <2>6. d[k] = g[1 .. k] /\ d[k - 1] = g[1 .. k - 1]
    BY <2>1
  <2> HIDE DEF d
  <2>7. QED
    BY <2>5, <2>6
<1> HIDE DEF d
<1>6. QED
  BY <1>3, <1>4, <1>5

-----------------------------------------------------------------------------
(* The levels of a side *)

\* Rounding keeps the order of prices, goes away from the spread and yields a
\* natural number.
LEMMA RoundingKeepsOrder ==
  ASSUME NEW p \in Nat, NEW q \in Nat, NEW step \in Nat \ {0}, p <= q
  PROVE  /\ roundUp(p, step) \in Nat /\ roundDown(p, step) \in Nat
         /\ p <= roundUp(p, step) /\ roundDown(p, step) <= p
         /\ roundUp(p, step) <= roundUp(q, step)
         /\ roundDown(p, step) <= roundDown(q, step)
<1> DEFINE a == p \div step
           b == q \div step
<1>1. /\ a \in Nat /\ a * step <= p /\ p < (a + 1) * step
      /\ b \in Nat /\ b * step <= q /\ q < (b + 1) * step
  BY DivBounds
<1>2. p % step = p - a * step /\ q % step = q - b * step
  OBVIOUS
<1> HIDE DEF a, b
<1>3. /\ a * step \in Nat /\ b * step \in Nat
      /\ (a + 1) * step = a * step + step /\ (b + 1) * step = b * step + step
  BY <1>1
<1>4. /\ roundUp(p, step) = IF p > a * step THEN a * step + step ELSE p
      /\ roundUp(q, step) = IF q > b * step THEN b * step + step ELSE q
  BY <1>1, <1>2, <1>3 DEF roundUp
<1>5. roundDown(p, step) = a * step /\ roundDown(q, step) = b * step
  BY DEF roundDown, a, b
<1>6. a <= b
  <2>1. SUFFICES ASSUME b + 1 <= a PROVE FALSE
    BY <1>1
  <2>2. (b + 1) * step <= a * step
    BY <1>1, <2>1, MultiplyBoth
  <2>3. QED
    BY <1>1, <1>3, <2>2
<1>7. a * step <= b * step
  BY <1>1, <1>6, MultiplyBoth
<1>8. CASE a = b
  BY <1>1, <1>3, <1>4, <1>5, <1>8
<1>9. CASE a < b
  <2>1. (a + 1) * step <= b * step
    BY <1>1, <1>9, MultiplyBoth
  <2>2. QED
    BY <1>1, <1>3, <1>4, <1>5, <1>7, <2>1
<1>10. QED
  BY <1>1, <1>6, <1>8, <1>9

\* What orders have left together is a number; one more order adds its own.
LEMMA LeftAddsUp ==
  ASSUME NEW side, SideOK(side), NEW U \in SUBSET orderSet(side), NEW i \in orderSet(side)
  PROVE  /\ UnfilledOf(U) \in Nat
         /\ UnfilledOf({i}) = orders[i].unfilled
         /\ i \notin U => UnfilledOf(U \cup {i}) = UnfilledOf(U) + orders[i].unfilled
<1>1. IsFiniteSet(U) /\ IsFiniteSet(U \cup {i}) /\ IsFiniteSet({i})
  <2>1. IsFiniteSet(SeqIds)
    BY BookAssumption, FS_Interval DEF SeqIds
  <2>2. QED
    BY <2>1, FS_Subset, FS_AddElement, FS_Singleton DEF SideOK
<1>2. \A x \in orderSet(side) : orders[x].unfilled \in Nat
  BY DEF SideOK, OrderRecord
<1>3. SumLeft(orders, U) \in Nat
  BY <1>1, <1>2, SumLeftNat
<1>4. SumLeft(orders, {i}) = orders[i].unfilled
  <2>1. SumLeft(orders, {i}) = orders[i].unfilled + SumLeft(orders, {i} \ {i})
    BY <1>1, <1>2, SumLeftRemove
  <2>2. {i} \ {i} = {}
    OBVIOUS
  <2>3. SumLeft(orders, {}) = 0
    BY SumLeftUnfolds, FS_EmptySet
  <2>4. SumLeft(orders, {i} \ {i}) = 0
    BY <2>2, <2>3, Zenon
  <2>5. orders[i].unfilled \in Nat
    BY <1>2
  <2>6. QED
    BY <2>1, <2>4, <2>5
<1>5. ASSUME i \notin U
      PROVE  SumLeft(orders, U \cup {i}) = SumLeft(orders, U) + orders[i].unfilled
  <2>1. SumLeft(orders, U \cup {i}) = orders[i].unfilled + SumLeft(orders, (U \cup {i}) \ {i})
    BY <1>1, <1>2, SumLeftRemove
  <2>2. (U \cup {i}) \ {i} = U
    BY <1>5
  <2>3. SumLeft(orders, (U \cup {i}) \ {i}) = SumLeft(orders, U)
    BY <2>2, Zenon
  <2>4. orders[i].unfilled \in Nat
    BY <1>2
  <2>5. QED
    BY <1>3, <2>1, <2>3, <2>4
<1>6. QED
  BY <1>3, <1>4, <1>5, UnfilledIsSum

\* Rounded prices are numbers, and later orders of a side have none that is
\* better.
LEMMA StepPricesSorted ==
  ASSUME NEW side \in Sides, SideOK(side), NEW step \in Nat \ {0},
         NEW i \in orderSet(side), NEW j \in orderSet(side)
  PROVE  /\ StepPrice(i, step) \in Nat
         /\ Before(i, j) =>
              \/ StepPrice(i, step) = StepPrice(j, step)
              \/ Worse(side, StepPrice(j, step), StepPrice(i, step))
<1>1. /\ orders[i].price \in Nat /\ orders[i].side = side
      /\ orders[j].price \in Nat /\ orders[j].side = side
  BY DEF SideOK, OrderRecord
<1>2. StepPrice(i, step) \in Nat /\ StepPrice(j, step) \in Nat
  BY <1>1, RoundingKeepsOrder DEF StepPrice
<1>3. ASSUME Before(i, j)
      PROVE  \/ StepPrice(i, step) = StepPrice(j, step)
             \/ Worse(side, StepPrice(j, step), StepPrice(i, step))
  <2>1. CASE side = "Sell"
    <3>1. orders[i].price <= orders[j].price
      BY <1>1, <1>3, <2>1 DEF Before
    <3>2. StepPrice(i, step) <= StepPrice(j, step)
      BY <1>1, <2>1, <3>1, RoundingKeepsOrder DEF StepPrice
    <3>3. QED
      BY <1>2, <2>1, <3>2 DEF Worse
  <2>2. CASE side = "Buy"
    <3>1. orders[j].price <= orders[i].price
      BY <1>1, <1>3, <2>2 DEF Before
    <3>2. StepPrice(j, step) <= StepPrice(i, step)
      BY <1>1, <2>2, <3>1, RoundingKeepsOrder DEF StepPrice
    <3>3. QED
      BY <1>2, <2>2, <3>2 DEF Worse
  <2>3. QED
    BY <2>1, <2>2 DEF Sides
<1>4. QED
  BY <1>2, <1>3

Level == [price : Nat, amount : Nat]

\* What the levels d built from orders of a side are, at any turn of the loop:
\* a price that is not among them comes after all of them, and they are full.
LevelsSoFar(d, side, ids, step, capacity) ==
  /\ d \in Seq(Level)
  /\ Len(d) <= capacity
  /\ \A m \in 1 .. Len(d) :
       /\ d[m].price \in StepPrices(ids, step)
       /\ d[m].amount = UnfilledOf(At(ids, step, d[m].price))
  /\ \A l, m \in 1 .. Len(d) : l < m => Worse(side, d[m].price, d[l].price)
  /\ \A p \in StepPrices(ids, step) :
       \/ \E m \in 1 .. Len(d) : d[m].price = p
       \/ /\ Len(d) = capacity
          /\ \A m \in 1 .. Len(d) : Worse(side, p, d[m].price)

\* One turn of the loop keeps them so, for an order no better than those before.
LEMMA AddOrderKeepsLevels ==
  ASSUME NEW side \in Sides, SideOK(side), NEW step \in Nat \ {0},
         NEW capacity \in Nat \ {0}, NEW ids \in SUBSET orderSet(side), NEW d,
         LevelsSoFar(d, side, ids, step, capacity),
         NEW i \in orderSet(side), i \notin ids,
         \A q \in StepPrices(ids, step) :
           q = StepPrice(i, step) \/ Worse(side, StepPrice(i, step), q)
  PROVE  LevelsSoFar(AddOrder(d, i, step, capacity), side, ids \cup {i}, step, capacity)
<1> DEFINE p == StepPrice(i, step)
           u == orders[i].unfilled
           n == Len(d)
           e == AddOrder(d, i, step, capacity)
<1>1. p \in Nat /\ u \in Nat /\ UnfilledOf({i}) = u
  BY StepPricesSorted, LeftAddsUp DEF SideOK, OrderRecord
<1>2. /\ d \in Seq(Level) /\ n \in Nat /\ n <= capacity
      /\ \A m \in 1 .. n : d[m] \in Level /\ d[m].price \in Nat /\ d[m].amount \in Nat
  <2>1. d \in Seq(Level) /\ Len(d) <= capacity
    BY DEF LevelsSoFar
  <2>2. Len(d) \in Nat /\ \A m \in 1 .. Len(d) : d[m] \in Level
    BY <2>1
  <2>3. \A v \in Level : v.price \in Nat /\ v.amount \in Nat
    BY DEF Level
  <2>4. QED
    BY <2>1, <2>2, <2>3
<1>3. StepPrices(ids \cup {i}, step) = StepPrices(ids, step) \cup {p}
  BY DEF StepPrices
<1>4. ASSUME NEW q, q # p
      PROVE  At(ids \cup {i}, step, q) = At(ids, step, q)
  BY <1>4 DEF At
<1>5. At(ids \cup {i}, step, p) = At(ids, step, p) \cup {i}
  BY DEF At
<1>6. UnfilledOf(At(ids, step, p) \cup {i}) = UnfilledOf(At(ids, step, p)) + u
  <2>1. At(ids, step, p) \in SUBSET orderSet(side) /\ i \notin At(ids, step, p)
    BY DEF At
  <2>2. QED
    BY <2>1, LeftAddsUp
<1>7. ASSUME p \notin StepPrices(ids, step)
      PROVE  UnfilledOf(At(ids \cup {i}, step, p)) = u
  <2>1. At(ids \cup {i}, step, p) = {i}
    BY <1>7 DEF At, StepPrices
  <2>2. QED
    BY <1>1, <2>1, Zenon
<1>8. e = IF d = <<>> \/ d[n].price # p
          THEN IF n = capacity THEN d ELSE Append(d, [price |-> p, amount |-> u])
          ELSE [d EXCEPT ![n].amount = @ + u]
  BY DEF AddOrder, Last
<1>9. \A m \in 1 .. n : d[m].price = p \/ Worse(side, p, d[m].price)
  BY DEF LevelsSoFar
<1> HIDE DEF p, u, n, e
<1>10. CASE d # <<>> /\ d[n].price = p
  <2>1. n \in 1 .. n
    BY <1>2, <1>10 DEF n
  <2>2. e = [d EXCEPT ![n].amount = @ + u]
    BY <1>8, <1>10
  <2>3. /\ e \in Seq(Level) /\ Len(e) = n
        /\ \A m \in 1 .. n : e[m].price = d[m].price
        /\ \A m \in 1 .. n : m # n => e[m].amount = d[m].amount
        /\ e[n].amount = d[n].amount + u
    <3>1. [d[n] EXCEPT !.amount = @ + u] \in Level
      <4>1. d[n] \in Level /\ d[n].amount + u \in Nat
        BY <1>1, <1>2, <2>1
      <4>2. QED
        BY <4>1 DEF Level
    <3>2. e = [d EXCEPT ![n] = [d[n] EXCEPT !.amount = @ + u]]
      BY <2>2
    <3>3. e \in Seq(Level) /\ Len(e) = n
      BY <1>2, <2>1, <3>1, <3>2 DEF n
    <3>4. DOMAIN d = 1 .. n
      BY <1>2 DEF n
    <3>5. QED
      BY <1>2, <2>1, <3>2, <3>3, <3>4 DEF Level
  <2>4. ASSUME NEW m \in 1 .. n
        PROVE  /\ e[m].price \in StepPrices(ids \cup {i}, step)
               /\ e[m].amount = UnfilledOf(At(ids \cup {i}, step, e[m].price))
    <3>1. d[m].price \in StepPrices(ids, step)
          /\ d[m].amount = UnfilledOf(At(ids, step, d[m].price))
      BY DEF LevelsSoFar, n
    <3>2. CASE m = n
      BY <1>3, <1>5, <1>6, <1>10, <2>3, <3>1, <3>2
    <3>3. CASE m # n
      <4>1. m < n
        BY <1>2, <3>3
      <4>2. Worse(side, d[n].price, d[m].price)
        BY <2>1, <4>1 DEF LevelsSoFar, n
      <4>3. d[m].price # p
        BY <1>1, <1>10, <4>2 DEF Worse
      <4>4. QED
        BY <1>3, <1>4, <2>3, <3>1, <3>3, <4>3
    <3>4. QED
      BY <3>2, <3>3
  <2>5. \A l, m \in 1 .. n : l < m => Worse(side, e[m].price, e[l].price)
    BY <2>3 DEF LevelsSoFar, n
  <2>6. ASSUME NEW q \in StepPrices(ids \cup {i}, step)
        PROVE  \/ \E m \in 1 .. n : e[m].price = q
               \/ n = capacity /\ \A m \in 1 .. n : Worse(side, q, e[m].price)
    <3>1. CASE q = p
      BY <1>10, <2>1, <2>3, <3>1
    <3>2. CASE q \in StepPrices(ids, step)
      BY <2>3, <3>2 DEF LevelsSoFar, n
    <3>3. QED
      BY <1>3, <3>1, <3>2
  <2>7. QED
    BY <1>2, <2>3, <2>4, <2>5, <2>6 DEF LevelsSoFar, e, n
<1>11. ASSUME d = <<>> \/ d[n].price # p
       PROVE  \A m \in 1 .. n : d[m].price # p /\ Worse(side, p, d[m].price)
  <2> TAKE m \in 1 .. n
  <2>1. n \in 1 .. n /\ d[n].price # p
    BY <1>2, <1>11 DEF n
  <2>2. Worse(side, p, d[n].price)
    BY <1>9, <2>1
  <2>3. CASE m = n
    BY <2>1, <2>2, <2>3
  <2>4. CASE m # n
    <3>1. m < n
      BY <1>2, <2>4
    <3>2. Worse(side, d[n].price, d[m].price)
      BY <2>1, <3>1 DEF LevelsSoFar, n
    <3>3. QED
      BY <1>1, <1>2, <2>1, <2>2, <3>2 DEF Worse
  <2>5. QED
    BY <2>3, <2>4
<1>12. CASE (d = <<>> \/ d[n].price # p) /\ n = capacity
  <2>1. e = d
    BY <1>8, <1>12
  <2>2. \A m \in 1 .. n : d[m].price # p /\ Worse(side, p, d[m].price)
    BY <1>11, <1>12
  <2>3. ASSUME NEW m \in 1 .. n
        PROVE  /\ e[m].price \in StepPrices(ids \cup {i}, step)
               /\ e[m].amount = UnfilledOf(At(ids \cup {i}, step, e[m].price))
    <3>1. d[m].price \in StepPrices(ids, step)
          /\ d[m].amount = UnfilledOf(At(ids, step, d[m].price))
      BY DEF LevelsSoFar, n
    <3>2. QED
      BY <1>3, <1>4, <2>1, <2>2, <3>1
  <2>4. ASSUME NEW q \in StepPrices(ids \cup {i}, step)
        PROVE  \/ \E m \in 1 .. n : e[m].price = q
               \/ n = capacity /\ \A m \in 1 .. n : Worse(side, q, e[m].price)
    <3>1. CASE q = p
      BY <1>12, <2>1, <2>2, <3>1
    <3>2. CASE q \in StepPrices(ids, step)
      BY <2>1, <3>2 DEF LevelsSoFar, n
    <3>3. QED
      BY <1>3, <3>1, <3>2
  <2>5. \A l, m \in 1 .. n : l < m => Worse(side, e[m].price, e[l].price)
    BY <2>1 DEF LevelsSoFar, n
  <2>6. QED
    BY <1>2, <2>1, <2>3, <2>4, <2>5 DEF LevelsSoFar, e, n
<1>13. CASE (d = <<>> \/ d[n].price # p) /\ n # capacity
  <2>1. e = Append(d, [price |-> p, amount |-> u])
    BY <1>8, <1>13
  <2>2. \A m \in 1 .. n : d[m].price # p /\ Worse(side, p, d[m].price)
    BY <1>11, <1>13
  <2>3. n + 1 <= capacity
    BY <1>2, <1>13
  <2>4. p \notin StepPrices(ids, step)
    BY <1>13, <2>2 DEF LevelsSoFar, n
  <2>5. /\ e \in Seq(Level) /\ Len(e) = n + 1
        /\ \A m \in 1 .. n : e[m] = d[m]
        /\ e[n + 1].price = p /\ e[n + 1].amount = u
    <3>1. [price |-> p, amount |-> u] \in Level
      BY <1>1 DEF Level
    <3>2. QED
      BY <1>2, <2>1, <3>1 DEF n
  <2>6. ASSUME NEW m \in 1 .. n + 1
        PROVE  /\ e[m].price \in StepPrices(ids \cup {i}, step)
               /\ e[m].amount = UnfilledOf(At(ids \cup {i}, step, e[m].price))
    <3>1. CASE m = n + 1
      BY <1>3, <1>7, <2>4, <2>5, <3>1
    <3>2. CASE m # n + 1
      <4>1. m \in 1 .. n
        BY <1>2, <3>2
      <4>2. d[m].price \in StepPrices(ids, step)
            /\ d[m].amount = UnfilledOf(At(ids, step, d[m].price))
        BY <4>1 DEF LevelsSoFar, n
      <4>3. QED
        BY <1>3, <1>4, <2>2, <2>5, <4>1, <4>2
    <3>3. QED
      BY <3>1, <3>2
  <2>7. ASSUME NEW l \in 1 .. n + 1, NEW m \in 1 .. n + 1, l < m
        PROVE  Worse(side, e[m].price, e[l].price)
    <3>1. l \in 1 .. n
      BY <1>2, <2>7
    <3>2. CASE m = n + 1
      BY <2>2, <2>5, <3>1, <3>2
    <3>3. CASE m # n + 1
      <4>1. m \in 1 .. n
        BY <1>2, <3>3
      <4>2. QED
        BY <2>5, <2>7, <3>1, <4>1 DEF LevelsSoFar, n
    <3>4. QED
      BY <3>2, <3>3
  <2>8. ASSUME NEW q \in StepPrices(ids \cup {i}, step)
        PROVE  \E m \in 1 .. n + 1 : e[m].price = q
    <3>1. CASE q = p
      <4>1. n + 1 \in 1 .. n + 1
        BY <1>2
      <4>2. QED
        BY <2>5, <3>1, <4>1
    <3>2. CASE q \in StepPrices(ids, step)
      <4>1. PICK m \in 1 .. n : d[m].price = q
        BY <1>13, <3>2 DEF LevelsSoFar, n
      <4>2. m \in 1 .. n + 1
        BY <1>2
      <4>3. QED
        BY <2>5, <4>1, <4>2
    <3>3. QED
      BY <1>3, <3>1, <3>2
  <2>9. QED
    BY <2>3, <2>5, <2>6, <2>7, <2>8 DEF LevelsSoFar, e
<1>14. QED
  BY <1>10, <1>12, <1>13

\* The first of the levels are as many as their places.
LEMMA LevelsCounted ==
  ASSUME NEW side \in Sides, NEW d \in Seq(Level), NEW n \in 0 .. Len(d),
         \A l, m \in 1 .. Len(d) : l < m => Worse(side, d[m].price, d[l].price)
  PROVE  Cardinality({d[l].price : l \in 1 .. n}) = n
<1> DEFINE f == [l \in 1 .. n |-> d[l].price]
           P == {d[l].price : l \in 1 .. n}
<1>1. n \in Nat /\ \A l \in 1 .. n : l \in 1 .. Len(d) /\ d[l].price \in Nat
  <2>1. \A l \in 1 .. Len(d) : d[l] \in Level
    OBVIOUS
  <2>2. \A v \in Level : v.price \in Nat
    BY DEF Level
  <2>3. QED
    BY <2>1, <2>2
<1>2. f \in Surjection(1 .. n, P)
  BY DEF Surjection
<1>3. f \in Injection(1 .. n, P)
  <2>1. ASSUME NEW l \in 1 .. n, NEW m \in 1 .. n, l < m
        PROVE  d[l].price # d[m].price
    BY <1>1, <2>1 DEF Worse
  <2>2. ASSUME NEW l \in 1 .. n, NEW m \in 1 .. n, l # m
        PROVE  d[l].price # d[m].price
    <3>1. l < m \/ m < l
      BY <2>2
    <3>2. QED
      BY <2>1, <3>1
  <2>3. \A l, m \in 1 .. n : f[l] = f[m] => l = m
    BY <2>2
  <2>4. f \in [1 .. n -> P]
    OBVIOUS
  <2>5. QED
    BY <2>3, <2>4 DEF Injection, IsInjective
<1>4. ExistsBijection(1 .. n, P)
  <2> HIDE DEF f, P
  <2>1. QED
    BY <1>2, <1>3 DEF ExistsBijection, Bijection
<1> HIDE DEF P, f
<1>5. Cardinality(P) = n
  BY <1>1, <1>4, FS_CountingElements
<1>6. QED
  BY <1>5 DEF P

\* The levels at the end of the loop are those of the orders it went through.
LEMMA LevelsInTheEnd ==
  ASSUME NEW side \in Sides, SideOK(side), NEW step \in Nat \ {0},
         NEW capacity \in Nat \ {0}, NEW ids \in SUBSET orderSet(side), NEW d,
         LevelsSoFar(d, side, ids, step, capacity)
  PROVE  LevelsOf(d, side, ids, step, capacity)
<1> DEFINE P == StepPrices(ids, step)
           n == Len(d)
           upto(m) == {d[l].price : l \in 1 .. m}
           worse(p) == {q \in P : Worse(side, p, q)}
<1>1. d \in Seq(Level) /\ n \in Nat /\ n <= capacity /\ DOMAIN d = 1 .. n
  BY DEF LevelsSoFar
<1>2. /\ \A m \in 1 .. n : d[m].price \in P
      /\ \A l, m \in 1 .. n : l < m => Worse(side, d[m].price, d[l].price)
      /\ \A p \in P : \/ \E m \in 1 .. n : d[m].price = p
                      \/ n = capacity /\ \A m \in 1 .. n : Worse(side, p, d[m].price)
  BY DEF LevelsSoFar
<1>3. IsFiniteSet(P) /\ P \subseteq Nat
  <2> DEFINE f == [i \in ids |-> StepPrice(i, step)]
  <2>1. f \in Surjection(ids, P)
    BY DEF Surjection, StepPrices
  <2>2. IsFiniteSet(ids)
    BY SideFinite
  <2>3. IsFiniteSet(P)
    <3> HIDE DEF f, P
    <3>1. QED
      BY <2>1, <2>2, FS_Surjection
  <2>4. \A i \in ids : StepPrice(i, step) \in Nat
    BY StepPricesSorted
  <2>5. QED
    BY <2>3, <2>4 DEF StepPrices
<1>4. ASSUME NEW m \in 0 .. n
      PROVE  Cardinality(upto(m)) = m
  <2>1. m \in 0 .. Len(d) /\ \A l, k \in 1 .. Len(d) : l < k => Worse(side, d[k].price, d[l].price)
    BY <1>2
  <2>2. QED
    BY <1>1, <2>1, LevelsCounted
<1> HIDE DEF P, n
<1>5. ASSUME NEW m \in 1 .. n
      PROVE  worse(d[m].price) = upto(m - 1)
  <2>1. ASSUME NEW q \in worse(d[m].price)
        PROVE  q \in upto(m - 1)
    <3>1. q \in P /\ Worse(side, d[m].price, q)
      OBVIOUS
    <3>a. q \in Nat /\ d[m].price \in Nat
      BY <1>2, <1>3, <3>1
    <3>2. PICK l \in 1 .. n : d[l].price = q
      <4>1. ~Worse(side, q, d[m].price)
        BY <3>1, <3>a DEF Worse
      <4>2. QED
        BY <1>2, <3>1, <4>1
    <3>3. l < m
      <4>1. SUFFICES ASSUME m <= l PROVE FALSE
        BY <1>1
      <4>2. m < l \/ m = l
        BY <1>1, <4>1
      <4>3. CASE m < l
        <5>1. Worse(side, d[l].price, d[m].price)
          BY <1>2, <4>3
        <5>2. QED
          BY <3>1, <3>2, <3>a, <5>1 DEF Worse
      <4>4. CASE m = l
        BY <3>1, <3>2, <3>a, <4>4 DEF Worse
      <4>5. QED
        BY <4>2, <4>3, <4>4
    <3>4. l \in 1 .. m - 1
      BY <1>1, <3>3
    <3>5. QED
      BY <3>2, <3>4
  <2>2. ASSUME NEW l \in 1 .. m - 1
        PROVE  d[l].price \in worse(d[m].price)
    <3>1. l \in 1 .. n /\ l < m
      BY <1>1
    <3>2. QED
      BY <1>2, <3>1
  <2>3. QED
    BY <2>1, <2>2
<1>6. ASSUME NEW m \in 1 .. n
      PROVE  Cardinality(worse(d[m].price)) < capacity
  <2>1. m - 1 \in 0 .. n /\ m - 1 < capacity
    BY <1>1
  <2>2. Cardinality(worse(d[m].price)) = m - 1
    <3> HIDE DEF worse, upto
    <3>1. QED
      BY <1>4, <1>5, <2>1
  <2> HIDE DEF worse
  <2>3. QED
    BY <2>1, <2>2
<1>7. ASSUME NEW p \in P, ~\E m \in 1 .. n : d[m].price = p
      PROVE  ~(Cardinality(worse(p)) < capacity)
  <2>1. n = capacity /\ \A m \in 1 .. n : Worse(side, p, d[m].price)
    BY <1>2, <1>7
  <2>2. upto(n) \in SUBSET worse(p)
    BY <1>2, <2>1
  <2>3. worse(p) \in SUBSET P
    OBVIOUS
  <2>4. n \in 0 .. n
    BY <1>1
  <2> HIDE DEF worse, upto
  <2>5. IsFiniteSet(worse(p)) /\ Cardinality(worse(p)) \in Nat
    BY <1>3, <2>3, FS_Subset, FS_CardinalityType
  <2>6. Cardinality(upto(n)) <= Cardinality(worse(p))
    BY <2>2, <2>5, FS_Subset
  <2>7. Cardinality(upto(n)) = capacity
    BY <1>4, <2>1, <2>4
  <2>8. QED
    BY <2>5, <2>6, <2>7
<1>8. Levels(side, ids, step, capacity) = upto(n)
  <2>1. Levels(side, ids, step, capacity) = {p \in P : Cardinality(worse(p)) < capacity}
    BY DEF Levels, P
  <2>2. \A m \in 1 .. n : d[m].price \in P
    BY <1>2
  <2> HIDE DEF worse
  <2>3. QED
    BY <1>6, <1>7, <2>1, <2>2
<1>9. Len(d) = Cardinality(Levels(side, ids, step, capacity))
  <2>1. n \in 0 .. n
    BY <1>1
  <2>2. Cardinality(upto(n)) = n
    BY <1>4, <2>1
  <2> HIDE DEF upto
  <2>3. QED
    BY <1>8, <2>2 DEF n
<1>10. ASSUME NEW k \in DOMAIN d
       PROVE  /\ d[k].price \in Levels(side, ids, step, capacity)
              /\ d[k].amount = UnfilledOf(At(ids, step, d[k].price))
  BY <1>1, <1>8 DEF LevelsSoFar, n
<1>11. ASSUME NEW k \in 2 .. Len(d)
       PROVE  Worse(side, d[k].price, d[k - 1].price)
  <2>1. k \in 1 .. n /\ k - 1 \in 1 .. n /\ k - 1 < k
    BY <1>1 DEF n
  <2>2. QED
    BY <1>2, <2>1
<1>12. QED
  BY <1>9, <1>10, <1>11 DEF LevelsOf

\* The depth of a side is the levels of the orders within size of its front.
LEMMA DepthOfSide ==
  ASSUME NEW side \in Sides, SideOK(side), NEW step \in Nat \ {0},
         NEW capacity \in Nat \ {0}, NEW size \in Nat \ {0}
  PROVE  LevelsSoFar(orderDepth(Take(side, size), step, capacity),
                     side, Shown(side, size), step, capacity)
<1> DEFINE taken == Take(side, size)
<1>1. PICK N \in Nat :
        /\ taken \in [1 .. N -> Shown(side, size)]
        /\ Shown(side, size) \subseteq orderSet(side)
        /\ \A k \in 1 .. N : Cardinality(UpTo(taken[k], side)) = k
        /\ \A i \in Shown(side, size) :
             /\ Cardinality(UpTo(i, side)) \in 1 .. N
             /\ taken[Cardinality(UpTo(i, side))] = i
  BY TakeIs
<1> HIDE DEF taken
<1>2. PICK d : /\ d[0] = <<>> /\ d[N] = orderDepth(taken, step, capacity)
               /\ \A k \in 1 .. N : d[k] = AddOrder(d[k - 1], taken[k], step, capacity)
  <2>1. DOMAIN taken = 1 .. N
    BY <1>1
  <2>2. QED
    BY <2>1, DepthUnfolds
<1> DEFINE ids(k) == {taken[j] : j \in 1 .. k}
           Good(k) == LevelsSoFar(d[k], side, ids(k), step, capacity)
           Bad == {k \in 0 .. N : ~Good(k)}
<1>3. Good(0)
  <2>1. ids(0) = {}
    OBVIOUS
  <2>2. StepPrices(ids(0), step) = {}
    BY <2>1 DEF StepPrices
  <2>3. d[0] \in Seq(Level) /\ Len(d[0]) = 0
    BY <1>2
  <2> HIDE DEF ids
  <2>4. QED
    BY <2>2, <2>3 DEF LevelsSoFar
<1>4. ASSUME NEW k \in 1 .. N, Good(k - 1)
      PROVE  Good(k)
  <2>1. taken[k] \in orderSet(side) /\ \A j \in 1 .. k : taken[j] \in orderSet(side)
    BY <1>1
  <2>2. ids(k - 1) \in SUBSET orderSet(side)
    BY <2>1
  <2>3. taken[k] \notin ids(k - 1)
    <3>1. ASSUME NEW j \in 1 .. k - 1, taken[j] = taken[k]
          PROVE  FALSE
      <4>1. j \in 1 .. N /\ j # k
        OBVIOUS
      <4>2. Cardinality(UpTo(taken[j], side)) = j /\ Cardinality(UpTo(taken[k], side)) = k
        BY <1>1, <4>1
      <4>3. QED
        BY <3>1, <4>1, <4>2
    <3>2. QED
      BY <3>1
  <2>4. ids(k) = ids(k - 1) \cup {taken[k]}
    OBVIOUS
  <2>5. ASSUME NEW j \in 1 .. k - 1
        PROVE  Before(taken[j], taken[k])
    <3>1. j \in 1 .. N /\ j < k /\ taken[j] # taken[k]
      BY <2>3
    <3>2. taken[j] \in orderSet(side)
      BY <1>1, <3>1
    <3>3. Before(taken[j], taken[k]) \/ Before(taken[k], taken[j])
      BY <2>1, <3>1, <3>2, BeforeIsStrictOrder
    <3>4. ~Before(taken[k], taken[j])
      <4>1. Cardinality(UpTo(taken[j], side)) = j /\ Cardinality(UpTo(taken[k], side)) = k
        BY <1>1, <3>1
      <4>2. Before(taken[k], taken[j])
              => Cardinality(UpTo(taken[k], side)) < Cardinality(UpTo(taken[j], side))
        BY <2>1, <3>2, Places
      <4>3. QED
        BY <3>1, <4>1, <4>2
    <3>5. QED
      BY <3>3, <3>4
  <2>6. ASSUME NEW q \in StepPrices(ids(k - 1), step)
        PROVE  q = StepPrice(taken[k], step) \/ Worse(side, StepPrice(taken[k], step), q)
    <3>1. PICK j \in 1 .. k - 1 : q = StepPrice(taken[j], step)
      BY DEF StepPrices
    <3>2. taken[j] \in orderSet(side)
      BY <2>1
    <3>3. QED
      BY <2>1, <2>5, <3>1, <3>2, StepPricesSorted
  <2>7. d[k] = AddOrder(d[k - 1], taken[k], step, capacity)
    BY <1>2
  <2>8. LevelsSoFar(d[k - 1], side, ids(k - 1), step, capacity)
    BY <1>4
  <2> HIDE DEF ids
  <2>9. LevelsSoFar(AddOrder(d[k - 1], taken[k], step, capacity), side,
                    ids(k - 1) \cup {taken[k]}, step, capacity)
    BY <2>1, <2>2, <2>3, <2>6, <2>8, AddOrderKeepsLevels
  <2>10. QED
    BY <2>4, <2>7, <2>9
<1>5. Bad = {}
  <2>1. SUFFICES ASSUME Bad # {} PROVE FALSE
    OBVIOUS
  <2>2. PICK k \in Bad : \A j \in Bad : k <= j
    <3>1. Bad \subseteq Nat
      OBVIOUS
    <3> HIDE DEF Bad
    <3>2. QED
      BY <2>1, <3>1, LeastNumber
  <2> HIDE DEF Good
  <2>3. k \in 1 .. N /\ k - 1 \in 0 .. N
    BY <1>3
  <2>4. Good(k - 1)
    <3>1. k - 1 \notin Bad
      BY <2>2, <2>3
    <3>2. QED
      BY <2>3, <3>1
  <2>5. QED
    BY <1>4, <2>3, <2>4
<1>6. Good(N)
  <2> HIDE DEF Good
  <2>1. N \in 0 .. N
    OBVIOUS
  <2>2. QED
    BY <1>5, <2>1
<1>7. ids(N) = Shown(side, size)
  BY <1>1
<1> HIDE DEF ids
<1>8. QED
  BY <1>2, <1>6, <1>7 DEF taken

\* Every step, capacity and size of a depth shows the book.
LEMMA EveryDepthShows ==
  ASSUME IInv, NEW step \in Nat \ {0}, NEW capacity \in Nat \ {0}, NEW size \in Nat \ {0}
  PROVE  DepthShows(step, capacity, size)
<1> DEFINE depth(side) == orderDepth(Take(side, size), step, capacity)
<1>1. ASSUME NEW side \in Sides
      PROVE  /\ SideOK(side) /\ orderSet(side) \subseteq cache
             /\ Shown(side, size) \in SUBSET orderSet(side)
             /\ LevelsSoFar(depth(side), side, Shown(side, size), step, capacity)
  BY SidesOK, DepthOfSide DEF Shown
<1> HIDE DEF depth
<1>2. ASSUME NEW side \in Sides
      PROVE  LevelsOf(depth(side), side, Shown(side, size), step, capacity)
  BY <1>1, LevelsInTheEnd
<1>3. ASSUME NEW side \in Sides, depth(side) # <<>>
      PROVE  \E i \in orderSet(side) :
               /\ depth(side)[1].price = StepPrice(i, step)
               /\ orders[i].side = side /\ orders[i].price \in Nat
  <2>1. depth(side)[1].price \in StepPrices(Shown(side, size), step)
    <3>1. depth(side) \in Seq(Level)
      BY <1>1 DEF LevelsSoFar
    <3>2. 1 \in 1 .. Len(depth(side))
      BY <1>3, <3>1
    <3>3. QED
      BY <1>1, <3>2 DEF LevelsSoFar
  <2>2. PICK i \in Shown(side, size) : depth(side)[1].price = StepPrice(i, step)
    BY <2>1 DEF StepPrices
  <2>3. i \in orderSet(side) /\ orders[i].side = side /\ orders[i].price \in Nat
    BY <1>1 DEF SideOK, OrderRecord
  <2>4. QED
    BY <2>2, <2>3
<1>4. ASSUME depth("Buy") # <<>>, depth("Sell") # <<>>
      PROVE  depth("Buy")[1].price < depth("Sell")[1].price
  <2>1. PICK b \in buySet : /\ depth("Buy")[1].price = StepPrice(b, step)
                            /\ orders[b].side = "Buy" /\ orders[b].price \in Nat
    BY <1>3, <1>4 DEF Sides, orderSet
  <2>2. PICK s \in sellSet : /\ depth("Sell")[1].price = StepPrice(s, step)
                             /\ orders[s].side = "Sell" /\ orders[s].price \in Nat
    BY <1>3, <1>4 DEF Sides, orderSet
  <2>3. orders[b].price < orders[s].price
    BY DEF IInv, Uncrossed
  <2>4. /\ StepPrice(b, step) \in Nat /\ StepPrice(b, step) <= orders[b].price
        /\ StepPrice(s, step) \in Nat /\ orders[s].price <= StepPrice(s, step)
    <3>1. orders[b].price <= orders[b].price /\ orders[s].price <= orders[s].price
      BY <2>1, <2>2
    <3>2. step \in Nat \ {0}
      OBVIOUS
    <3>3. QED
      BY <2>1, <2>2, <3>1, <3>2, RoundingKeepsOrder DEF StepPrice
  <2>5. QED
    BY <2>1, <2>2, <2>3, <2>4
<1>5. QED
  BY <1>2, <1>4 DEF DepthShows, depth

\* The depth shows the book, whatever its steps, capacities and sizes, after
\* any sequence of orders.
THEOREM DepthIsTheBook ==
  Spec => []( /\ DepthShowsBook
              /\ \A step, capacity, size \in Nat \ {0} : DepthShows(step, capacity, size) )
<1>1. IInv => /\ DepthShowsBook
              /\ \A step, capacity, size \in Nat \ {0} : DepthShows(step, capacity, size)
  <2>1. SUFFICES ASSUME IInv
                 PROVE  /\ DepthShowsBook
                        /\ \A step, capacity, size \in Nat \ {0} :
                             DepthShows(step, capacity, size)
    OBVIOUS
  <2>2. \A step, capacity, size \in Nat \ {0} : DepthShows(step, capacity, size)
    BY <2>1, EveryDepthShows
  <2>3. \A n \in 1 .. 2 : n \in Nat \ {0}
    OBVIOUS
  <2>4. \A n \in {2, MaxSeqId} : n \in Nat \ {0}
    BY BookAssumption
  <2>5. DepthShowsBook
    BY <2>2, <2>3, <2>4 DEF DepthShowsBook
  <2>6. QED
    BY <2>2, <2>5
<1>2. QED
  BY <1>1, Invariance, PTL
=============================================================================
