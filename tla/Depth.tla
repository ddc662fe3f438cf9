-------------------------------- MODULE Depth --------------------------------
(* The depth of the market (market/depth.go): the book as the world sees it, *)
(* its resting orders added up at prices rounded to a step.  The matching    *)
(* goroutine builds it between two orders, from the trees the matcher keeps. *)
EXTENDS Matcher, SequencesExt

\* OrderBook.Take: the first orders of a side, in the order of its tree.
Take(side, size) ==
    LET n == Cardinality(orderSet(side))
    IN  [k \in 1 .. (IF size < n THEN size ELSE n) |->
            CHOOSE i \in orderSet(side) : Cardinality(UpTo(i, side)) = k]

roundUp(price, step) ==
    IF price % step > 0 THEN price - (price % step) + step ELSE price

roundDown(price, step) == (price \div step) * step

\* Sell prices go up to the step and buy prices down, away from the spread.
StepPrice(i, step) ==
    IF orders[i].side = "Sell" THEN roundUp(orders[i].price, step)
                               ELSE roundDown(orders[i].price, step)

\* Slip: a price is compared with the first level, not with the last one.
AddOrderToFirst(depths, i, step, capacity) ==
    LET price == StepPrice(i, step)
    IN  IF depths = <<>> \/ depths[1].price # price
        THEN IF Len(depths) = capacity
             THEN depths
             ELSE Append(depths, [price |-> price, amount |-> orders[i].unfilled])
        ELSE [depths EXCEPT ![Len(depths)].amount = @ + orders[i].unfilled]

\* One turn of orderDepth's loop.  A full list is left for good: the orders are
\* sorted, so that no later one belongs to its last level.
AddOrder(depths, i, step, capacity) ==
    LET price == StepPrice(i, step)
    IN  IF depths = <<>> \/ Last(depths).price # price
        THEN IF Len(depths) = capacity
             THEN depths
             ELSE Append(depths, [price |-> price, amount |-> orders[i].unfilled])
        ELSE [depths EXCEPT ![Len(depths)].amount = @ + orders[i].unfilled]

orderDepth(taken, step, capacity) ==
    FoldLeft(LAMBDA depths, i : AddOrder(depths, i, step, capacity), <<>>, taken)

-----------------------------------------------------------------------------
(* What the depth of one side shows of the book *)

\* Further from the spread, of two prices of a side.
Worse(side, p, q) == IF side = "Sell" THEN p > q ELSE p < q

\* The orders within size of the front of a side.
Shown(side, size) == {i \in orderSet(side) : Cardinality(UpTo(i, side)) <= size}

\* The rounded prices of orders, and those of them that are at price p.
StepPrices(ids, step) == {StepPrice(i, step) : i \in ids}
At(ids, step, p) == {i \in ids : StepPrice(i, step) = p}

\* The best rounded prices of orders of a side, capacity of them.
Levels(side, ids, step, capacity) ==
    LET prices == StepPrices(ids, step)
    IN  {p \in prices : Cardinality({q \in prices : Worse(side, p, q)}) < capacity}

\* The levels d of a side are those prices, each once, best first, with all
\* that rests there.
LevelsOf(d, side, ids, step, capacity) ==
    LET levels == Levels(side, ids, step, capacity)
    IN  /\ Len(d) = Cardinality(levels)
        /\ \A k \in DOMAIN d :
              /\ d[k].price \in levels
              /\ d[k].amount = UnfilledOf(At(ids, step, d[k].price))
        /\ \A k \in 2 .. Len(d) : Worse(side, d[k].price, d[k - 1].price)

\* A step, a capacity and a size show the book.
DepthShows(step, capacity, size) ==
    LET depth(side) == orderDepth(Take(side, size), step, capacity)
    IN  /\ \A side \in Sides :
              LevelsOf(depth(side), side, Shown(side, size), step, capacity)
        /\ depth("Buy") # <<>> /\ depth("Sell") # <<>> =>
              depth("Buy")[1].price < depth("Sell")[1].price

\* The levels are the best rounded prices of the orders taken, each once, best
\* first, with all that rests there, and rounding never makes the two sides
\* meet: a list built by looking at its last level only, from trees that
\* matching, decreasing and cancelling have changed any number of times.
DepthShowsBook ==
    phase = "idle" =>
        \A step \in 1 .. 2, capacity \in 1 .. 2, size \in {2, MaxSeqId} :
            DepthShows(step, capacity, size)
=============================================================================
