------------------------------ MODULE OrderBook ------------------------------
(***************************************************************************)
(* The order book of one symbol (match/order_book.go): an index of resting *)
(* orders by order id and two trees, one per side.  The index and the      *)
(* trees point to the same order objects, which `orders` holds; nothing    *)
(* but Enqueue and Dequeue keeps the three in step.                        *)
(*                                                                         *)
(* Upstream gives every order a fresh order id and the order table a fresh *)
(* sequence id, so one number stands for both.                             *)
(***************************************************************************)
EXTENDS Order, FiniteSetsExt

CONSTANTS
  MaxSeqId,   \* bound on the sequence ids handed out
  NoOrder     \* the content of an `orders` cell nothing points to

ASSUME BookAssumption ==
  /\ MaxSeqId \in Nat \ {0}
  /\ NoOrder \notin OrderRecord

VARIABLES
  orders,     \* the order objects, by sequence id
  cache,      \* OrderBook.cache: the ids in the index
  buySet,     \* OrderBook.BuySet
  sellSet     \* OrderBook.SellSet

bookVars == <<orders, cache, buySet, sellSet>>

SeqIds == 1 .. MaxSeqId

InitOrderBook ==
  /\ orders = [i \in SeqIds |-> NoOrder]
  /\ cache = {}
  /\ buySet = {}
  /\ sellSet = {}

\* Slip: at one price the latest order goes first.
BeforeLatest(a, b) ==
  LET p == orders[a].price
      q == orders[b].price
  IN  \/ IF orders[a].side = "Buy" THEN p > q ELSE p < q
      \/ p = q /\ a > b

\* Comparator(a, b) = -1: better price first, then the earlier sequence id.
Before(a, b) ==
  LET p == orders[a].price
      q == orders[b].price
  IN  \/ IF orders[a].side = "Buy" THEN p > q ELSE p < q
      \/ p = q /\ a < b

orderSet(side) == IF side = "Buy" THEN buySet ELSE sellSet

\* Peek: i is the first order of the side's tree.
IsHead(i, side) ==
  /\ i \in orderSet(side)
  /\ \A j \in orderSet(side) \ {i} : Before(i, j)

Find(i) == i \in cache

\* The two ways Dequeue ends the process instead of removing i.
DequeueFails(i) ==
  \/ ~Find(i)
  \/ i \notin orderSet(orders[i].side)

\* Slip: the order stays in its tree.
DequeueFromIndex(ids) == cache' = cache \ ids /\ UNCHANGED <<buySet, sellSet>>

Dequeue(ids) ==
  /\ cache' = cache \ ids
  /\ buySet' = buySet \ ids
  /\ sellSet' = sellSet \ ids

EnqueueFails(i) == Find(i)

Enqueue(i) ==
  /\ cache' = cache \cup {i}
  /\ IF orders[i].side = "Buy"
     THEN buySet' = buySet \cup {i} /\ UNCHANGED sellSet
     ELSE sellSet' = sellSet \cup {i} /\ UNCHANGED buySet

\* The orders of a side in front of i, and i itself.
UpTo(i, side) == {j \in orderSet(side) : j = i \/ Before(j, i)}

UnfilledOf(ids) == MapThenSumSet(LAMBDA j : orders[j].unfilled, ids)
=============================================================================
