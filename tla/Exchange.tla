------------------------------ MODULE Exchange ------------------------------
(***************************************************************************)
(* What a spot exchange promises about one symbol, with no index, trees,   *)
(* order states, messages or sequence of checks: orders rest, one order at *)
(* a time works against the best of them, and whatever happens to an order *)
(* is one of the few steps below.  Matcher implements it (MatcherRefines). *)
(***************************************************************************)
EXTENDS Integers

CONSTANTS
  Ids,    \* order ids, later orders have larger ones
  Orders, \* the orders that may be accepted
  Lot     \* the least quantity a cash order buys

VARIABLES
  live,     \* what is left of every resting order and of the working one
  working,  \* the order at work, 0 when there is none
  done      \* nothing more will be matched for the working order

xvars == <<live, working, done>>

Resting == DOMAIN live \ {working}
Rivals == {i \in Resting : live[i].side # live[working].side}
Cash(o) == o.type = "Market" /\ o.side = "Buy"

\* Buyers prefer cheap rivals, sellers dear ones, everyone the earlier one.
Better(i, j, side) ==
  \/ IF side = "Buy" THEN live[i].price < live[j].price
                     ELSE live[i].price > live[j].price
  \/ live[i].price = live[j].price /\ i < j

Best(m) == m \in Rivals /\ \A k \in Rivals \ {m} : Better(m, k, live[working].side)

\* The limit of a limit order binds; the other types ask no price while they
\* are matched.
Acceptable(m) ==
  live[working].type = "Limit" =>
    IF live[working].side = "Buy" THEN live[m].price <= live[working].price
                                  ELSE live[m].price >= live[working].price

Pays(q, m) == IF Cash(live[working]) THEN q * live[m].price ELSE q

\* After c the order can take nothing more at m's price.
Spent(o, m, c) ==
  \/ c = o.left
  \/ Cash(o) /\ c <= o.left /\ o.left - c < Lot * live[m].price

\* live with q taken from m and c from the working order; m goes when empty.
Less(m, q, c) ==
  [i \in IF q = live[m].left THEN DOMAIN live \ {m} ELSE DOMAIN live |->
     CASE i = m -> [live[m] EXCEPT !.left = @ - q]
       [] i = working -> [live[working] EXCEPT !.left = @ - c]
       [] OTHER -> live[i]]

XInit == live = <<>> /\ working = 0 /\ done = FALSE

Accept(i) ==
  /\ working = 0
  /\ \A j \in DOMAIN live : j < i
  /\ working' = i
  /\ done' = FALSE
  /\ \E o \in Orders :
       live' = [j \in DOMAIN live \cup {i} |-> IF j = i THEN o ELSE live[j]]

\* As much as possible is traded with the best rival, at the rival's price.
Trade(m, q) ==
  LET c == Pays(q, m)
      o == live[working]
  IN  /\ working # 0 /\ ~done
      /\ Best(m) /\ Acceptable(m)
      /\ o.stp # "AST" => o.user # live[m].user
      /\ c <= o.left
      /\ q = live[m].left \/ Spent(o, m, c)
      /\ live' = Less(m, q, c)
      /\ done' = (c = o.left)
      /\ UNCHANGED working

\* A self-trade is prevented: the two lose the same amount (DC), the rival is
\* cancelled (CO, CB), the working order is (CN, CB).
Prevent(m, q) ==
  LET c == Pays(q, m)
      o == live[working]
  IN  /\ working # 0 /\ ~done
      /\ Best(m) /\ Acceptable(m)
      /\ o.stp # "AST" /\ o.user = live[m].user
      /\ \/ /\ o.stp \in {"CO", "CB"}
            /\ q = live[m].left
            /\ live' = Less(m, q, 0)
            /\ done' = (o.stp = "CB")
         \/ /\ o.stp = "CN"
            /\ UNCHANGED live
            /\ done' = TRUE
         \/ /\ o.stp = "DC"
            /\ q = live[m].left
            /\ c < o.left
            /\ live' = Less(m, q, c)
            /\ done' = FALSE
         \/ /\ o.stp = "DC"
            /\ Spent(o, m, c)
            /\ live' = Less(m, q, 0)
            /\ done' = TRUE
      /\ UNCHANGED working

\* The cash left buys nothing at the best price.
RunDry(m) ==
  /\ working # 0 /\ ~done
  /\ Best(m)
  /\ Cash(live[working]) /\ live[working].left < Lot * live[m].price
  /\ done' = TRUE
  /\ UNCHANGED <<live, working>>

\* Only a limit order rests, and only when it could not trade.
Rest ==
  /\ working # 0 /\ ~done
  /\ live[working].type = "Limit"
  /\ \A m \in Rivals : ~Acceptable(m)
  /\ working' = 0
  /\ UNCHANGED <<live, done>>

\* A limit order leaves when it is done; the others also for want of rivals
\* or out of their price band.
Leave ==
  /\ working # 0
  /\ \/ done
     \/ live[working].type # "Limit" /\ Rivals = {}
     \/ live[working].type # "Limit" /\ live[working].banded
  /\ live' = [i \in Resting |-> live[i]]
  /\ working' = 0
  /\ done' = FALSE

\* Cancelling takes resting orders away and does nothing else.
Withdraw(ids) ==
  /\ working = 0
  /\ live' = [i \in DOMAIN live \ ids |-> live[i]]
  /\ UNCHANGED <<working, done>>

XNext ==
  \/ \E i \in Ids : Accept(i)
  \/ working # 0 /\ \E m \in Rivals : \E q \in 1 .. live[m].left :
       Trade(m, q) \/ Prevent(m, q)
  \/ working # 0 /\ \E m \in Rivals : RunDry(m)
  \/ Rest
  \/ Leave
  \/ \E ids \in SUBSET DOMAIN live : Withdraw(ids)

XSpec == XInit /\ [][XNext]_xvars

=============================================================================
