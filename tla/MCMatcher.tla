------------------------------ MODULE MCMatcher ------------------------------
(***************************************************************************)
(* Small catalogues of rows for model-checking Matcher.                    *)
(***************************************************************************)
EXTENDS MatcherRefines, Depth

CONSTANTS u1, u2

LimitRows(users, sides, prices, amounts, stps, rates) ==
  [user: users, side: sides, type: {"Limit"}, price: prices, amount: amounts,
   stp: stps, rate: rates]

MarketRows(users, sides, amounts, stps, rates) ==
  [user: users, side: sides, type: {"Market"}, price: {0}, amount: amounts,
   stp: stps, rate: rates]

FokRows(users, sides, prices, amounts, stps, rates) ==
  [user: users, side: sides, type: {"Fok"}, price: prices, amount: amounts,
   stp: stps, rate: rates]

MCUsers == {u1, u2}
Guards == StpKind \ {"AST"}

\* Limit and market orders of both sides, self-trade allowed.
PlainInputs ==
  LimitRows({u1}, Sides, 1 .. 3, 1 .. 2, {"AST"}, {0})
    \cup MarketRows({u1}, Sides, 1 .. 4, {"AST"}, {0})

PlainBatches == {<<>>, <<1, 2>>, <<2, 2>>}

\* Sell orders of two users, and buyers with each self-trade strategy: limit
\* buys that may rest and be met later, and market buys paying cash.
SelfTradeInputs ==
  LimitRows({u1, u2}, {"Sell"}, 1 .. 2, 1 .. 2, {"AST"}, {0})
    \cup LimitRows({u1}, {"Buy"}, {2}, {1, 3}, Guards, {0})
    \cup MarketRows({u1}, {"Buy"}, {1, 3, 5}, Guards, {0})

\* The same from the other side, where every amount is a quantity: what a
\* strategy left on the book meets a second guarded order.
SelfTradeSellInputs ==
  LimitRows({u1, u2}, {"Buy"}, {2}, 1 .. 2, {"AST", "DC"}, {0})
    \cup LimitRows({u1}, {"Sell"}, {1, 2}, {1, 3}, Guards, {0})
    \cup MarketRows({u1}, {"Sell"}, {1, 3}, Guards, {0})

NoBatches == {<<>>}

\* Takers with and without a circuit rate of 50%, FOK orders of both sides
\* before books whose orders carry a rate or not.
GuardedInputs ==
  LimitRows({u1}, Sides, 1 .. 3, {1, 2}, {"AST"}, {0, 5})
    \cup MarketRows({u1}, {"Sell"}, {3}, {"AST"}, {5})
    \cup MarketRows({u1}, {"Buy"}, {6}, {"AST"}, {5})
    \cup FokRows({u1}, Sides, 1 .. 3, {1, 2, 3}, {"AST"}, {0, 5})

\* FOK and market orders of a user who also rests on the book, with every
\* strategy, and a circuit rate: the cases matcher.go's comments leave out.
OwnOrderInputs ==
  LimitRows({u1, u2}, {"Sell"}, 1 .. 3, {1}, {"AST"}, {0})
    \cup FokRows({u1}, {"Buy"}, {2, 3}, {1, 2}, StpKind, {0, 5})
    \cup MarketRows({u1}, {"Buy"}, {6}, {"CO"}, {5})

\* Makers finer than the step in which a market buy spends its cash.
CashInputs ==
  LimitRows({u1, u2}, {"Sell"}, {1, 2}, {1, 3, 4}, {"AST"}, {0})
    \cup MarketRows({u1}, {"Buy"}, {1, 7, 12}, {"AST", "DC"}, {0})

\* Orders of the type Match does not route, and prices beyond DivUnit: with
\* cash 5 (11, when Lot is 2) a maker at price 3 rounds the quotient up.
FatalInputs ==
  LimitRows({u1}, {"Sell"}, {1, 3}, {2, 4}, {"AST"}, {0})
    \cup MarketRows({u1}, {"Buy"}, {2, 5, 11}, {"AST"}, {0})
    \cup [user: {u1}, side: Sides, type: {"Ioc"}, price: {2}, amount: {1},
          stp: {"AST"}, rate: {0}]
-----------------------------------------------------------------------------
(* Several catalogues in one run, one of them at a time: what rests on the *)
(* book and the order in hand are of the same catalogue.                   *)

TradingCatalogues == {PlainInputs, SelfTradeInputs}
TradingInputs == UNION TradingCatalogues

EndingCatalogues == {GuardedInputs, SelfTradeSellInputs, CashInputs, FatalInputs}
EndingInputs == UNION EndingCatalogues

Row(o) ==
  [user |-> o.user, side |-> o.side, type |-> o.type, price |-> o.price,
   amount |-> o.amount, stp |-> o.stp, rate |-> o.rate]

InPlay == {Row(orders[i]) : i \in {j \in (cache \cup {fromId}) \ {0} : orders[j] # NoOrder}}

\* Action constraints: no row is taken that would mix catalogues.  The steps of
\* the loop are never cut.
TradingOnly == (\E S \in TradingCatalogues : InPlay \subseteq S)'
EndingOnly == (\E S \in EndingCatalogues : InPlay \subseteq S)'
=============================================================================
