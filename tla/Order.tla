-------------------------------- MODULE Order --------------------------------
(***************************************************************************)
(* The order of the matching engine (match/order.go) and the arithmetic of *)
(* one encounter of an incoming order (the taker) with a resting one (the  *)
(* maker), match/matcher.go.                                               *)
(*                                                                         *)
(* Quantities are integers.  Amounts count the finest quantity the symbol  *)
(* allows, prices the cash one such quantity costs; LOWPRECISION, the step *)
(* in which a market buy spends its cash, is Lot of those quantities.      *)
(* Circuit rates are fractions of RateUnit.                                *)
(*                                                                         *)
(* In this module and the next two, an operator whose comment begins with  *)
(* "Slip" is a plausible mistake in the definition below it; the runs show *)
(* that a property notices it.                                             *)
(***************************************************************************)
EXTENDS Integers

CONSTANTS
  Users,         \* user ids
  Lot,           \* LOWPRECISION, in quantity units
  DivUnit,       \* 10^37 in the program: market-match.go sets DivisionPrecision
  RateUnit       \* a circuit rate of RateUnit is 100%

ASSUME ConstAssumption ==
  /\ Lot \in Nat \ {0}
  /\ DivUnit \in Nat \ {0}
  /\ RateUnit \in Nat \ {0}

\* LOWPRECISION is 10^-6, so Lot is 10^12 at the amount scale 18 of the
\* configurations, and it would take a scale of 43 to break this.
ASSUME LotAssumption == Lot < 2 * DivUnit

Sides == {"Buy", "Sell"}

\* The types a row of the order table can carry into a trade.  The switch of
\* Match has no case for "Ioc".
OrderType == {"Market", "Limit", "Fok", "Ioc"}

\* AST lets a user trade with himself; the others are the four ways not to.
StpKind == {"AST", "DC", "CO", "CN", "CB"}

OrderState ==
  {"Submitted", "PartialFilled", "PartialCanceled", "Canceled", "Filled",
   "Failed", "CircuitCanceled", "SelfTradeCanceled",
   "SelfTradePartialCanceled", "SelfTradeDecreased", "PrecisionCanceled"}

\* What upstream writes in a row of the order table.
Terms ==
  [user: Users, side: Sides, type: OrderType, price: Nat, amount: Nat \ {0},
   stp: StpKind, rate: Nat]

OrderRecord ==
  [user: Users, side: Sides, type: OrderType, price: Nat, amount: Nat \ {0},
   stp: StpKind, rate: Nat, unfilled: Nat, state: OrderState]

\* A row as the puller hands it over: nothing filled yet.
NewOrder(o) ==
  [user |-> o.user, side |-> o.side, type |-> o.type, price |-> o.price,
   amount |-> o.amount, stp |-> o.stp, rate |-> o.rate,
   unfilled |-> o.amount, state |-> "Submitted"]

Opposite(side) == IF side = "Buy" THEN "Sell" ELSE "Buy"

\* The amount of a market buy is cash, every other amount is a quantity.
PaysCash(o) == o.type = "Market" /\ o.side = "Buy"

Least(a, b) == IF a <= b THEN a ELSE b

-----------------------------------------------------------------------------
(* One order *)

fillAmount(o, q) ==
  [o EXCEPT !.unfilled = @ - q,
            !.state = IF q = o.unfilled THEN "Filled" ELSE "PartialFilled"]

SetState(o, s) == [o EXCEPT !.state = s]

\* stOrderState and stOppoOrderState: cancelled by self-trade prevention, in
\* part when something of the order was filled or decreased before.
StCancel(o) ==
  SetState(o, CASE o.state = "Submitted" -> "SelfTradeCanceled"
                [] o.state \in {"PartialFilled", "SelfTradeDecreased"}
                     -> "SelfTradePartialCanceled"
                [] OTHER -> o.state)

StDecrease(o, q) ==
  [o EXCEPT !.unfilled = @ - q, !.state = "SelfTradeDecreased"]

\* Slip: the loops have no exit for a taker cancelled after a fill.
EndsLoopUnlessPartial(o) ==
  o.state \in {"Filled", "SelfTradeCanceled", "PrecisionCanceled"}

\* The states in which the loops of matcher.go stop on the taker itself.
EndsLoop(o) ==
  o.state \in {"Filled", "SelfTradeCanceled", "SelfTradePartialCanceled",
               "PrecisionCanceled"}

\* The states in which a maker is taken off the book after an encounter.
LeavesBook(o) ==
  o.state \in {"Filled", "SelfTradeCanceled", "SelfTradePartialCanceled"}

-----------------------------------------------------------------------------
(* One encounter of taker t with maker m *)

\* Slip: equal prices do not trade.
matchAbleStrict(t, m) ==
  IF t.side = "Buy" THEN t.price > m.price ELSE t.price < m.price

matchAble(t, m) ==
  IF t.side = "Buy" THEN t.price >= m.price ELSE t.price <= m.price

\* cash.Div(unit).Truncate(0): the quotient is first rounded half up to
\* 1/DivUnit, then truncated, so it can exceed the true quotient.
DivTruncate(cash, unit) ==
  ((2 * cash * DivUnit + unit) \div (2 * unit)) \div DivUnit

unitPrice(m) == Lot * m.price

TooLittleCash(t, m) == PaysCash(t) /\ unitPrice(m) > t.unfilled

\* Slip: the number of lots is taken for the quantity.
WantedLots(t, m) ==
  IF PaysCash(t) THEN DivTruncate(t.unfilled, unitPrice(m)) ELSE t.unfilled

\* How much the taker can take at the maker's price.
Wanted(t, m) ==
  IF PaysCash(t) THEN DivTruncate(t.unfilled, unitPrice(m)) * Lot
                 ELSE t.unfilled

\* Slip: what the maker has left is not looked at.
matchAmountWanted(t, m) == Wanted(t, m)

matchAmount(t, m) == Least(Wanted(t, m), m.unfilled)

\* What the taker gives for it: cash for a market buy, else the quantity.
TakerAmount(t, m) ==
  IF PaysCash(t) THEN matchAmount(t, m) * m.price ELSE matchAmount(t, m)

\* "filling amount more than need": the assertion that ends the process.
Overfills(t, m) == TakerAmount(t, m) > t.unfilled

\* Slip: the resting order's strategy counts.
IsSelfTradeOfMaker(t, m) == t.user = m.user /\ m.stp # "AST"

IsSelfTrade(t, m) == t.user = m.user /\ t.stp # "AST"

\* The taker, the maker and the FilledAmount published for the maker after an
\* encounter; item is FALSE where the code returns nil.
Encounter(t, m, filled, item) ==
  [taker |-> t, maker |-> m, filled |-> filled, item |-> item]

\* Slip: the taker is decreased by the quantity, not by its worth.
DecreaseByQuantity(t, m) ==
  LET q == matchAmount(t, m)
  IN  IF Wanted(t, m) < m.unfilled
      THEN Encounter(StCancel(t), StDecrease(m, q), q, TRUE)
      ELSE Encounter(IF t.unfilled > q THEN StDecrease(t, q) ELSE StCancel(t),
                     StCancel(m), q, TRUE)

\* DC: the smaller side is cancelled, the larger one keeps the difference; at
\* equal quantities a market buy may still have change left.
DecreaseAndCancel(t, m) ==
  LET q == matchAmount(t, m)
      c == TakerAmount(t, m)
  IN  IF Wanted(t, m) < m.unfilled
      THEN Encounter(StCancel(t), StDecrease(m, q), q, TRUE)
      ELSE Encounter(IF Wanted(t, m) > m.unfilled \/ t.unfilled > c
                     THEN StDecrease(t, c) ELSE StCancel(t),
                     StCancel(m), q, TRUE)

\* Slip: "old" and "new" are swapped.
SelfTradeSwapped(t, m) ==
  IF t.stp = "CB" THEN Encounter(StCancel(t), StCancel(m), m.unfilled, TRUE)
  ELSE IF t.stp = "CN" THEN Encounter(t, StCancel(m), m.unfilled, TRUE)
  ELSE IF t.stp = "CO" THEN Encounter(StCancel(t), m, 0, FALSE)
  ELSE DecreaseAndCancel(t, m)

SelfTrade(t, m) ==
  IF t.stp = "CB" THEN Encounter(StCancel(t), StCancel(m), m.unfilled, TRUE)
  ELSE IF t.stp = "CO" THEN Encounter(t, StCancel(m), m.unfilled, TRUE)
  ELSE IF t.stp = "CN" THEN Encounter(StCancel(t), m, 0, FALSE)
  ELSE DecreaseAndCancel(t, m)

matchOrder(t, m) ==
  IF TooLittleCash(t, m)
  THEN Encounter(SetState(t, "PrecisionCanceled"), m, 0, FALSE)
  ELSE IF IsSelfTrade(t, m) THEN SelfTrade(t, m)
  ELSE Encounter(fillAmount(t, TakerAmount(t, m)), fillAmount(m, matchAmount(t, m)),
                 matchAmount(t, m), TRUE)

\* The price band of market and FOK orders around a base price.
OutOfBand(rate, base, price) ==
  /\ rate # 0
  /\ \/ (RateUnit - rate) * base >= RateUnit * price
     \/ (RateUnit + rate) * base <= RateUnit * price

-----------------------------------------------------------------------------
(* The state published for the taker, "" where the code sets none *)

\* Slip: what is left of a market order is published as if it rested.
finalizeTakerMarketAsRest(s) == s

finalizeTakerMarket(s) ==
  CASE s = "Submitted" -> "Canceled"
    [] s \in {"PartialFilled", "SelfTradeDecreased"} -> "PartialCanceled"
    [] s \in {"CircuitCanceled", "SelfTradeCanceled", "Filled",
              "SelfTradePartialCanceled", "PrecisionCanceled"} -> s
    [] OTHER -> ""

finalizeTakerLimit(s) ==
  IF s \in {"Submitted", "PartialFilled", "Filled", "SelfTradeCanceled",
            "SelfTradeDecreased", "SelfTradePartialCanceled"} THEN s ELSE ""

finalizeTakerFok(s) ==
  CASE s = "Submitted" -> "Canceled"
    [] s \in {"PartialFilled", "Filled", "SelfTradeCanceled",
              "SelfTradeDecreased", "SelfTradePartialCanceled"} -> s
    [] OTHER -> ""

finalizeTaker(o) ==
  CASE o.type = "Market" -> finalizeTakerMarket(o.state)
    [] o.type = "Limit" -> finalizeTakerLimit(o.state)
    [] o.type = "Fok" -> finalizeTakerFok(o.state)
    [] OTHER -> ""
=============================================================================
