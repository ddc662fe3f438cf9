--------------------------- MODULE MatcherProofs ---------------------------
(***************************************************************************)
(* Safety of the matching engine for every catalogue of rows, every number *)
(* of orders, every precision: the index and the trees stay in step, the   *)
(* book is never crossed, and no Fatal is reached but the two named in     *)
(* KilledOnlyByRounding.                                                   *)
(*                                                                         *)
(* None of the three is inductive.  Dequeue and Enqueue keep the book in   *)
(* step only if what is matched is on it and the taker is not; a rest does *)
(* not cross the book only because the loop stopped at the best price of a *)
(* book in step; the comparison of sequence ids in matchOrder holds only   *)
(* because everything on the book is older than the taker.  IInv adds what *)
(* the loop keeps about the taker and the age and price of resting orders. *)
(*                                                                         *)
(* First come lemmas about one encounter of a taker and a maker, for every *)
(* amount, price, lot and division precision, about one side of the book   *)
(* and about what orders have left together.                               *)
(***************************************************************************)
EXTENDS Matcher, FiniteSetTheorems, WellFoundedInduction, TLAPS

-----------------------------------------------------------------------------
(* Division *)

\* Integer division, in the form the lemmas below use it.
LEMMA DivBounds ==
  ASSUME NEW a \in Nat, NEW b \in Nat \ {0}
  PROVE  /\ a \div b \in Nat
         /\ (a \div b) * b <= a
         /\ a < (a \div b + 1) * b
  OBVIOUS

\* Factors may be cancelled from a strict inequality.
LEMMA CancelFactor ==
  ASSUME NEW x \in Nat, NEW y \in Nat, NEW k \in Nat, k * x < k * y
  PROVE  x < y
<1>1. SUFFICES ASSUME y <= x PROVE k * y <= k * x
  BY <1>1
<1>2. PICK d \in Nat : x = y + d
  <2>1. x - y \in Nat /\ x = y + (x - y)
    BY <1>1
  <2>2. QED
    BY <2>1
<1>3. k * x = k * y + k * d /\ k * d \in Nat /\ k * y \in Nat
  BY <1>2
<1>4. QED
  BY <1>3

\* Both sides of an inequality may be multiplied.
LEMMA MultiplyBoth ==
  ASSUME NEW x \in Nat, NEW y \in Nat, NEW k \in Nat, x <= y
  PROVE  x * k <= y * k
<1>1. PICK d \in Nat : y = x + d
  <2>1. y - x \in Nat /\ y = x + (y - x)
    OBVIOUS
  <2>2. QED
    BY <2>1
<1>2. y * k = x * k + d * k /\ d * k \in Nat /\ x * k \in Nat
  BY <1>1
<1>3. QED
  BY <1>2

\* cash.Div(unit).Truncate(0) is a natural number for every unit price.
LEMMA DivTruncateNat ==
  ASSUME NEW cash \in Nat, NEW unit \in Nat \ {0}
  PROVE  DivTruncate(cash, unit) \in Nat
<1>1. DivUnit \in Nat \ {0}
  BY ConstAssumption
<1>2. 2 * cash * DivUnit + unit \in Nat /\ 2 * unit \in Nat \ {0}
  BY <1>1
<1>3. (2 * cash * DivUnit + unit) \div (2 * unit) \in Nat
  BY <1>2, DivBounds
<1>4. QED
  BY <1>1, <1>3, DivBounds DEF DivTruncate

\* As long as a unit price stays below twice the precision of decimal.Div, the
\* number of units it yields is never worth more than the cash divided.
LEMMA DivTruncateExact ==
  ASSUME NEW cash \in Nat, NEW unit \in Nat \ {0}, unit < 2 * DivUnit
  PROVE  DivTruncate(cash, unit) * unit <= cash
<1> DEFINE D == DivUnit
           n == 2 * cash * D + unit
           r == n \div (2 * unit)
           q == r \div D
<1>1. D \in Nat \ {0}
  BY ConstAssumption
<1>2. n \in Nat /\ 2 * unit \in Nat \ {0}
  BY <1>1
<1>3. r \in Nat /\ r * (2 * unit) <= n
  BY <1>2, DivBounds
<1>4. q \in Nat /\ q * D <= r
  BY <1>1, <1>3, DivBounds
<1>5. (q * D) * (2 * unit) <= r * (2 * unit)
  <2>1. q * D \in Nat
    BY <1>1, <1>4
  <2> HIDE DEF q, r
  <2>2. QED
    BY <1>2, <1>3, <1>4, <2>1, MultiplyBoth
<1>6. (2 * D) * (q * unit) < (2 * D) * (cash + 1)
  <2>1. (q * D) * (2 * unit) = (2 * D) * (q * unit)
    BY <1>1, <1>4
  <2>2. (2 * D) * (cash + 1) = 2 * cash * D + 2 * D
    BY <1>1
  <2>3. n < 2 * cash * D + 2 * D
    BY <1>1
  <2>4. /\ (q * D) * (2 * unit) \in Nat
        /\ r * (2 * unit) \in Nat
        /\ (2 * D) * (cash + 1) \in Nat
    BY <1>1, <1>2, <1>3, <1>4
  <2> HIDE DEF D, n, r, q
  <2>5. QED
    BY <1>2, <1>3, <1>5, <2>1, <2>2, <2>3, <2>4
<1>7. q * unit < cash + 1
  <2>1. q * unit \in Nat /\ cash + 1 \in Nat /\ 2 * D \in Nat
    BY <1>1, <1>4
  <2> HIDE DEF q
  <2>2. QED
    BY <1>6, <2>1, CancelFactor
<1>8. q * unit <= cash
  <2>1. q * unit \in Nat
    BY <1>4
  <2> HIDE DEF q
  <2>2. QED
    BY <1>7, <2>1
<1>9. DivTruncate(cash, unit) = q
  BY DEF DivTruncate
<1>10. QED
  BY <1>8, <1>9

\* What truncation leaves over is less than one unit.
LEMMA DivTruncateRest ==
  ASSUME NEW cash \in Nat, NEW unit \in Nat \ {0}
  PROVE  cash < (DivTruncate(cash, unit) + 1) * unit
<1> DEFINE D == DivUnit
           n == 2 * cash * D + unit
           r == n \div (2 * unit)
           q == r \div D
<1>1. D \in Nat \ {0}
  BY ConstAssumption
<1>2. n \in Nat /\ 2 * unit \in Nat \ {0}
  BY <1>1
<1>3. r \in Nat /\ n < (r + 1) * (2 * unit)
  BY <1>2, DivBounds
<1>4. q \in Nat /\ r + 1 <= (q + 1) * D
  <2>1. q \in Nat /\ r < (q + 1) * D
    BY <1>1, <1>3, DivBounds
  <2>2. (q + 1) * D \in Nat
    BY <1>1, <2>1
  <2> HIDE DEF r, q
  <2>3. QED
    BY <1>3, <2>1, <2>2
<1> DEFINE k == (q + 1) * D
<1>5. (r + 1) * (2 * unit) <= k * (2 * unit)
  <2>1. k \in Nat /\ r + 1 \in Nat
    BY <1>1, <1>3, <1>4
  <2> HIDE DEF r
  <2>2. r + 1 <= k
    BY <1>4
  <2> HIDE DEF k
  <2>3. QED
    BY <1>2, <2>1, <2>2, MultiplyBoth
<1>6. (2 * D) * cash < (2 * D) * ((q + 1) * unit)
  <2>1. k * (2 * unit) = (2 * D) * ((q + 1) * unit)
    BY <1>1, <1>4
  <2>2. (2 * D) * cash < n
    BY <1>1
  <2>3. /\ (2 * D) * cash \in Nat /\ (r + 1) * (2 * unit) \in Nat
        /\ k * (2 * unit) \in Nat
    BY <1>1, <1>3, <1>4
  <2> HIDE DEF D, n, r, q, k
  <2>4. QED
    BY <1>2, <1>3, <1>5, <2>1, <2>2, <2>3
<1>7. cash < (q + 1) * unit
  <2>1. (q + 1) * unit \in Nat /\ 2 * D \in Nat
    BY <1>1, <1>4
  <2> HIDE DEF q
  <2>2. QED
    BY <1>6, <2>1, CancelFactor
<1>8. QED
  BY <1>7 DEF DivTruncate

\* Cash that is the worth of a quantity buys no more than the quantity.
LEMMA DivTruncateLots ==
  ASSUME NEW q \in Nat, NEW p \in Nat \ {0}
  PROVE  DivTruncate(q * p, Lot * p) * Lot <= q
<1> DEFINE D == DivUnit
           n == 2 * (q * p) * D + Lot * p
           r == n \div (2 * (Lot * p))
           w == r \div D
<1>1. D \in Nat \ {0} /\ Lot \in Nat \ {0} /\ Lot < 2 * D
  BY ConstAssumption, LotAssumption
<1>2. q * p \in Nat /\ Lot * p \in Nat \ {0}
  BY <1>1
<1>3. n \in Nat /\ 2 * (Lot * p) \in Nat \ {0}
  BY <1>1, <1>2
<1>4. r \in Nat /\ r * (2 * (Lot * p)) <= n
  BY <1>3, DivBounds
<1>5. w \in Nat /\ w * D <= r
  BY <1>1, <1>4, DivBounds
<1>6. (w * D) * (2 * (Lot * p)) <= r * (2 * (Lot * p))
  <2>1. w * D \in Nat /\ 2 * (Lot * p) \in Nat
    BY <1>1, <1>3, <1>5
  <2> HIDE DEF w, r
  <2>2. QED
    BY <1>4, <1>5, <2>1, MultiplyBoth
<1>7. (p * (2 * D)) * (w * Lot) < (p * (2 * D)) * (q + 1)
  <2>1. (w * D) * (2 * (Lot * p)) = (p * (2 * D)) * (w * Lot)
    BY <1>1, <1>5
  <2>2. n < (p * (2 * D)) * (q + 1)
    <3>1. (p * (2 * D)) * (q + 1) = 2 * (q * p) * D + (2 * D) * p
      BY <1>1
    <3>2. Lot * p < (2 * D) * p
      <4>1. PICK d \in Nat \ {0} : 2 * D = Lot + d
        <5>1. 2 * D - Lot \in Nat \ {0} /\ 2 * D = Lot + (2 * D - Lot)
          BY <1>1
        <5>2. QED
          BY <5>1
      <4>2. (2 * D) * p = Lot * p + d * p /\ d * p > 0 /\ d * p \in Nat
        BY <1>1, <4>1
      <4>3. QED
        BY <1>2, <4>2
    <3>3. 2 * (q * p) * D \in Nat /\ (2 * D) * p \in Nat
      BY <1>1, <1>2
    <3>4. QED
      BY <1>2, <3>1, <3>2, <3>3
  <2>3. /\ (w * D) * (2 * (Lot * p)) \in Nat /\ r * (2 * (Lot * p)) \in Nat
        /\ (p * (2 * D)) * (q + 1) \in Nat
    BY <1>1, <1>2, <1>4, <1>5
  <2> HIDE DEF D, n, r, w
  <2>4. QED
    BY <1>3, <1>4, <1>6, <2>1, <2>2, <2>3
<1>8. w * Lot < q + 1
  <2>1. w * Lot \in Nat /\ q + 1 \in Nat /\ p * (2 * D) \in Nat
    BY <1>1, <1>5
  <2> HIDE DEF w, D
  <2>2. QED
    BY <1>7, <2>1, CancelFactor
<1>9. w * Lot <= q
  <2>1. w * Lot \in Nat
    BY <1>1, <1>5
  <2> HIDE DEF w
  <2>2. QED
    BY <1>8, <2>1
<1>10. DivTruncate(q * p, Lot * p) = w
  BY DEF DivTruncate
<1>11. QED
  BY <1>9, <1>10

-----------------------------------------------------------------------------
(* One encounter *)

\* The states of an order that may still be matched.
Open == {"Submitted", "PartialFilled", "SelfTradeDecreased"}

SameTerms(o, p) ==
  /\ o.user = p.user /\ o.side = p.side /\ o.type = p.type /\ o.price = p.price
  /\ o.amount = p.amount /\ o.stp = p.stp /\ o.rate = p.rate

\* The quantities of an encounter are natural numbers, and no more than the
\* maker has left is matched.
LEMMA MatchAmountBounds ==
  ASSUME NEW t \in OrderRecord, NEW m \in OrderRecord, m.price > 0
  PROVE  /\ unitPrice(m) \in Nat \ {0}
         /\ Wanted(t, m) \in Nat
         /\ matchAmount(t, m) \in Nat
         /\ matchAmount(t, m) <= m.unfilled
         /\ matchAmount(t, m) <= Wanted(t, m)
         /\ TakerAmount(t, m) \in Nat
<1>1. m.price \in Nat \ {0} /\ m.unfilled \in Nat /\ t.unfilled \in Nat
  BY DEF OrderRecord
<1>2. Lot \in Nat \ {0}
  BY ConstAssumption
<1>3. unitPrice(m) \in Nat \ {0}
  BY <1>1, <1>2 DEF unitPrice
<1>4. DivTruncate(t.unfilled, unitPrice(m)) \in Nat
  BY <1>1, <1>3, DivTruncateNat
<1>5. Wanted(t, m) \in Nat
  BY <1>1, <1>2, <1>4 DEF Wanted
<1>6. /\ matchAmount(t, m) \in Nat
      /\ matchAmount(t, m) <= m.unfilled
      /\ matchAmount(t, m) <= Wanted(t, m)
  BY <1>1, <1>5 DEF matchAmount, Least
<1>7. TakerAmount(t, m) \in Nat
  BY <1>1, <1>6 DEF TakerAmount
<1>8. QED
  BY <1>3, <1>5, <1>6, <1>7

\* The assertion "filling amount more than need" of matchCashAmountBasedOrder
\* is met only by a market buy at a unit price of 2 * DivUnit or more.
LEMMA OverfillsOnlyByRounding ==
  ASSUME NEW t \in OrderRecord, NEW m \in OrderRecord, m.price > 0,
         Overfills(t, m)
  PROVE  PaysCash(t) /\ unitPrice(m) >= 2 * DivUnit
<1>1. PaysCash(t)
  <2>1. t.unfilled \in Nat /\ m.unfilled \in Nat
    BY DEF OrderRecord
  <2>2. QED
    BY <2>1 DEF Overfills, TakerAmount, matchAmount, Wanted, Least
<1>2. ASSUME unitPrice(m) < 2 * DivUnit
      PROVE  FALSE
  <2> DEFINE q == DivTruncate(t.unfilled, unitPrice(m))
             x == matchAmount(t, m)
  <2>1. /\ t.unfilled \in Nat /\ m.price \in Nat /\ Lot \in Nat
        /\ unitPrice(m) \in Nat \ {0}
    BY ConstAssumption, MatchAmountBounds DEF OrderRecord
  <2>2. q * unitPrice(m) <= t.unfilled /\ q \in Nat
    BY <1>2, <2>1, DivTruncateExact, DivTruncateNat
  <2>3. x <= q * Lot /\ x \in Nat
    BY <1>1, MatchAmountBounds DEF Wanted
  <2>4. x * m.price <= (q * Lot) * m.price
    <3>1. q * Lot \in Nat
      BY <2>1, <2>2
    <3> HIDE DEF q, x
    <3>2. QED
      BY <2>1, <2>3, <3>1, MultiplyBoth
  <2>5. (q * Lot) * m.price = q * unitPrice(m)
    <3> HIDE DEF q
    <3>1. QED
      BY <2>1, <2>2 DEF unitPrice
  <2>6. x * m.price <= t.unfilled /\ x * m.price \in Nat
    <3> HIDE DEF q, x
    <3>1. q * unitPrice(m) \in Nat /\ x * m.price \in Nat
      BY <2>1, <2>2, <2>3
    <3>2. QED
      BY <2>1, <2>2, <2>4, <2>5, <3>1
  <2>7. x * m.price > t.unfilled
    BY <1>1 DEF Overfills, TakerAmount
  <2> HIDE DEF x
  <2>8. QED
    BY <2>1, <2>6, <2>7
<1>3. QED
  <2>1. unitPrice(m) \in Nat /\ DivUnit \in Nat
    BY ConstAssumption, MatchAmountBounds
  <2>2. QED
    BY <1>1, <1>2, <2>1

\* Filling an open order by no more than it has left keeps it an order with
\* the same terms, and leaves it open exactly when something is left.
LEMMA FillTyped ==
  ASSUME NEW o \in OrderRecord, NEW q \in Nat, q <= o.unfilled
  PROVE  /\ fillAmount(o, q) \in OrderRecord
         /\ SameTerms(fillAmount(o, q), o)
         /\ fillAmount(o, q).unfilled <= o.unfilled
         /\ \/ fillAmount(o, q).state = "Filled"
            \/ fillAmount(o, q).state = "PartialFilled" /\ fillAmount(o, q).unfilled > 0
<1>1. o.unfilled \in Nat /\ o.unfilled - q \in Nat
  BY DEF OrderRecord
<1>2. fillAmount(o, q) \in OrderRecord /\ SameTerms(fillAmount(o, q), o)
  BY <1>1 DEF fillAmount, OrderRecord, OrderState, SameTerms
<1>3. /\ fillAmount(o, q).unfilled = o.unfilled - q
      /\ fillAmount(o, q).state = IF q = o.unfilled THEN "Filled" ELSE "PartialFilled"
  BY DEF fillAmount, OrderRecord
<1>4. QED
  BY <1>1, <1>2, <1>3

\* Decreasing by self-trade prevention, likewise.
LEMMA DecreaseTyped ==
  ASSUME NEW o \in OrderRecord, NEW q \in Nat, q <= o.unfilled
  PROVE  /\ StDecrease(o, q) \in OrderRecord
         /\ SameTerms(StDecrease(o, q), o)
         /\ StDecrease(o, q).unfilled = o.unfilled - q
         /\ StDecrease(o, q).state = "SelfTradeDecreased"
<1>1. o.unfilled - q \in Nat
  BY DEF OrderRecord
<1>2. QED
  BY <1>1 DEF StDecrease, OrderRecord, OrderState, SameTerms

\* Cancelling an open order by self-trade prevention ends it; stOrderState and
\* stOppoOrderState have a case for every state an open order can have.
LEMMA StCancelTyped ==
  ASSUME NEW o \in OrderRecord, o.state \in Open
  PROVE  /\ StCancel(o) \in OrderRecord
         /\ SameTerms(StCancel(o), o)
         /\ StCancel(o).unfilled = o.unfilled
         /\ StCancel(o).state \in {"SelfTradeCanceled", "SelfTradePartialCanceled"}
<1>1. CASE o.state = "Submitted"
  <2>1. StCancel(o) = SetState(o, "SelfTradeCanceled")
    BY <1>1 DEF StCancel
  <2>2. QED
    BY <2>1 DEF SetState, OrderRecord, OrderState, SameTerms
<1>2. CASE o.state \in {"PartialFilled", "SelfTradeDecreased"}
  <2>1. StCancel(o) = SetState(o, "SelfTradePartialCanceled")
    BY <1>2 DEF StCancel
  <2>2. QED
    BY <2>1 DEF SetState, OrderRecord, OrderState, SameTerms
<1>3. QED
  BY <1>1, <1>2 DEF Open

\* A taker that goes on after an encounter, or ends with it.
TakerAfter(t, u) ==
  /\ u \in OrderRecord /\ SameTerms(u, t)
  /\ u.state \in Open \cup {"Filled", "SelfTradeCanceled",
                            "SelfTradePartialCanceled", "PrecisionCanceled"}
  /\ u.state \in Open => PaysCash(u) \/ u.unfilled > 0

\* A maker that stays on the book after an encounter, or leaves it.
MakerAfter(m, n) ==
  /\ n \in OrderRecord /\ SameTerms(n, m)
  /\ ~LeavesBook(n) => n.state \in Open /\ n.unfilled > 0

\* An encounter is one the loop may go on after: both orders keep their terms,
\* a maker stays on the book only open and with something left, and the taker
\* is open with something left or at its end.
LEMMA EncounterTyped ==
  ASSUME NEW t \in OrderRecord, NEW m \in OrderRecord,
         t.state \in Open, PaysCash(t) \/ t.unfilled > 0,
         m.state \in Open, m.unfilled > 0, m.price > 0,
         ~TooLittleCash(t, m) /\ (IsSelfTrade(t, m) => t.stp = "DC")
           => ~Overfills(t, m)
  PROVE  /\ TakerAfter(t, matchOrder(t, m).taker)
         /\ MakerAfter(m, matchOrder(t, m).maker)
         /\ matchOrder(t, m).filled \in Nat
         /\ matchOrder(t, m).item \in BOOLEAN
<1> DEFINE q == matchAmount(t, m)
           c == TakerAmount(t, m)
<1>1. /\ q \in Nat /\ c \in Nat /\ Wanted(t, m) \in Nat
      /\ q <= m.unfilled
      /\ t.unfilled \in Nat /\ m.unfilled \in Nat
  BY MatchAmountBounds DEF OrderRecord
<1>2. ASSUME ~Overfills(t, m) PROVE c <= t.unfilled
  BY <1>1, <1>2 DEF Overfills
<1>3. PaysCash(t) => \A u : SameTerms(u, t) => PaysCash(u)
  BY DEF SameTerms, PaysCash
<1>4. MakerAfter(m, m)
  BY DEF MakerAfter, SameTerms, LeavesBook, Open
<1>5. TakerAfter(t, t)
  BY DEF TakerAfter, SameTerms
<1>6. TakerAfter(t, StCancel(t))
  BY StCancelTyped DEF TakerAfter, Open
<1>7. MakerAfter(m, StCancel(m))
  BY StCancelTyped DEF MakerAfter, LeavesBook
<1>8. CASE TooLittleCash(t, m)
  <2>1. matchOrder(t, m) = Encounter(SetState(t, "PrecisionCanceled"), m, 0, FALSE)
    BY <1>8 DEF matchOrder
  <2>2. TakerAfter(t, SetState(t, "PrecisionCanceled"))
    BY DEF TakerAfter, SetState, OrderRecord, OrderState, SameTerms, Open
  <2>3. QED
    BY <1>4, <2>1, <2>2 DEF Encounter
<1>9. CASE ~TooLittleCash(t, m) /\ IsSelfTrade(t, m) /\ t.stp = "DC"
  <2> DEFINE d == IF Wanted(t, m) > m.unfilled \/ t.unfilled > c
                  THEN StDecrease(t, c) ELSE StCancel(t)
  <2>1. matchOrder(t, m) = DecreaseAndCancel(t, m)
    BY <1>9 DEF matchOrder, SelfTrade
  <2>2. CASE Wanted(t, m) < m.unfilled
    <3>1. matchOrder(t, m) = Encounter(StCancel(t), StDecrease(m, q), q, TRUE)
      BY <2>1, <2>2 DEF DecreaseAndCancel
    <3>2. q < m.unfilled
      BY <1>1, <2>2, MatchAmountBounds
    <3>3. MakerAfter(m, StDecrease(m, q))
      BY <1>1, <3>2, DecreaseTyped DEF MakerAfter, Open
    <3>4. QED
      BY <1>1, <1>6, <3>1, <3>3 DEF Encounter
  <2>3. CASE ~(Wanted(t, m) < m.unfilled)
    <3>1. matchOrder(t, m) = Encounter(d, StCancel(m), q, TRUE)
      BY <2>1, <2>3 DEF DecreaseAndCancel
    <3>2. TakerAfter(t, d)
      <4>1. c <= t.unfilled
        BY <1>2, <1>9
      <4>2. ASSUME Wanted(t, m) > m.unfilled \/ t.unfilled > c, ~PaysCash(t)
            PROVE  t.unfilled - c > 0
        <5>1. Wanted(t, m) = t.unfilled /\ c = q
          BY <4>2 DEF Wanted, TakerAmount
        <5>2. QED
          BY <1>1, <4>2, <5>1
      <4>3. CASE Wanted(t, m) > m.unfilled \/ t.unfilled > c
        <5>1. d = StDecrease(t, c)
          BY <4>3
        <5>2. /\ StDecrease(t, c) \in OrderRecord
              /\ SameTerms(StDecrease(t, c), t)
              /\ StDecrease(t, c).unfilled = t.unfilled - c
              /\ StDecrease(t, c).state = "SelfTradeDecreased"
          BY <1>1, <4>1, DecreaseTyped
        <5>3. PaysCash(d) \/ d.unfilled > 0
          BY <1>3, <4>2, <4>3, <5>1, <5>2
        <5>4. QED
          BY <5>1, <5>2, <5>3 DEF TakerAfter, Open
      <4>4. CASE ~(Wanted(t, m) > m.unfilled \/ t.unfilled > c)
        BY <1>6, <4>4
      <4>5. QED
        BY <4>3, <4>4
    <3>3. QED
      BY <1>1, <1>7, <3>1, <3>2 DEF Encounter
  <2>4. QED
    BY <2>2, <2>3
<1>10. CASE ~TooLittleCash(t, m) /\ IsSelfTrade(t, m) /\ t.stp # "DC"
  <2>1. t.stp \in {"CB", "CO", "CN"}
    BY <1>10 DEF IsSelfTrade, OrderRecord, StpKind
  <2>2. matchOrder(t, m) = SelfTrade(t, m)
    BY <1>10 DEF matchOrder
  <2>3. CASE t.stp = "CB"
    BY <1>1, <1>6, <1>7, <2>2, <2>3 DEF SelfTrade, Encounter
  <2>4. CASE t.stp = "CO"
    BY <1>1, <1>5, <1>7, <2>2, <2>4 DEF SelfTrade, Encounter
  <2>5. CASE t.stp = "CN"
    BY <1>4, <1>6, <2>2, <2>5 DEF SelfTrade, Encounter
  <2>6. QED
    BY <2>1, <2>3, <2>4, <2>5
<1>11. CASE ~TooLittleCash(t, m) /\ ~IsSelfTrade(t, m)
  <2>1. matchOrder(t, m) = Encounter(fillAmount(t, c), fillAmount(m, q), q, TRUE)
    BY <1>11 DEF matchOrder
  <2>2. c <= t.unfilled
    BY <1>2, <1>11
  <2>3. TakerAfter(t, fillAmount(t, c))
    BY <1>1, <2>2, FillTyped DEF TakerAfter, Open
  <2>4. MakerAfter(m, fillAmount(m, q))
    BY <1>1, FillTyped DEF MakerAfter, LeavesBook, Open
  <2>5. QED
    BY <1>1, <2>1, <2>3, <2>4 DEF Encounter
<1>12. QED
  BY <1>8, <1>9, <1>10, <1>11

\* What an amount of the taker's is worth to it at a price.
Worth(t, q, price) == IF PaysCash(t) THEN q * price ELSE q

StCanceled(o) == o.state \in {"SelfTradeCanceled", "SelfTradePartialCanceled"}

\* An encounter that takes less than the maker has leaves the taker with nothing
\* it could still buy at that price.
LEMMA TakerIsSpent ==
  ASSUME NEW t \in OrderRecord, NEW m \in OrderRecord, m.price > 0,
         ~Overfills(t, m), Wanted(t, m) <= m.unfilled
  PROVE  /\ TakerAmount(t, m) <= t.unfilled
         /\ ~PaysCash(t) => TakerAmount(t, m) = t.unfilled
         /\ PaysCash(t) => t.unfilled - TakerAmount(t, m) < unitPrice(m)
<1> DEFINE q == matchAmount(t, m)
           c == TakerAmount(t, m)
<1>1. /\ q \in Nat /\ c \in Nat /\ Wanted(t, m) \in Nat
      /\ t.unfilled \in Nat /\ m.unfilled \in Nat /\ m.price \in Nat \ {0}
      /\ unitPrice(m) \in Nat \ {0} /\ Lot \in Nat \ {0}
  BY MatchAmountBounds, ConstAssumption DEF OrderRecord
<1>2. q = Wanted(t, m)
  BY <1>1 DEF matchAmount, Least
<1>3. c <= t.unfilled
  BY <1>1 DEF Overfills
<1>4. CASE ~PaysCash(t)
  BY <1>2, <1>3, <1>4 DEF TakerAmount, Wanted
<1>5. CASE PaysCash(t)
  <2> DEFINE w == DivTruncate(t.unfilled, unitPrice(m))
  <2>1. w \in Nat /\ t.unfilled < (w + 1) * unitPrice(m)
    BY <1>1, DivTruncateNat, DivTruncateRest
  <2>2. c = (w * Lot) * m.price
    BY <1>2, <1>5 DEF TakerAmount, Wanted
  <2> HIDE DEF w, c
  <2>3. c = w * unitPrice(m)
    BY <1>1, <2>1, <2>2 DEF unitPrice
  <2>4. (w + 1) * unitPrice(m) = c + unitPrice(m)
    BY <1>1, <2>1, <2>3
  <2>5. t.unfilled - c < unitPrice(m)
    BY <1>1, <2>1, <2>4
  <2>6. QED
    BY <1>3, <1>5, <2>5 DEF c
<1>6. QED
  BY <1>4, <1>5

\* What an encounter publishes is what it does: nothing happens to the maker
\* without an item, the item of a maker that stays names the amount it lost, a
\* trade is none of an order with its own user, and the taker loses the worth
\* of the item of a trade and of a decrease, and nothing else.  A maker stays
\* only when the taker is at its end or cannot pay for one more unit.
LEMMA EncounterPublished ==
  ASSUME NEW t \in OrderRecord, NEW m \in OrderRecord,
         t.state \in Open, PaysCash(t) \/ t.unfilled > 0,
         m.state \in Open, m.unfilled > 0, m.price > 0,
         ~TooLittleCash(t, m) /\ (IsSelfTrade(t, m) => t.stp = "DC")
           => ~Overfills(t, m),
         NEW e, e = matchOrder(t, m)
  PROVE  /\ e.taker.unfilled <= t.unfilled
         /\ e.taker.state = "PrecisionCanceled" => PaysCash(t)
         /\ ~e.item => e.maker = m /\ (StCanceled(e.taker) => t.stp # "DC")
         /\ e.item => ~TooLittleCash(t, m)
         /\ e.item /\ ~LeavesBook(e.maker)
              => /\ m.unfilled - e.maker.unfilled = e.filled
                 /\ \/ EndsLoop(e.taker)
                    \/ PaysCash(t) /\ unitPrice(m) > e.taker.unfilled
         /\ e.item /\ e.maker.state \in {"Filled", "PartialFilled"}
              => ~IsSelfTrade(t, m)
         /\ t.unfilled - e.taker.unfilled =
              IF e.item /\ (\/ e.maker.state \in {"Filled", "PartialFilled"}
                            \/ t.stp = "DC" /\ ~StCanceled(e.taker))
              THEN Worth(t, e.filled, m.price) ELSE 0
<1> DEFINE q == matchAmount(t, m)
           c == TakerAmount(t, m)
<1>1. /\ q \in Nat /\ c \in Nat /\ Wanted(t, m) \in Nat
      /\ q <= m.unfilled
      /\ t.unfilled \in Nat /\ m.unfilled \in Nat
      /\ unitPrice(m) \in Nat
  BY MatchAmountBounds DEF OrderRecord
<1>2. c = Worth(t, q, m.price)
  BY DEF TakerAmount, Worth
<1>3. /\ StCancel(t).unfilled = t.unfilled /\ StCanceled(StCancel(t))
      /\ EndsLoop(StCancel(t)) /\ StCancel(t).state # "PrecisionCanceled"
  BY StCancelTyped DEF EndsLoop, StCanceled
<1>4. /\ LeavesBook(StCancel(m))
      /\ StCancel(m).state \notin {"Filled", "PartialFilled"}
  BY StCancelTyped DEF LeavesBook
<1>5. t.state # "PrecisionCanceled" /\ ~StCanceled(t)
  BY DEF Open, StCanceled
<1>6. CASE TooLittleCash(t, m)
  <2>1. e = Encounter(SetState(t, "PrecisionCanceled"), m, 0, FALSE)
    BY <1>6 DEF matchOrder
  <2>2. /\ SetState(t, "PrecisionCanceled").unfilled = t.unfilled
        /\ ~StCanceled(SetState(t, "PrecisionCanceled"))
    BY DEF SetState, OrderRecord, StCanceled
  <2>3. QED
    BY <1>1, <1>6, <2>1, <2>2 DEF Encounter, TooLittleCash
<1>7. CASE ~TooLittleCash(t, m) /\ IsSelfTrade(t, m) /\ t.stp = "DC"
  <2> DEFINE d == IF Wanted(t, m) > m.unfilled \/ t.unfilled > c
                  THEN StDecrease(t, c) ELSE StCancel(t)
  <2>1. e = DecreaseAndCancel(t, m)
    BY <1>7 DEF matchOrder, SelfTrade
  <2>2. c <= t.unfilled
    BY <1>1, <1>7 DEF Overfills
  <2>3. CASE Wanted(t, m) < m.unfilled
    <3>1. e = Encounter(StCancel(t), StDecrease(m, q), q, TRUE)
      BY <2>1, <2>3 DEF DecreaseAndCancel
    <3>2. /\ StDecrease(m, q).unfilled = m.unfilled - q
          /\ StDecrease(m, q).state = "SelfTradeDecreased"
      BY <1>1, DecreaseTyped
    <3>3. /\ e.taker = StCancel(t) /\ e.maker = StDecrease(m, q)
          /\ e.filled = q /\ e.item
      BY <3>1 DEF Encounter
    <3> HIDE DEF q
    <3>4. QED
      BY <1>1, <1>3, <1>7, <3>2, <3>3
  <2>4. CASE ~(Wanted(t, m) < m.unfilled)
    <3>1. e = Encounter(d, StCancel(m), q, TRUE)
      BY <2>1, <2>4 DEF DecreaseAndCancel
    <3>2. /\ e.taker = d /\ e.maker = StCancel(m)
          /\ e.filled = q /\ e.item
      BY <3>1 DEF Encounter
    <3>3. CASE Wanted(t, m) > m.unfilled \/ t.unfilled > c
      <4>1. /\ e.taker.unfilled = t.unfilled - c
            /\ e.taker.state = "SelfTradeDecreased"
        BY <1>1, <2>2, <3>2, <3>3, DecreaseTyped
      <4> HIDE DEF q, c
      <4>2. QED
        BY <1>1, <1>2, <1>4, <1>7, <2>2, <3>2, <4>1 DEF StCanceled
    <3>4. CASE ~(Wanted(t, m) > m.unfilled \/ t.unfilled > c)
      <4>1. e.taker = StCancel(t)
        BY <3>2, <3>4
      <4> HIDE DEF q, c
      <4>2. QED
        BY <1>1, <1>3, <1>4, <1>7, <3>2, <4>1
    <3>5. QED
      BY <3>3, <3>4
  <2>5. QED
    BY <2>3, <2>4
<1>8. CASE ~TooLittleCash(t, m) /\ IsSelfTrade(t, m) /\ t.stp # "DC"
  <2>1. t.stp \in {"CB", "CO", "CN"}
    BY <1>8 DEF IsSelfTrade, OrderRecord, StpKind
  <2>2. e = SelfTrade(t, m)
    BY <1>8 DEF matchOrder
  <2>3. CASE t.stp = "CB"
    <3>1. e = Encounter(StCancel(t), StCancel(m), m.unfilled, TRUE)
      BY <2>2, <2>3 DEF SelfTrade
    <3>2. QED
      BY <1>1, <1>3, <1>4, <1>8, <3>1 DEF Encounter
  <2>4. CASE t.stp = "CO"
    <3>1. e = Encounter(t, StCancel(m), m.unfilled, TRUE)
      BY <2>2, <2>4 DEF SelfTrade
    <3>2. QED
      BY <1>1, <1>4, <1>5, <1>8, <3>1 DEF Encounter
  <2>5. CASE t.stp = "CN"
    <3>1. e = Encounter(StCancel(t), m, 0, FALSE)
      BY <2>2, <2>5 DEF SelfTrade
    <3>2. QED
      BY <1>1, <1>3, <1>8, <3>1 DEF Encounter
  <2>6. QED
    BY <2>1, <2>3, <2>4, <2>5
<1>9. CASE ~TooLittleCash(t, m) /\ ~IsSelfTrade(t, m)
  <2>1. e = Encounter(fillAmount(t, c), fillAmount(m, q), q, TRUE)
    BY <1>9 DEF matchOrder
  <2>2. c <= t.unfilled
    BY <1>1, <1>9 DEF Overfills
  <2>3. /\ e.taker = fillAmount(t, c) /\ e.maker = fillAmount(m, q)
        /\ e.filled = q /\ e.item
    BY <2>1 DEF Encounter
  <2>4. /\ e.taker.unfilled = t.unfilled - c
        /\ e.taker.state \in {"Filled", "PartialFilled"}
        /\ c = t.unfilled => e.taker.state = "Filled"
        /\ e.maker.unfilled = m.unfilled - q
        /\ e.maker.state \in {"Filled", "PartialFilled"}
        /\ q = m.unfilled => e.maker.state = "Filled"
    BY <2>3 DEF fillAmount, OrderRecord
  <2>5. ASSUME ~LeavesBook(e.maker)
        PROVE  EndsLoop(e.taker) \/ (PaysCash(t) /\ unitPrice(m) > e.taker.unfilled)
    <3>1. q # m.unfilled
      BY <2>4, <2>5 DEF LeavesBook
    <3>2. Wanted(t, m) <= m.unfilled
      BY <1>1, <3>1 DEF matchAmount, Least
    <3>3. /\ ~PaysCash(t) => c = t.unfilled
          /\ PaysCash(t) => t.unfilled - c < unitPrice(m)
      BY <1>9, <3>2, TakerIsSpent
    <3>4. QED
      BY <1>1, <2>4, <3>3 DEF EndsLoop
  <2> HIDE DEF q, c
  <2>6. QED
    BY <1>1, <1>2, <1>9, <2>2, <2>3, <2>4, <2>5
<1>10. QED
  BY <1>6, <1>7, <1>8, <1>9

\* An encounter that takes something: the taker can buy at least one unit.
LEMMA SomethingIsTaken ==
  ASSUME NEW t \in OrderRecord, NEW m \in OrderRecord,
         PaysCash(t) \/ t.unfilled > 0, m.unfilled > 0, m.price > 0,
         ~TooLittleCash(t, m)
  PROVE  matchAmount(t, m) \in 1 .. m.unfilled
<1>1. /\ matchAmount(t, m) \in Nat /\ matchAmount(t, m) <= m.unfilled
      /\ Wanted(t, m) \in Nat /\ t.unfilled \in Nat /\ m.unfilled \in Nat
      /\ unitPrice(m) \in Nat \ {0} /\ Lot \in Nat \ {0}
  BY MatchAmountBounds, ConstAssumption DEF OrderRecord
<1>2. Wanted(t, m) > 0
  <2>1. CASE PaysCash(t)
    <3> DEFINE w == DivTruncate(t.unfilled, unitPrice(m))
    <3>1. w \in Nat /\ t.unfilled < (w + 1) * unitPrice(m)
      BY <1>1, DivTruncateNat, DivTruncateRest
    <3>2. ~(unitPrice(m) > t.unfilled)
      BY <2>1 DEF TooLittleCash
    <3>3. Wanted(t, m) = w * Lot
      BY <2>1 DEF Wanted
    <3> HIDE DEF w
    <3>4. w # 0
      BY <1>1, <3>1, <3>2
    <3>5. QED
      BY <1>1, <3>1, <3>3, <3>4
  <2>2. CASE ~PaysCash(t)
    BY <2>2 DEF Wanted
  <2>3. QED
    BY <2>1, <2>2
<1>3. QED
  BY <1>1, <1>2 DEF matchAmount, Least

\* After c the taker can take nothing more at m's price.
SpentAt(t, m, c) ==
  \/ c = t.unfilled
  \/ PaysCash(t) /\ c <= t.unfilled /\ t.unfilled - c < unitPrice(m)

\* e takes q from the maker, who goes when nothing is left, and c from the taker.
Takes(t, m, e, q, c) ==
  /\ LeavesBook(e.maker) <=> q = m.unfilled
  /\ q # m.unfilled => e.maker.unfilled = m.unfilled - q
  /\ e.taker.unfilled = t.unfilled - c

\* What can become of an encounter.
RunsDry(t, m, e) ==
  /\ TooLittleCash(t, m)
  /\ e.maker = m /\ e.taker.unfilled = t.unfilled /\ EndsLoop(e.taker)

Traded(t, m, e, q) ==
  LET c == Worth(t, q, m.price)
  IN  /\ ~IsSelfTrade(t, m)
      /\ c <= t.unfilled
      /\ q = m.unfilled \/ SpentAt(t, m, c)
      /\ Takes(t, m, e, q, c)
      /\ EndsLoop(e.taker) <=> c = t.unfilled

Prevented(t, m, e, q) ==
  LET c == Worth(t, q, m.price)
  IN  /\ IsSelfTrade(t, m)
      /\ \/ /\ t.stp \in {"CO", "CB"} /\ q = m.unfilled
            /\ Takes(t, m, e, q, 0)
            /\ EndsLoop(e.taker) <=> t.stp = "CB"
         \/ /\ t.stp = "CN"
            /\ e.maker = m /\ e.taker.unfilled = t.unfilled /\ EndsLoop(e.taker)
         \/ /\ t.stp = "DC" /\ q = m.unfilled /\ c < t.unfilled
            /\ Takes(t, m, e, q, c)
            /\ ~EndsLoop(e.taker)
         \/ /\ t.stp = "DC" /\ SpentAt(t, m, c)
            /\ Takes(t, m, e, q, 0)
            /\ EndsLoop(e.taker)

\* An encounter is one of the three.  That a decrease which leaves the taker in
\* the loop also leaves it something rests on LotAssumption: else the rounding
\* of Div could see one lot more in the cash than the maker's whole rest costs.
LEMMA EncounterOutcome ==
  ASSUME NEW t \in OrderRecord, NEW m \in OrderRecord,
         t.state \in Open, PaysCash(t) \/ t.unfilled > 0,
         m.state \in Open, m.unfilled > 0, m.price > 0,
         ~TooLittleCash(t, m) /\ (IsSelfTrade(t, m) => t.stp = "DC")
           => ~Overfills(t, m),
         NEW e, e = matchOrder(t, m)
  PROVE  \/ RunsDry(t, m, e)
         \/ \E q \in 1 .. m.unfilled : Traded(t, m, e, q) \/ Prevented(t, m, e, q)
<1> DEFINE q == matchAmount(t, m)
           c == TakerAmount(t, m)
           Goal == \/ RunsDry(t, m, e)
                   \/ \E x \in 1 .. m.unfilled : Traded(t, m, e, x) \/ Prevented(t, m, e, x)
<1>1. /\ q \in Nat /\ c \in Nat /\ Wanted(t, m) \in Nat
      /\ q <= m.unfilled /\ q <= Wanted(t, m)
      /\ t.unfilled \in Nat /\ m.unfilled \in Nat
      /\ unitPrice(m) \in Nat /\ m.price \in Nat \ {0}
      /\ m.unfilled \in 1 .. m.unfilled
  BY MatchAmountBounds DEF OrderRecord
<1>2. c = Worth(t, q, m.price)
  BY DEF TakerAmount, Worth
<1>3. /\ StCancel(t).unfilled = t.unfilled /\ EndsLoop(StCancel(t))
      /\ LeavesBook(StCancel(m))
  BY StCancelTyped DEF EndsLoop, LeavesBook
<1>4. ~EndsLoop(t)
  BY DEF Open, EndsLoop
<1>5. CASE TooLittleCash(t, m)
  <2>1. e = Encounter(SetState(t, "PrecisionCanceled"), m, 0, FALSE)
    BY <1>5 DEF matchOrder
  <2>2. /\ SetState(t, "PrecisionCanceled").unfilled = t.unfilled
        /\ EndsLoop(SetState(t, "PrecisionCanceled"))
    BY DEF SetState, OrderRecord, EndsLoop
  <2>3. QED
    BY <1>5, <2>1, <2>2 DEF Encounter, RunsDry
<1>6. ASSUME ~TooLittleCash(t, m) PROVE q \in 1 .. m.unfilled
  BY <1>6, SomethingIsTaken
<1>7. ASSUME ~Overfills(t, m), Wanted(t, m) <= m.unfilled PROVE SpentAt(t, m, c)
  BY <1>1, <1>7, TakerIsSpent DEF SpentAt
<1>8. CASE ~TooLittleCash(t, m) /\ IsSelfTrade(t, m) /\ t.stp = "DC"
  <2> DEFINE d == IF Wanted(t, m) > m.unfilled \/ t.unfilled > c
                  THEN StDecrease(t, c) ELSE StCancel(t)
  <2>1. e = DecreaseAndCancel(t, m)
    BY <1>8 DEF matchOrder, SelfTrade
  <2>2. c <= t.unfilled /\ ~Overfills(t, m)
    BY <1>1, <1>8 DEF Overfills
  <2>3. CASE Wanted(t, m) < m.unfilled
    <3>1. e = Encounter(StCancel(t), StDecrease(m, q), q, TRUE)
      BY <2>1, <2>3 DEF DecreaseAndCancel
    <3>2. /\ StDecrease(m, q).unfilled = m.unfilled - q
          /\ StDecrease(m, q).state = "SelfTradeDecreased"
      BY <1>1, DecreaseTyped
    <3>3. e.taker = StCancel(t) /\ e.maker = StDecrease(m, q)
      BY <3>1 DEF Encounter
    <3>4. SpentAt(t, m, c)
      BY <1>1, <1>7, <2>2, <2>3
    <3> HIDE DEF q, c
    <3>5. Takes(t, m, e, q, 0)
      BY <1>1, <1>3, <2>3, <3>2, <3>3 DEF Takes, LeavesBook
    <3>6. Prevented(t, m, e, q)
      BY <1>2, <1>3, <1>8, <3>3, <3>4, <3>5 DEF Prevented
    <3>7. QED
      BY <1>6, <1>8, <3>6
  <2>4. CASE ~(Wanted(t, m) < m.unfilled)
    <3>1. e = Encounter(d, StCancel(m), q, TRUE)
      BY <2>1, <2>4 DEF DecreaseAndCancel
    <3>2. e.taker = d /\ e.maker = StCancel(m)
      BY <3>1 DEF Encounter
    <3>3. q = m.unfilled
      BY <1>1, <2>4 DEF matchAmount, Least
    <3>4. CASE Wanted(t, m) > m.unfilled \/ t.unfilled > c
      <4>1. /\ e.taker.unfilled = t.unfilled - c
            /\ e.taker.state = "SelfTradeDecreased"
        BY <1>1, <2>2, <3>2, <3>4, DecreaseTyped
      <4>2. c < t.unfilled
        <5>1. CASE t.unfilled > c
          BY <1>1, <5>1
        <5>2. CASE Wanted(t, m) > m.unfilled /\ ~PaysCash(t)
          <6>1. c = m.unfilled /\ Wanted(t, m) = t.unfilled
            BY <3>3, <5>2 DEF TakerAmount, Wanted
          <6>2. QED
            BY <1>1, <5>2, <6>1
        <5>3. CASE Wanted(t, m) > m.unfilled /\ PaysCash(t)
          <6>1. c = m.unfilled * m.price
            BY <3>3, <5>3 DEF TakerAmount
          <6>2. DivTruncate(m.unfilled * m.price, Lot * m.price) * Lot <= m.unfilled
            BY <1>1, DivTruncateLots
          <6>3. Wanted(t, m) = DivTruncate(t.unfilled, Lot * m.price) * Lot
            BY <5>3 DEF Wanted, unitPrice
          <6> HIDE DEF c
          <6>4. c # t.unfilled
            <7> SUFFICES ASSUME c = t.unfilled PROVE FALSE
              OBVIOUS
            <7>1. Wanted(t, m) <= m.unfilled
              BY <6>1, <6>2, <6>3
            <7>2. QED
              BY <1>1, <5>3, <7>1
          <6>5. QED
            BY <1>1, <2>2, <6>4
        <5>4. QED
          BY <3>4, <5>1, <5>2, <5>3
      <4> HIDE DEF q, c
      <4>3. Takes(t, m, e, q, c)
        BY <1>3, <3>2, <3>3, <4>1 DEF Takes
      <4>4. Prevented(t, m, e, q)
        BY <1>2, <1>8, <3>3, <4>1, <4>2, <4>3 DEF Prevented, EndsLoop
      <4>5. QED
        BY <1>6, <1>8, <4>4
    <3>5. CASE ~(Wanted(t, m) > m.unfilled \/ t.unfilled > c)
      <4>1. e.taker = StCancel(t)
        BY <3>2, <3>5
      <4>2. SpentAt(t, m, c)
        BY <1>1, <2>2, <3>5 DEF SpentAt
      <4> HIDE DEF q, c
      <4>3. Takes(t, m, e, q, 0)
        BY <1>1, <1>3, <3>2, <3>3, <4>1 DEF Takes
      <4>4. Prevented(t, m, e, q)
        BY <1>2, <1>3, <1>8, <4>1, <4>2, <4>3 DEF Prevented
      <4>5. QED
        BY <1>6, <1>8, <4>4
    <3>6. QED
      BY <3>4, <3>5
  <2>5. QED
    BY <2>3, <2>4
<1>9. CASE ~TooLittleCash(t, m) /\ IsSelfTrade(t, m) /\ t.stp # "DC"
  <2> DEFINE x == m.unfilled
  <2>1. t.stp \in {"CB", "CO", "CN"}
    BY <1>9 DEF IsSelfTrade, OrderRecord, StpKind
  <2>2. e = SelfTrade(t, m)
    BY <1>9 DEF matchOrder
  <2>3. CASE t.stp = "CB"
    <3>1. e = Encounter(StCancel(t), StCancel(m), m.unfilled, TRUE)
      BY <2>2, <2>3 DEF SelfTrade
    <3>2. Prevented(t, m, e, x)
      BY <1>1, <1>3, <1>9, <2>3, <3>1 DEF Encounter, Prevented, Takes
    <3>3. QED
      BY <1>1, <3>2
  <2>4. CASE t.stp = "CO"
    <3>1. e = Encounter(t, StCancel(m), m.unfilled, TRUE)
      BY <2>2, <2>4 DEF SelfTrade
    <3>2. Prevented(t, m, e, x)
      BY <1>1, <1>3, <1>4, <1>9, <2>4, <3>1 DEF Encounter, Prevented, Takes
    <3>3. QED
      BY <1>1, <3>2
  <2>5. CASE t.stp = "CN"
    <3>1. e = Encounter(StCancel(t), m, 0, FALSE)
      BY <2>2, <2>5 DEF SelfTrade
    <3>2. Prevented(t, m, e, x)
      BY <1>3, <1>9, <2>5, <3>1 DEF Encounter, Prevented
    <3>3. QED
      BY <1>1, <3>2
  <2>6. QED
    BY <2>1, <2>3, <2>4, <2>5
<1>10. CASE ~TooLittleCash(t, m) /\ ~IsSelfTrade(t, m)
  <2>1. e = Encounter(fillAmount(t, c), fillAmount(m, q), q, TRUE)
    BY <1>10 DEF matchOrder
  <2>2. c <= t.unfilled /\ ~Overfills(t, m)
    BY <1>1, <1>10 DEF Overfills
  <2>3. e.taker = fillAmount(t, c) /\ e.maker = fillAmount(m, q)
    BY <2>1 DEF Encounter
  <2>4. /\ e.taker.unfilled = t.unfilled - c
        /\ e.taker.state = IF c = t.unfilled THEN "Filled" ELSE "PartialFilled"
        /\ e.maker.unfilled = m.unfilled - q
        /\ e.maker.state = IF q = m.unfilled THEN "Filled" ELSE "PartialFilled"
    BY <2>3 DEF fillAmount, OrderRecord
  <2>5. q = m.unfilled \/ SpentAt(t, m, c)
    <3>1. q = m.unfilled \/ Wanted(t, m) <= m.unfilled
      BY <1>1 DEF matchAmount, Least
    <3>2. QED
      BY <1>7, <2>2, <3>1
  <2> HIDE DEF q, c
  <2>6. Takes(t, m, e, q, c)
    BY <2>4 DEF Takes, LeavesBook
  <2>7. Traded(t, m, e, q)
    BY <1>2, <1>10, <2>2, <2>4, <2>5, <2>6 DEF Traded, EndsLoop
  <2>8. QED
    BY <1>6, <1>10, <2>7
<1>11. QED
  BY <1>5, <1>8, <1>9, <1>10

-----------------------------------------------------------------------------
(* One side of a book *)

\* A side whose ids point to orders of that side.
SideOK(side) ==
  /\ orderSet(side) \subseteq SeqIds
  /\ \A i \in orderSet(side) : orders[i] \in OrderRecord /\ orders[i].side = side

\* The comparator orders the ids of a side strictly and totally.
LEMMA BeforeIsStrictOrder ==
  ASSUME NEW side \in Sides, SideOK(side),
         NEW i \in orderSet(side), NEW j \in orderSet(side), NEW k \in orderSet(side)
  PROVE  /\ ~Before(i, i)
         /\ Before(i, j) => ~Before(j, i)
         /\ Before(i, j) /\ Before(j, k) => Before(i, k)
         /\ i # j => Before(i, j) \/ Before(j, i)
<1>1. i \in Nat /\ j \in Nat /\ k \in Nat
  BY BookAssumption DEF SideOK, SeqIds
<1>2. \A x \in {i, j, k} : orders[x].price \in Nat /\ orders[x].side = side
  BY DEF SideOK, OrderRecord
<1>3. QED
  BY <1>1, <1>2 DEF Before, Sides

\* A side that is not empty has a first order: Peek finds one.
LEMMA HeadExists ==
  ASSUME NEW side \in Sides, SideOK(side), orderSet(side) # {}
  PROVE  \E h \in orderSet(side) : IsHead(h, side)
<1> DEFINE S == orderSet(side)
           T == {UpTo(i, side) : i \in S}
           R == StrictSubsetOrdering(S)
<1>1. \A U \in SUBSET S : IsFiniteSet(U)
  <2>1. IsFiniteSet(SeqIds)
    BY BookAssumption, FS_Interval DEF SeqIds
  <2>2. QED
    BY <2>1, FS_Subset DEF SideOK
<1>2. T \subseteq FiniteSubsetsOf(S)
  BY <1>1 DEF UpTo, FiniteSubsetsOf
<1>3. IsWellFoundedOn(R, FiniteSubsetsOf(S))
  BY FS_StrictSubsetOrderingWellFounded
<1>4. T # {}
  OBVIOUS
<1>5. PICK U \in T : \A V \in T : ~(<<V, U>> \in R)
  <2> HIDE DEF T, R
  <2>1. QED
    BY <1>2, <1>3, <1>4, WFMin
<1>6. PICK h \in S : U = UpTo(h, side)
  OBVIOUS
<1>7. ASSUME NEW j \in S, j # h, ~Before(h, j)
      PROVE  FALSE
  <2>1. Before(j, h)
    BY <1>7, BeforeIsStrictOrder
  <2>2. UpTo(j, side) \subseteq UpTo(h, side)
    BY <2>1, BeforeIsStrictOrder DEF UpTo
  <2>3. h \in UpTo(h, side) /\ h \notin UpTo(j, side)
    BY <1>7, <2>1, BeforeIsStrictOrder DEF UpTo
  <2>4. <<UpTo(j, side), U>> \in R
    BY <1>6, <2>2, <2>3 DEF StrictSubsetOrdering, UpTo
  <2>5. UpTo(j, side) \in T
    BY <1>7
  <2> HIDE DEF T, R
  <2>6. QED
    BY <1>5, <2>4, <2>5
<1>8. IsHead(h, side)
  BY <1>7 DEF IsHead
<1>9. QED
  BY <1>8

\* A limit that does not reach the first order of a side reaches none.
LEMMA HeadIsBestPrice ==
  ASSUME NEW side \in Sides, SideOK(side),
         NEW h \in orderSet(side), IsHead(h, side), NEW j \in orderSet(side),
         NEW t, t.price \in Nat, t.side = Opposite(side), ~matchAble(t, orders[h])
  PROVE  ~matchAble(t, orders[j])
<1>1. orders[h].price \in Nat /\ orders[j].price \in Nat /\ orders[h].side = side
  BY DEF SideOK, OrderRecord
<1>2. CASE j = h
  BY <1>2
<1>3. CASE j # h
  <2>1. Before(h, j)
    BY <1>3 DEF IsHead
  <2>2. QED
    BY <1>1, <2>1 DEF Before, matchAble, Opposite, Sides
<1>4. QED
  BY <1>2, <1>3

-----------------------------------------------------------------------------
(* What orders have left together *)

\* f adds up what is left in o of the orders of every subset of S.
AddsLeft(f, o, S) ==
  f = [s \in SUBSET S |-> IF s = {} THEN 0
                          ELSE LET x == CHOOSE y \in s : TRUE
                               IN  o[x].unfilled + f[s \ {x}]]

\* UnfilledOf as a function of the orders.
SumLeft(o, S) ==
  LET iter[s \in SUBSET S] ==
        IF s = {} THEN 0
        ELSE LET x == CHOOSE y \in s : TRUE
             IN  o[x].unfilled + iter[s \ {x}]
  IN  iter[S]

\* What a set of orders has left is that sum, before and after a step.
LEMMA UnfilledIsSum ==
  ASSUME NEW S
  PROVE  UnfilledOf(S) = SumLeft(orders, S) /\ UnfilledOf(S)' = SumLeft(orders', S)
BY DEF UnfilledOf, SumLeft, MapThenSumSet, MapThenFoldSet

\* Where two such functions both apply, they agree: take a smallest set where
\* they do not.
LEMMA AddsLeftUnique ==
  ASSUME NEW o, NEW S, NEW T, IsFiniteSet(S), NEW f, NEW h,
         AddsLeft(f, o, S), AddsLeft(h, o, T), NEW s \in SUBSET S, s \in SUBSET T
  PROVE  f[s] = h[s]
<1> DEFINE Bad == {u \in SUBSET S : u \in SUBSET T /\ f[u] # h[u]}
           R == StrictSubsetOrdering(S)
<1> SUFFICES ASSUME Bad # {} PROVE FALSE
  OBVIOUS
<1>1. Bad \subseteq FiniteSubsetsOf(S) /\ IsWellFoundedOn(R, FiniteSubsetsOf(S))
  BY FS_Subset, FS_StrictSubsetOrderingWellFounded DEF FiniteSubsetsOf
<1>2. PICK u \in Bad : \A v \in Bad : ~(<<v, u>> \in R)
  <2> HIDE DEF Bad, R
  <2>1. QED
    BY <1>1, WFMin
<1>3. u \in SUBSET S /\ u \in SUBSET T /\ f[u] # h[u]
  OBVIOUS
<1>4. u # {}
  BY <1>3 DEF AddsLeft
<1> DEFINE x == CHOOSE y \in u : TRUE
<1>5. x \in u
  BY <1>4
<1>6. f[u] = o[x].unfilled + f[u \ {x}] /\ h[u] = o[x].unfilled + h[u \ {x}]
  BY <1>3, <1>4 DEF AddsLeft
<1> HIDE DEF x
<1>7. u \ {x} \notin Bad
  <2>1. <<u \ {x}, u>> \in R
    BY <1>3, <1>5 DEF StrictSubsetOrdering
  <2>2. QED
    BY <1>2, <2>1
<1>8. f[u \ {x}] = h[u \ {x}]
  BY <1>3, <1>7
<1>9. QED
  BY <1>3, <1>6, <1>8

\* There is one for every finite set.
LEMMA AddsLeftExists ==
  ASSUME NEW o, NEW S, IsFiniteSet(S)
  PROVE  \E f : AddsLeft(f, o, S)
<1> DEFINE Bad == {u \in SUBSET S : ~\E f : AddsLeft(f, o, u)}
           R == StrictSubsetOrdering(S)
<1> SUFFICES ASSUME Bad # {} PROVE FALSE
  OBVIOUS
<1>1. Bad \subseteq FiniteSubsetsOf(S) /\ IsWellFoundedOn(R, FiniteSubsetsOf(S))
  BY FS_Subset, FS_StrictSubsetOrderingWellFounded DEF FiniteSubsetsOf
<1>2. PICK u \in Bad : \A v \in Bad : ~(<<v, u>> \in R)
  <2> HIDE DEF Bad, R
  <2>1. QED
    BY <1>1, WFMin
<1>3. u \in SUBSET S /\ ~\E f : AddsLeft(f, o, u)
  OBVIOUS
<1> DEFINE F(s) == CHOOSE f : AddsLeft(f, o, s)
           G(s) == IF s = {} THEN 0
                   ELSE LET x == CHOOSE y \in s : TRUE
                        IN  o[x].unfilled + F(s \ {x})[s \ {x}]
           g == [s \in SUBSET u |-> G(s)]
<1>4. ASSUME NEW s \in SUBSET u, s # u
      PROVE  AddsLeft(F(s), o, s)
  <2>1. <<s, u>> \in R
    BY <1>3, <1>4 DEF StrictSubsetOrdering
  <2>2. s \notin Bad
    BY <1>2, <2>1
  <2>3. \E f : AddsLeft(f, o, s)
    BY <1>3, <1>4, <2>2
  <2> HIDE DEF AddsLeft
  <2>4. QED
    BY <2>3
<1>5. ASSUME NEW s \in SUBSET u, s # u
      PROVE  F(s)[s] = G(s)
  <2>1. CASE s = {}
    <3>1. AddsLeft(F(s), o, s)
      BY <1>4, <1>5
    <3>2. F(s)[s] = 0
      <4> HIDE DEF F
      <4>1. s \in SUBSET s
        OBVIOUS
      <4>2. QED
        BY <2>1, <3>1, <4>1 DEF AddsLeft
    <3>3. G(s) = 0
      BY <2>1
    <3>4. QED
      BY <3>2, <3>3
  <2>2. CASE s # {}
    <3> DEFINE x == CHOOSE y \in s : TRUE
               r == s \ {x}
    <3>1. x \in s
      BY <2>2
    <3>2. AddsLeft(F(s), o, s)
      BY <1>4, <1>5
    <3>3. F(s)[s] = o[x].unfilled + F(s)[r]
      <4> HIDE DEF F
      <4>1. s \in SUBSET s
        OBVIOUS
      <4>2. QED
        BY <2>2, <3>2, <4>1 DEF AddsLeft
    <3>4. r \in SUBSET u /\ r # u /\ r \in SUBSET s /\ r \in SUBSET r
      BY <1>5, <3>1
    <3>5. AddsLeft(F(r), o, r)
      <4> HIDE DEF F, r
      <4>1. QED
        BY <1>4, <3>4
    <3>6. IsFiniteSet(s)
      BY <1>3, <1>5, FS_Subset
    <3>7. F(s)[r] = F(r)[r]
      <4> HIDE DEF F, r
      <4>1. QED
        BY <3>2, <3>4, <3>5, <3>6, AddsLeftUnique
    <3>8. G(s) = o[x].unfilled + F(r)[r]
      BY <2>2
    <3> HIDE DEF F, G, r, x
    <3>9. QED
      BY <3>3, <3>7, <3>8
  <2>3. QED
    BY <2>1, <2>2
<1>6. ASSUME NEW s \in SUBSET u, s # {}, NEW x, x = CHOOSE y \in s : TRUE
      PROVE  G(s) = o[x].unfilled + g[s \ {x}]
  <2>1. x \in s /\ s \ {x} \in SUBSET u /\ s \ {x} # u
    BY <1>6
  <2>2. G(s) = o[x].unfilled + F(s \ {x})[s \ {x}]
    BY <1>6
  <2>3. g[s \ {x}] = G(s \ {x})
    BY <2>1
  <2>4. G(s \ {x}) = F(s \ {x})[s \ {x}]
    BY <1>5, <2>1
  <2> HIDE DEF F, G, g
  <2>5. QED
    BY <2>2, <2>3, <2>4
<1>7. \A s \in SUBSET u :
        G(s) = IF s = {} THEN 0
               ELSE LET x == CHOOSE y \in s : TRUE IN o[x].unfilled + g[s \ {x}]
  <2>1. \A s \in SUBSET u : s = {} => G(s) = 0
    OBVIOUS
  <2> HIDE DEF G, g, F
  <2>2. QED
    BY <1>6, <2>1
<1>8. g = [s \in SUBSET u |->
             IF s = {} THEN 0
             ELSE LET x == CHOOSE y \in s : TRUE IN o[x].unfilled + g[s \ {x}]]
  <2> HIDE DEF G
  <2>1. QED
    BY <1>7
<1> HIDE DEF g
<1>9. QED
  BY <1>3, <1>8 DEF AddsLeft

\* The sum is that of such a function.
LEMMA SumLeftIs ==
  ASSUME NEW o, NEW S, IsFiniteSet(S)
  PROVE  \E f : AddsLeft(f, o, S) /\ SumLeft(o, S) = f[S]
<1>1. \E f : AddsLeft(f, o, S)
  BY AddsLeftExists
<1> DEFINE f == CHOOSE h : AddsLeft(h, o, S)
<1>2. AddsLeft(f, o, S)
  <2> HIDE DEF AddsLeft
  <2>1. QED
    BY <1>1
<1>3. SumLeft(o, S) = f[S]
  BY DEF SumLeft, AddsLeft
<1> HIDE DEF f
<1>4. QED
  BY <1>2, <1>3

\* Nothing is left in no order; otherwise some order is added first.
LEMMA SumLeftUnfolds ==
  ASSUME NEW o, NEW S, IsFiniteSet(S)
  PROVE  /\ S = {} => SumLeft(o, S) = 0
         /\ S # {} => \E x \in S : SumLeft(o, S) = o[x].unfilled + SumLeft(o, S \ {x})
<1>1. PICK f : AddsLeft(f, o, S) /\ SumLeft(o, S) = f[S]
  BY SumLeftIs
<1>2. S \in SUBSET S
  OBVIOUS
<1>3. ASSUME S = {} PROVE SumLeft(o, S) = 0
  BY <1>1, <1>2, <1>3 DEF AddsLeft
<1>4. ASSUME S # {}
      PROVE  \E x \in S : SumLeft(o, S) = o[x].unfilled + SumLeft(o, S \ {x})
  <2> DEFINE x == CHOOSE y \in S : TRUE
  <2>1. x \in S
    BY <1>4
  <2>2. f[S] = o[x].unfilled + f[S \ {x}]
    BY <1>1, <1>2, <1>4 DEF AddsLeft
  <2> HIDE DEF x
  <2>3. IsFiniteSet(S \ {x})
    BY FS_Subset
  <2>4. PICK h : AddsLeft(h, o, S \ {x}) /\ SumLeft(o, S \ {x}) = h[S \ {x}]
    BY <2>3, SumLeftIs
  <2>5. h[S \ {x}] = f[S \ {x}]
    BY <1>1, <2>3, <2>4, AddsLeftUnique
  <2>6. QED
    BY <1>1, <2>1, <2>2, <2>4, <2>5
<1>5. QED
  BY <1>3, <1>4

\* What orders have left together is a natural number.
LEMMA SumLeftNat ==
  ASSUME NEW o, NEW S, IsFiniteSet(S), \A x \in S : o[x].unfilled \in Nat
  PROVE  SumLeft(o, S) \in Nat
<1> DEFINE Bad == {u \in SUBSET S : SumLeft(o, u) \notin Nat}
           R == StrictSubsetOrdering(S)
<1> SUFFICES ASSUME Bad # {} PROVE FALSE
  OBVIOUS
<1>1. Bad \subseteq FiniteSubsetsOf(S) /\ IsWellFoundedOn(R, FiniteSubsetsOf(S))
  BY FS_Subset, FS_StrictSubsetOrderingWellFounded DEF FiniteSubsetsOf
<1>2. PICK u \in Bad : \A v \in Bad : ~(<<v, u>> \in R)
  <2> HIDE DEF Bad, R
  <2>1. QED
    BY <1>1, WFMin
<1>3. u \in SUBSET S /\ IsFiniteSet(u) /\ SumLeft(o, u) \notin Nat
  BY FS_Subset
<1>4. PICK x \in u : SumLeft(o, u) = o[x].unfilled + SumLeft(o, u \ {x})
  BY <1>3, SumLeftUnfolds
<1>5. SumLeft(o, u \ {x}) \in Nat
  <2>1. <<u \ {x}, u>> \in R
    BY <1>3 DEF StrictSubsetOrdering
  <2>2. QED
    BY <1>2, <1>3, <2>1
<1>6. QED
  BY <1>3, <1>4, <1>5

\* Any of the orders may be added first.
LEMMA SumLeftRemove ==
  ASSUME NEW o, NEW S, IsFiniteSet(S), \A x \in S : o[x].unfilled \in Nat, NEW x \in S
  PROVE  SumLeft(o, S) = o[x].unfilled + SumLeft(o, S \ {x})
<1> DEFINE Wrong(u) == \E y \in u : SumLeft(o, u) # o[y].unfilled + SumLeft(o, u \ {y})
           Bad == {u \in SUBSET S : Wrong(u)}
           R == StrictSubsetOrdering(S)
<1> SUFFICES ASSUME Bad # {} PROVE FALSE
  OBVIOUS
<1>1. Bad \subseteq FiniteSubsetsOf(S) /\ IsWellFoundedOn(R, FiniteSubsetsOf(S))
  <2> HIDE DEF Wrong
  <2>1. QED
    BY FS_Subset, FS_StrictSubsetOrderingWellFounded DEF FiniteSubsetsOf
<1>2. PICK u \in Bad : \A v \in Bad : ~(<<v, u>> \in R)
  <2> HIDE DEF Bad, R
  <2>1. QED
    BY <1>1, WFMin
<1>3. u \in SUBSET S /\ IsFiniteSet(u)
  BY FS_Subset
<1>4. PICK y \in u : SumLeft(o, u) # o[y].unfilled + SumLeft(o, u \ {y})
  OBVIOUS
<1>5. PICK c \in u : SumLeft(o, u) = o[c].unfilled + SumLeft(o, u \ {c})
  BY <1>3, SumLeftUnfolds
<1>6. c # y
  BY <1>4, <1>5
<1>7. ASSUME NEW v \in SUBSET u, v # u, NEW z \in v
      PROVE  SumLeft(o, v) = o[z].unfilled + SumLeft(o, v \ {z})
  <2>1. <<v, u>> \in R
    BY <1>3, <1>7 DEF StrictSubsetOrdering
  <2>2. v \notin Bad
    BY <1>2, <2>1
  <2>3. QED
    BY <1>3, <1>7, <2>2
<1>8. SumLeft(o, u \ {c}) = o[y].unfilled + SumLeft(o, (u \ {c}) \ {y})
  BY <1>6, <1>7
<1>9. SumLeft(o, u \ {y}) = o[c].unfilled + SumLeft(o, (u \ {y}) \ {c})
  BY <1>6, <1>7
<1>10. (u \ {y}) \ {c} = (u \ {c}) \ {y}
  OBVIOUS
<1>11. SumLeft(o, (u \ {c}) \ {y}) \in Nat /\ o[c].unfilled \in Nat /\ o[y].unfilled \in Nat
  <2>1. IsFiniteSet((u \ {c}) \ {y}) /\ \A z \in (u \ {c}) \ {y} : o[z].unfilled \in Nat
    BY <1>3, FS_Subset
  <2>2. QED
    BY <1>3, <2>1, SumLeftNat
<1>12. SumLeft(o, u \ {y}) = o[c].unfilled + SumLeft(o, (u \ {c}) \ {y})
  BY <1>9, <1>10, Zenon
<1>13. \A k, a, b : k \in Nat /\ a \in Nat /\ b \in Nat => a + (b + k) = b + (a + k)
  OBVIOUS
<1>14. o[c].unfilled + (o[y].unfilled + SumLeft(o, (u \ {c}) \ {y}))
          = o[y].unfilled + (o[c].unfilled + SumLeft(o, (u \ {c}) \ {y}))
  BY <1>11, <1>13, Zenon
<1>15. QED
  BY <1>4, <1>5, <1>8, <1>12, <1>14, Zenon

\* Orders with the same left have the same left together.
LEMMA SumLeftSame ==
  ASSUME NEW o, NEW p, NEW S, IsFiniteSet(S), \A x \in S : o[x].unfilled \in Nat,
         \A x \in S : o[x].unfilled = p[x].unfilled
  PROVE  SumLeft(o, S) = SumLeft(p, S)
<1> DEFINE Bad == {u \in SUBSET S : SumLeft(o, u) # SumLeft(p, u)}
           R == StrictSubsetOrdering(S)
<1> SUFFICES ASSUME Bad # {} PROVE FALSE
  OBVIOUS
<1>1. Bad \subseteq FiniteSubsetsOf(S) /\ IsWellFoundedOn(R, FiniteSubsetsOf(S))
  BY FS_Subset, FS_StrictSubsetOrderingWellFounded DEF FiniteSubsetsOf
<1>2. PICK u \in Bad : \A v \in Bad : ~(<<v, u>> \in R)
  <2> HIDE DEF Bad, R
  <2>1. QED
    BY <1>1, WFMin
<1>3. u \in SUBSET S /\ IsFiniteSet(u) /\ SumLeft(o, u) # SumLeft(p, u)
  BY FS_Subset
<1>4. u # {}
  BY <1>3, SumLeftUnfolds, FS_EmptySet
<1>5. PICK x \in u : SumLeft(o, u) = o[x].unfilled + SumLeft(o, u \ {x})
  BY <1>3, <1>4, SumLeftUnfolds
<1>6. SumLeft(p, u) = p[x].unfilled + SumLeft(p, u \ {x})
  <2>1. \A y \in u : p[y].unfilled \in Nat
    BY <1>3
  <2>2. QED
    BY <1>3, <2>1, SumLeftRemove
<1>7. SumLeft(o, u \ {x}) = SumLeft(p, u \ {x})
  <2>1. <<u \ {x}, u>> \in R
    BY <1>3 DEF StrictSubsetOrdering
  <2>2. QED
    BY <1>2, <1>3, <2>1
<1>8. QED
  BY <1>3, <1>5, <1>6, <1>7

-----------------------------------------------------------------------------
(* The inductive invariant *)

\* The order in the loop: one that Match routes, not on the book, open with
\* something left or at its end.
TakerInHand ==
  phase = "matching" =>
    /\ fromId \in SeqIds
    /\ Taker \in OrderRecord
    /\ Taker.type \in {"Market", "Limit", "Fok"}
    /\ Taker.type # "Market" => Taker.price > 0
    /\ Taker.state \in Open \cup {"Filled", "SelfTradeCanceled",
                                 "SelfTradePartialCanceled", "PrecisionCanceled"}
    /\ Taker.state \in Open => PaysCash(Taker) \/ Taker.unfilled > 0

\* Everything on the book was taken before the order in hand.
Older == \A i \in cache : i <= fromId /\ (phase = "matching" => i < fromId)

\* What a resting order asks or bids is not zero.
Priced == \A i \in cache : orders[i].price > 0

IInv ==
  /\ TypeOK
  /\ BookInStep
  /\ Uncrossed
  /\ TakerInHand
  /\ Older
  /\ Priced
  /\ KilledOnlyByRounding

-----------------------------------------------------------------------------
(* What IInv says of single orders and sides *)

\* An order on the book is an open limit order with something left.
LEMMA RestingOrder ==
  ASSUME IInv, NEW i \in cache
  PROVE  /\ i \in SeqIds /\ orders[i] \in OrderRecord
         /\ orders[i].type = "Limit" /\ orders[i].price > 0
         /\ orders[i].state \in Open /\ orders[i].unfilled > 0
  BY DEF IInv, TypeOK, BookInStep, Priced, Open

\* Each tree holds orders of the index, all of its side.
LEMMA SidesOK ==
  ASSUME IInv, NEW side \in Sides
  PROVE  orderSet(side) \subseteq cache /\ SideOK(side)
<1>1. orderSet(side) \subseteq cache
  BY DEF IInv, BookInStep, orderSet, Sides
<1>2. \A i \in orderSet(side) : orders[i].side = side
  <2> TAKE i \in orderSet(side)
  <2>1. orders[i].side \in Sides
    BY <1>1, RestingOrder DEF OrderRecord
  <2>2. i \notin orderSet(Opposite(orders[i].side))
    BY <1>1 DEF IInv, BookInStep
  <2>3. QED
    BY <2>1, <2>2 DEF Opposite, Sides
<1>3. QED
  BY <1>1, <1>2, RestingOrder DEF SideOK

\* Dequeue finds every order on the book.
LEMMA DequeueWorks ==
  ASSUME IInv, NEW i \in cache
  PROVE  ~DequeueFails(i)
  BY DEF IInv, BookInStep, DequeueFails, Find

\* Taking orders off the book and changing no more than what is left of the
\* others keeps the book in step, uncrossed and priced.
LEMMA ShrinkBook ==
  ASSUME IInv, NEW ids, Dequeue(ids),
         \A i \in cache \ ids : /\ orders'[i] \in OrderRecord
                                /\ SameTerms(orders'[i], orders[i])
                                /\ orders'[i].state \in Open
                                /\ orders'[i].unfilled > 0
  PROVE  BookInStep' /\ Uncrossed' /\ Priced'
<1>1. /\ cache' = cache \ ids
      /\ buySet' = buySet \ ids
      /\ sellSet' = sellSet \ ids
  BY DEF Dequeue
<1>2. buySet \subseteq cache /\ sellSet \subseteq cache
  BY DEF IInv, BookInStep
<1>3. BookInStep'
  <2>1. cache' = buySet' \cup sellSet'
    BY <1>1 DEF IInv, BookInStep
  <2>2. ASSUME NEW i \in cache'
        PROVE  /\ orders'[i] # NoOrder
               /\ (i \in orderSet(orders[i].side))'
               /\ (i \notin orderSet(Opposite(orders[i].side)))'
               /\ orders'[i].type = "Limit"
               /\ orders'[i].unfilled > 0
               /\ orders'[i].state \in Open
    <3>1. /\ i \in cache \ ids
          /\ orders'[i] \in OrderRecord
          /\ SameTerms(orders'[i], orders[i])
      BY <1>1, <2>2
    <3>2. /\ i \in orderSet(orders[i].side)
          /\ i \notin orderSet(Opposite(orders[i].side))
          /\ orders[i].type = "Limit"
      BY <3>1 DEF IInv, BookInStep
    <3>3. (i \in orderSet(orders[i].side))'
      BY <1>1, <3>1, <3>2 DEF orderSet, SameTerms
    <3>4. (i \notin orderSet(Opposite(orders[i].side)))'
      BY <1>1, <3>1, <3>2 DEF orderSet, SameTerms, Opposite
    <3>5. QED
      BY <1>1, <2>2, <3>1, <3>2, <3>3, <3>4, BookAssumption DEF SameTerms
  <2>3. QED
    BY <2>1, <2>2 DEF BookInStep, Open
<1>4. Uncrossed'
  BY <1>1, <1>2 DEF IInv, Uncrossed, SameTerms
<1>5. Priced'
  BY <1>1 DEF IInv, Priced, SameTerms
<1>6. QED
  BY <1>3, <1>4, <1>5

\* The same when the orders on the book are not touched at all.
LEMMA KeepBook ==
  ASSUME IInv, UNCHANGED <<cache, buySet, sellSet>>,
         \A i \in cache : orders'[i] = orders[i]
  PROVE  BookInStep' /\ Uncrossed' /\ Priced'
<1>1. Dequeue({})
  BY DEF Dequeue
<1>2. \A i \in cache : SameTerms(orders'[i], orders[i])
  BY DEF SameTerms
<1>3. QED
  BY <1>1, <1>2, ShrinkBook, RestingOrder

-----------------------------------------------------------------------------
(* Items *)

\* finalizeTaker, getOrderStateStr and the switch of matchCancel publish an
\* order state or none.
LEMMA TakerItemTyped ==
  ASSUME NEW i \in SeqIds, NEW o \in OrderRecord
  PROVE  TakerItem(i, o) \in Item
<1>1. o.state \in OrderState /\ o.unfilled \in Nat /\ o.price \in Nat
  BY DEF OrderRecord
<1>2. finalizeTakerMarket(o.state) \in OrderState \cup {""}
  BY <1>1 DEF finalizeTakerMarket, OrderState
<1>3. finalizeTakerLimit(o.state) \in OrderState \cup {""}
  BY <1>1 DEF finalizeTakerLimit, OrderState
<1>4. finalizeTakerFok(o.state) \in OrderState \cup {""}
  BY <1>1 DEF finalizeTakerFok, OrderState
<1>5. finalizeTaker(o) \in OrderState \cup {""}
  BY <1>2, <1>3, <1>4 DEF finalizeTaker
<1>6. QED
  BY <1>1, <1>5 DEF TakerItem, Item

\* What is published for a cancelled order is an item.
LEMMA CancelItemTyped ==
  ASSUME IInv, NEW i \in SeqIds, NEW found \in BOOLEAN, found => i \in cache
  PROVE  CancelItem(i, found) \in Item
<1>1. CASE found
  <2>1. orders[i].unfilled \in Nat /\ orders[i].state \in OrderState
    BY <1>1, RestingOrder DEF OrderRecord
  <2>2. CancelState(orders[i].state) \in OrderState \cup {""}
    BY <2>1 DEF CancelState, OrderState
  <2>3. QED
    BY <1>1, <2>1, <2>2 DEF CancelItem, Item
<1>2. CASE ~found
  BY <1>2 DEF CancelItem, Item, OrderState
<1>3. QED
  BY <1>1, <1>2

-----------------------------------------------------------------------------
(* The initial state and the steps that take a row *)

\* An empty book satisfies the invariant.
LEMMA InitInv == Init => IInv
<1> SUFFICES ASSUME Init PROVE IInv
  OBVIOUS
<1> USE DEF Init, InitOrderBook
<1>1. TypeOK
  BY BookAssumption DEF TypeOK, SeqIds
<1>2. BookInStep /\ Uncrossed /\ Older /\ Priced
  BY DEF BookInStep, Uncrossed, Older, Priced
<1>3. TakerInHand /\ KilledOnlyByRounding
  BY DEF TakerInHand, KilledOnlyByRounding
<1>4. QED
  BY <1>1, <1>2, <1>3 DEF IInv

\* A row of the catalogue, as the puller hands it over, is an order.
LEMMA NewOrderTyped ==
  ASSUME NEW o \in Inputs
  PROVE  /\ NewOrder(o) \in OrderRecord
         /\ NewOrder(o).type = o.type
         /\ NewOrder(o).state = "Submitted" /\ NewOrder(o).unfilled > 0
         /\ o.type # "Market" => NewOrder(o).price > 0
<1>1. o \in Terms /\ (o.type # "Market" => o.price > 0)
  BY InputAssumption
<1>2. QED
  BY <1>1 DEF Terms, OrderRecord, OrderState, NewOrder

\* Loading a row advances the position and touches no order on the book.
LEMMA LoadFacts ==
  ASSUME IInv, NEW o \in OrderRecord \cup {NoOrder}, Load(o)
  PROVE  /\ phase = "idle"
         /\ fromId' = fromId + 1 /\ fromId' \in SeqIds
         /\ orders' \in [SeqIds -> OrderRecord \cup {NoOrder}]
         /\ orders'[fromId'] = o
         /\ \A i \in cache : i < fromId' /\ orders'[i] = orders[i]
         /\ lastPrice' \in Nat
<1>1. fromId \in Nat /\ MaxSeqId \in Nat /\ fromId + 1 \in SeqIds
  BY BookAssumption DEF Load, IInv, TypeOK, SeqIds
<1>2. \A i \in cache : i \in SeqIds /\ i < fromId + 1 /\ i # fromId + 1
  <2>1. \A i \in cache : i <= fromId /\ i \in Nat /\ i \in SeqIds
    BY BookAssumption DEF IInv, Older, TypeOK, SeqIds
  <2>2. QED
    BY <1>1, <2>1
<1>3. orders \in [SeqIds -> OrderRecord \cup {NoOrder}]
  BY DEF IInv, TypeOK
<1>4. QED
  BY <1>1, <1>2, <1>3 DEF Load

\* Putting an order in the loop's hand, or answering it at once.
LEMMA TakeRow ==
  ASSUME IInv, NEW o \in Inputs, Load(NewOrder(o)),
         UNCHANGED <<cache, buySet, sellSet>>, results' \in Seq(Item),
         \/ phase' = "idle"
         \/ phase' = "matching" /\ o.type # "Ioc"
         \/ phase' = "dead" /\ o.type = "Ioc"
  PROVE  IInv'
<1>1. /\ fromId' = fromId + 1 /\ fromId' \in SeqIds
      /\ orders' \in [SeqIds -> OrderRecord \cup {NoOrder}]
      /\ orders'[fromId'] = NewOrder(o)
      /\ \A i \in cache : i < fromId' /\ orders'[i] = orders[i]
      /\ lastPrice' \in Nat
  BY LoadFacts, NewOrderTyped
<1>2. BookInStep' /\ Uncrossed' /\ Priced'
  BY <1>1, KeepBook
<1>3. TypeOK'
  BY <1>1, BookAssumption DEF IInv, TypeOK, SeqIds
<1>4. Older'
  <2>1. fromId' \in Nat /\ \A i \in cache : i \in Nat
    BY <1>1, BookAssumption DEF IInv, TypeOK, SeqIds
  <2>2. QED
    BY <1>1, <2>1 DEF Older
<1>5. TakerInHand'
  <2>1. o.type \in OrderType
    BY InputAssumption DEF Terms
  <2>2. phase' = "matching" => o.type \in {"Market", "Limit", "Fok"}
    BY <2>1 DEF OrderType
  <2>3. QED
    BY <1>1, <2>2, NewOrderTyped DEF TakerInHand, Taker, Open
<1>6. KilledOnlyByRounding'
  <2>1. phase' = "dead" => o.type = "Ioc"
    OBVIOUS
  <2>2. HasTaker'
    BY <1>1, NewOrderTyped, BookAssumption DEF HasTaker, Taker, SeqIds
  <2>3. QED
    BY <1>1, <2>1, <2>2, NewOrderTyped DEF KilledOnlyByRounding, Taker
<1>7. QED
  BY <1>2, <1>3, <1>4, <1>5, <1>6 DEF IInv

\* Rows that name resting orders or none: cancels, batch cancels and what the
\* puller cancelled.
LEMMA TakeCancelRow ==
  ASSUME IInv, Load(NoOrder), NEW ids, Dequeue(ids), phase' = "idle",
         results' \in Seq(Item)
  PROVE  IInv'
<1>1. /\ fromId' = fromId + 1 /\ fromId' \in SeqIds
      /\ orders' \in [SeqIds -> OrderRecord \cup {NoOrder}]
      /\ \A i \in cache : i < fromId' /\ orders'[i] = orders[i]
      /\ lastPrice' \in Nat
  BY LoadFacts
<1>2. BookInStep' /\ Uncrossed' /\ Priced'
  <2>1. \A i \in cache \ ids : /\ orders'[i] \in OrderRecord
                                /\ SameTerms(orders'[i], orders[i])
                                /\ orders'[i].state \in Open
                                /\ orders'[i].unfilled > 0
    BY <1>1, RestingOrder DEF SameTerms
  <2>2. QED
    BY <2>1, ShrinkBook
<1>3. TypeOK'
  <2>1. cache' \subseteq SeqIds /\ buySet' \subseteq SeqIds /\ sellSet' \subseteq SeqIds
    BY DEF IInv, TypeOK, Dequeue
  <2>2. fromId' \in 0 .. MaxSeqId
    BY <1>1, BookAssumption DEF SeqIds
  <2>3. QED
    BY <1>1, <2>1, <2>2 DEF TypeOK
<1>4. Older'
  <2>1. fromId' \in Nat /\ \A i \in cache : i \in Nat
    BY <1>1, BookAssumption DEF IInv, TypeOK, SeqIds
  <2>2. QED
    BY <1>1, <2>1 DEF Older, Dequeue
<1>5. TakerInHand' /\ KilledOnlyByRounding'
  BY DEF TakerInHand, KilledOnlyByRounding
<1>6. QED
  BY <1>2, <1>3, <1>4, <1>5 DEF IInv

-----------------------------------------------------------------------------
(* The steps of the loops *)

\* The order in hand is not on the book and the best counterparty is another,
\* older order.
LEMMA MakerFacts ==
  ASSUME IInv, phase = "matching", NEW m \in Counterparties
  PROVE  /\ fromId \in SeqIds /\ Taker \in OrderRecord
         /\ fromId \notin cache
         /\ m \in cache /\ m \in SeqIds /\ m < fromId
         /\ ~DequeueFails(m)
<1>1. fromId \in SeqIds /\ Taker \in OrderRecord
  BY DEF IInv, TakerInHand
<1>2. Opposite(Taker.side) \in Sides
  BY <1>1 DEF OrderRecord, Opposite, Sides
<1>3. m \in cache
  BY <1>2, SidesOK DEF Counterparties
<1>4. m \in SeqIds /\ m < fromId
  BY <1>3, RestingOrder DEF IInv, Older
<1>5. fromId \notin cache
  <2>1. fromId \in Nat
    BY <1>1, BookAssumption DEF SeqIds
  <2>2. ~(fromId < fromId)
    BY <2>1
  <2>3. QED
    BY <2>2 DEF IInv, Older
<1>6. QED
  BY <1>1, <1>3, <1>4, <1>5, DequeueWorks

\* An encounter with the head keeps the invariant.
LEMMA MatchHeadInv ==
  ASSUME IInv, MatchHead
  PROVE  IInv'
<1>1. PICK m \in Counterparties :
        LET e == matchOrder(Taker, orders[m])
        IN  /\ IsHead(m, Opposite(Taker.side))
            /\ ~Asserts(m)
            /\ orders' = [orders EXCEPT ![fromId] = e.taker, ![m] = e.maker]
            /\ results' = IF e.item THEN Append(results, MakerItem(m, e)) ELSE results
            /\ lastPrice' = PriceAfter(e)
            /\ IF LeavesBook(e.maker) THEN Dequeue({m})
                                      ELSE UNCHANGED <<cache, buySet, sellSet>>
  BY DEF MatchHead
<1> DEFINE e == matchOrder(Taker, orders[m])
<1>2. /\ phase = "matching" /\ ~EndsLoop(Taker)
      /\ UNCHANGED <<fromId, phase>>
  BY DEF MatchHead, Looping
<1>3. /\ fromId \in SeqIds /\ Taker \in OrderRecord
      /\ fromId \notin cache
      /\ m \in cache /\ m \in SeqIds /\ m < fromId
  BY <1>2, MakerFacts
<1>4. /\ Taker.state \in Open
      /\ PaysCash(Taker) \/ Taker.unfilled > 0
      /\ Taker.type \in {"Market", "Limit", "Fok"}
      /\ Taker.type # "Market" => Taker.price > 0
  BY <1>2 DEF IInv, TakerInHand, EndsLoop
<1>5. /\ TakerAfter(Taker, e.taker)
      /\ MakerAfter(orders[m], e.maker)
      /\ e.filled \in Nat /\ e.item \in BOOLEAN
  <2>1. ~TooLittleCash(Taker, orders[m])
          /\ (IsSelfTrade(Taker, orders[m]) => Taker.stp = "DC")
            => ~Overfills(Taker, orders[m])
    BY <1>1 DEF Asserts
  <2>2. QED
    BY <1>3, <1>4, <2>1, RestingOrder, EncounterTyped
<1>6. fromId # m
  BY <1>3
<1>7. /\ orders' \in [SeqIds -> OrderRecord \cup {NoOrder}]
      /\ orders'[fromId] = e.taker
      /\ orders'[m] = e.maker
      /\ \A i \in cache \ {m} : orders'[i] = orders[i]
  <2> HIDE DEF e
  <2>1. orders' = [orders EXCEPT ![fromId] = e.taker, ![m] = e.maker]
    BY <1>1 DEF e
  <2>2. orders \in [SeqIds -> OrderRecord \cup {NoOrder}] /\ cache \subseteq SeqIds
    BY DEF IInv, TypeOK
  <2>3. e.taker \in OrderRecord /\ e.maker \in OrderRecord
    BY <1>5 DEF TakerAfter, MakerAfter
  <2>4. QED
    BY <1>3, <1>6, <2>1, <2>2, <2>3
<1>8. BookInStep' /\ Uncrossed' /\ Priced'
  <2> HIDE DEF e
  <2>1. CASE LeavesBook(e.maker)
    <3>1. Dequeue({m})
      BY <1>1, <2>1 DEF e
    <3>2. \A i \in cache \ {m} : /\ orders'[i] \in OrderRecord
                                  /\ SameTerms(orders'[i], orders[i])
                                  /\ orders'[i].state \in Open
                                  /\ orders'[i].unfilled > 0
      BY <1>7, RestingOrder DEF SameTerms
    <3>3. QED
      BY <3>1, <3>2, ShrinkBook
  <2>2. CASE ~LeavesBook(e.maker)
    <3>1. Dequeue({})
      BY <1>1, <2>2 DEF e, Dequeue
    <3>2. \A i \in cache : /\ orders'[i] \in OrderRecord
                           /\ SameTerms(orders'[i], orders[i])
                           /\ orders'[i].state \in Open
                           /\ orders'[i].unfilled > 0
      BY <1>5, <1>7, <2>2, RestingOrder DEF SameTerms, MakerAfter
    <3>3. QED
      BY <3>1, <3>2, ShrinkBook
  <2>3. QED
    BY <2>1, <2>2
<1>9. TypeOK'
  <2> HIDE DEF e
  <2>1. /\ e.maker.price \in Nat
        /\ MakerItem(m, e) \in Item
    BY <1>3, <1>5 DEF MakerAfter, OrderRecord, MakerItem, Item
  <2>2. results' \in Seq(Item) /\ lastPrice' \in Nat
    BY <1>1, <2>1 DEF e, IInv, TypeOK, PriceAfter
  <2>3. cache' \subseteq SeqIds /\ buySet' \subseteq SeqIds /\ sellSet' \subseteq SeqIds
    BY <1>1 DEF IInv, TypeOK, Dequeue
  <2>4. fromId' \in 0 .. MaxSeqId /\ phase' \in {"idle", "matching", "dead"}
    BY <1>2 DEF IInv, TypeOK
  <2>5. QED
    BY <1>7, <2>2, <2>3, <2>4 DEF TypeOK
<1>10. TakerInHand'
  <2> HIDE DEF e
  <2>1. Taker' = e.taker
    BY <1>2, <1>7 DEF Taker
  <2>2. QED
    BY <1>2, <1>3, <1>4, <1>5, <2>1 DEF TakerInHand, TakerAfter, SameTerms, PaysCash
<1>11. Older'
  <2>1. cache' \subseteq cache
    BY <1>1 DEF Dequeue
  <2>2. QED
    BY <1>2, <2>1 DEF IInv, Older
<1>12. KilledOnlyByRounding'
  BY <1>2 DEF KilledOnlyByRounding
<1>13. QED
  BY <1>8, <1>9, <1>10, <1>11, <1>12 DEF IInv

\* Publishing the taker's item touches no order on the book.
LEMMA PublishFacts ==
  ASSUME IInv, phase = "matching", NEW o \in OrderRecord, Publish(o)
  PROVE  /\ orders' \in [SeqIds -> OrderRecord \cup {NoOrder}]
         /\ orders'[fromId] = o
         /\ \A i \in cache : orders'[i] = orders[i]
         /\ results' \in Seq(Item)
         /\ UNCHANGED <<fromId, lastPrice>>
<1>1. fromId \in SeqIds /\ fromId \notin cache /\ cache \subseteq SeqIds
  <2>1. fromId \in SeqIds
    BY DEF IInv, TakerInHand
  <2>2. ~(fromId < fromId)
    BY <2>1, BookAssumption DEF SeqIds
  <2>3. QED
    BY <2>1, <2>2 DEF IInv, Older, TypeOK
<1>2. TakerItem(fromId, o) \in Item
  BY <1>1, TakerItemTyped
<1>3. results' \in Seq(Item)
  BY <1>2 DEF Publish, IInv, TypeOK
<1>4. QED
  BY <1>1, <1>3 DEF Publish, IInv, TypeOK

\* The steps that end the loop and leave the book as it is.
LEMMA LeaveInv ==
  ASSUME IInv, phase = "matching", NEW o \in OrderRecord, Publish(o),
         phase' = "idle", UNCHANGED <<cache, buySet, sellSet>>
  PROVE  IInv'
<1>1. /\ orders' \in [SeqIds -> OrderRecord \cup {NoOrder}]
      /\ \A i \in cache : orders'[i] = orders[i]
      /\ results' \in Seq(Item)
      /\ UNCHANGED <<fromId, lastPrice>>
  BY PublishFacts
<1>2. BookInStep' /\ Uncrossed' /\ Priced'
  BY <1>1, KeepBook
<1>3. TypeOK' /\ Older'
  BY <1>1 DEF IInv, TypeOK, Older
<1>4. TakerInHand' /\ KilledOnlyByRounding'
  BY DEF TakerInHand, KilledOnlyByRounding
<1>5. QED
  BY <1>2, <1>3, <1>4 DEF IInv

\* A limit order rests only when the best price of the other side, and with it
\* every price there, is out of its reach: the book stays uncrossed.
LEMMA RestInv ==
  ASSUME IInv, Rest
  PROVE  IInv'
<1> DEFINE side == Taker.side
           opp == Opposite(side)
<1>1. /\ phase = "matching" /\ ~EndsLoop(Taker) /\ Taker.type = "Limit"
      /\ \A m \in Counterparties : IsHead(m, opp) => ~matchAble(Taker, orders[m])
      /\ Enqueue(fromId) /\ Publish(Taker)
      /\ phase' = IF EnqueueFails(fromId) THEN "dead" ELSE "idle"
  BY DEF Rest, Looping, Admits
<1>2. /\ fromId \in SeqIds /\ Taker \in OrderRecord
      /\ Taker.price > 0 /\ Taker.unfilled > 0 /\ Taker.state \in Open
  BY <1>1 DEF IInv, TakerInHand, EndsLoop, PaysCash
<1>3. /\ orders' \in [SeqIds -> OrderRecord \cup {NoOrder}]
      /\ orders'[fromId] = Taker
      /\ \A i \in cache : orders'[i] = orders[i]
      /\ results' \in Seq(Item)
      /\ UNCHANGED <<fromId, lastPrice>>
  BY <1>1, <1>2, PublishFacts
<1>4. side \in Sides /\ opp \in Sides
  BY <1>2 DEF OrderRecord, Opposite, Sides
<1>5. fromId \notin cache
  <2>1. ~(fromId < fromId)
    BY <1>2, BookAssumption DEF SeqIds
  <2>2. QED
    BY <1>1, <2>1 DEF IInv, Older
<1>6. phase' = "idle"
  BY <1>1, <1>5 DEF EnqueueFails, Find
<1>7. /\ cache' = cache \cup {fromId}
      /\ side = "Buy" => buySet' = buySet \cup {fromId} /\ sellSet' = sellSet
      /\ side = "Sell" => sellSet' = sellSet \cup {fromId} /\ buySet' = buySet
  BY <1>1, <1>4 DEF Enqueue, Sides, Taker
<1>8. buySet \subseteq cache /\ sellSet \subseteq cache /\ cache = buySet \cup sellSet
  BY DEF IInv, BookInStep
<1>9. \A j \in orderSet(opp) : ~matchAble(Taker, orders[j])
  <2>1. SUFFICES ASSUME NEW j \in orderSet(opp) PROVE ~matchAble(Taker, orders[j])
    OBVIOUS
  <2>2. SideOK(opp)
    BY <1>4, SidesOK
  <2>3. PICK h \in orderSet(opp) : IsHead(h, opp)
    BY <1>4, <2>1, <2>2, HeadExists
  <2>4. ~matchAble(Taker, orders[h])
    BY <1>1, <2>3 DEF Counterparties
  <2>5. Taker.price \in Nat /\ Taker.side = Opposite(opp)
    BY <1>2, <1>4 DEF OrderRecord, Opposite, Sides
  <2>6. QED
    BY <1>4, <2>1, <2>2, <2>3, <2>4, <2>5, HeadIsBestPrice
<1>10. Uncrossed'
  <2>1. \A i \in cache : orders[i].price \in Nat
    BY RestingOrder DEF OrderRecord
  <2>2. Taker.price \in Nat
    BY <1>2 DEF OrderRecord
  <2>3. CASE side = "Buy"
    <3>1. \A s \in sellSet : Taker.price < orders[s].price
      BY <1>8, <1>9, <2>1, <2>2, <2>3 DEF matchAble, orderSet, Opposite
    <3>2. QED
      BY <1>3, <1>7, <1>8, <2>3, <3>1 DEF IInv, Uncrossed
  <2>4. CASE side = "Sell"
    <3>1. \A b \in buySet : orders[b].price < Taker.price
      BY <1>8, <1>9, <2>1, <2>2, <2>4 DEF matchAble, orderSet, Opposite
    <3>2. QED
      BY <1>3, <1>7, <1>8, <2>4, <3>1 DEF IInv, Uncrossed
  <2>5. QED
    BY <1>4, <2>3, <2>4 DEF Sides
<1>11. BookInStep'
  <2>1. cache' = buySet' \cup sellSet'
    BY <1>4, <1>7, <1>8 DEF Sides
  <2>2. ASSUME NEW i \in cache'
        PROVE  /\ orders'[i] # NoOrder
               /\ (i \in orderSet(orders[i].side))'
               /\ (i \notin orderSet(Opposite(orders[i].side)))'
               /\ orders'[i].type = "Limit"
               /\ orders'[i].unfilled > 0
               /\ orders'[i].state \in Open
    <3>1. CASE i = fromId
      <4>1. orders'[i] = Taker
        BY <1>3, <3>1
      <4>2. (i \in orderSet(orders[i].side))'
        BY <1>4, <1>7, <3>1, <4>1 DEF orderSet, Sides
      <4>3. (i \notin orderSet(Opposite(orders[i].side)))'
        BY <1>4, <1>5, <1>7, <1>8, <3>1, <4>1 DEF orderSet, Opposite, Sides
      <4>4. QED
        BY <1>1, <1>2, <4>1, <4>2, <4>3, BookAssumption
    <3>2. CASE i # fromId
      <4>1. i \in cache /\ orders'[i] = orders[i]
        BY <1>3, <1>7, <2>2, <3>2
      <4>2. /\ i \in orderSet(orders[i].side)
            /\ i \notin orderSet(Opposite(orders[i].side))
        BY <4>1 DEF IInv, BookInStep
      <4>3. (i \in orderSet(orders[i].side))'
        BY <1>4, <1>7, <4>1, <4>2 DEF orderSet, Sides
      <4>4. (i \notin orderSet(Opposite(orders[i].side)))'
        BY <1>4, <1>7, <3>2, <4>1, <4>2 DEF orderSet, Opposite, Sides
      <4>5. QED
        BY <4>1, <4>3, <4>4, RestingOrder, BookAssumption
    <3>3. QED
      BY <3>1, <3>2
  <2>3. QED
    BY <2>1, <2>2 DEF BookInStep, Open
<1>12. Priced'
  BY <1>2, <1>3, <1>7 DEF IInv, Priced
<1>13. TypeOK'
  <2>1. cache' \subseteq SeqIds /\ buySet' \subseteq SeqIds /\ sellSet' \subseteq SeqIds
    BY <1>2, <1>4, <1>7 DEF IInv, TypeOK, Sides
  <2>2. QED
    BY <1>3, <1>6, <2>1 DEF IInv, TypeOK
<1>14. Older'
  <2>1. fromId \in Nat
    BY <1>2, BookAssumption DEF SeqIds
  <2>2. QED
    BY <1>3, <1>6, <1>7, <2>1 DEF IInv, Older
<1>15. TakerInHand' /\ KilledOnlyByRounding'
  BY <1>6 DEF TakerInHand, KilledOnlyByRounding
<1>16. QED
  BY <1>10, <1>11, <1>12, <1>13, <1>14, <1>15 DEF IInv

\* The only Fatal in the loop that a maker on the book can cause is the one of
\* the rounded division.
LEMMA AbortInv ==
  ASSUME IInv, Abort
  PROVE  IInv'
<1>1. PICK m \in Counterparties : IsHead(m, Opposite(Taker.side)) /\ Asserts(m)
  BY DEF Abort
<1>2. /\ phase = "matching" /\ phase' = "dead"
      /\ UNCHANGED <<orders, cache, buySet, sellSet, fromId, results, lastPrice>>
  BY DEF Abort, Looping
<1>3. /\ fromId \in SeqIds /\ Taker \in OrderRecord
      /\ m \in cache /\ m \in SeqIds /\ m < fromId
      /\ ~DequeueFails(m)
  BY <1>2, MakerFacts
<1>4. ~(fromId <= m)
  BY <1>3, BookAssumption DEF SeqIds
<1>5. Overfills(Taker, orders[m])
  BY <1>1, <1>3, <1>4 DEF Asserts
<1>6. PaysCash(Taker) /\ unitPrice(orders[m]) >= 2 * DivUnit
  BY <1>3, <1>5, RestingOrder, OverfillsOnlyByRounding
<1>7. HasTaker
  BY <1>3, BookAssumption DEF HasTaker, SeqIds
<1>8. Taker' = Taker /\ HasTaker' /\ Counterparties' = Counterparties
  BY <1>2, <1>7 DEF Taker, HasTaker, Counterparties, orderSet
<1>9. IsHead(m, Opposite(Taker.side))'
  BY <1>1, <1>2 DEF IsHead, orderSet, Before, Taker
<1>10. KilledOnlyByRounding'
  <2>1. unitPrice(orders[m])' >= 2 * DivUnit
    BY <1>2, <1>6 DEF unitPrice
  <2>2. PaysCash(Taker)'
    BY <1>6, <1>8 DEF PaysCash
  <2>3. QED
    BY <1>8, <1>9, <2>1, <2>2 DEF KilledOnlyByRounding
<1>11. BookInStep' /\ Uncrossed' /\ Priced'
  BY <1>2, KeepBook
<1>12. TypeOK' /\ Older' /\ TakerInHand'
  BY <1>2 DEF IInv, TypeOK, Older, TakerInHand
<1>13. QED
  BY <1>10, <1>11, <1>12 DEF IInv

-----------------------------------------------------------------------------
(* The theorems *)

\* Every step keeps the invariant.
LEMMA StepInv == IInv /\ [Next]_vars => IInv'
<1> SUFFICES ASSUME IInv, [Next]_vars PROVE IInv'
  OBVIOUS
<1>1. ASSUME NEW o \in Inputs, TakeOrder(o)
      PROVE  IInv'
  <2>1. <<>> \in Seq(Item)
    OBVIOUS
  <2>2. QED
    BY <1>1, <2>1, TakeRow DEF TakeOrder
<1>2. ASSUME NEW o \in Inputs, TakeFok(o)
      PROVE  IInv'
  <2>1. fromId + 1 \in SeqIds /\ NewOrder(o) \in OrderRecord
    BY <1>2, LoadFacts, NewOrderTyped DEF TakeFok
  <2>2. <<>> \in Seq(Item) /\ <<TakerItem(fromId + 1, NewOrder(o))>> \in Seq(Item)
    BY <2>1, TakerItemTyped
  <2>3. QED
    BY <1>2, <2>2, TakeRow DEF TakeFok
<1>3. ASSUME NEW o \in Inputs, TakeUnrouted(o)
      PROVE  IInv'
  <2>1. <<>> \in Seq(Item)
    OBVIOUS
  <2>2. QED
    BY <1>3, <2>1, TakeRow DEF TakeUnrouted
<1>4. ASSUME NEW o \in Inputs, TakeSystemCancel(o)
      PROVE  IInv'
  <2> DEFINE item == [id |-> fromId + 1, role |-> "taker", amount |-> o.amount,
                      price |-> 0, state |-> "Canceled"]
  <2>1. fromId + 1 \in SeqIds
    BY <1>4, LoadFacts DEF TakeSystemCancel
  <2>2. o.amount \in Nat
    BY InputAssumption DEF Terms
  <2>3. item \in Item
    BY <2>1, <2>2 DEF Item, OrderState
  <2>4. results' \in Seq(Item)
    BY <1>4, <2>3 DEF TakeSystemCancel
  <2>5. Dequeue({})
    BY <1>4 DEF TakeSystemCancel, Dequeue
  <2>6. QED
    BY <1>4, <2>4, <2>5, TakeCancelRow DEF TakeSystemCancel
<1>5. ASSUME NEW i \in SeqIds, TakeCancel(i)
      PROVE  IInv'
  <2>1. phase' = "idle"
    BY <1>5, DequeueWorks DEF TakeCancel, Find
  <2>2. CancelItem(i, Find(i)) \in Item
    <3>1. Find(i) \in BOOLEAN /\ (Find(i) => i \in cache)
      BY DEF Find
    <3>2. QED
      BY <3>1, CancelItemTyped
  <2>3. results' \in Seq(Item)
    BY <1>5, <2>2 DEF TakeCancel
  <2>4. QED
    BY <1>5, <2>1, <2>3, TakeCancelRow DEF TakeCancel
<1>6. ASSUME NEW ids \in BatchLists, TakeBatchCancel(ids)
      PROVE  IInv'
  <2> DEFINE found(k) == Find(ids[k]) /\ \A j \in 1 .. k - 1 : ids[j] # ids[k]
             gone == {ids[k] : k \in DOMAIN ids}
  <2>1. /\ Load(NoOrder)
        /\ phase' = IF \E i \in gone : Find(i) /\ DequeueFails(i)
                    THEN "dead" ELSE "idle"
        /\ results' = [k \in 1 .. Len(ids) |-> CancelItem(ids[k], found(k))]
        /\ Dequeue(gone)
    BY <1>6 DEF TakeBatchCancel
  <2>2. phase' = "idle"
    BY <2>1, DequeueWorks DEF Find
  <2>3. ids \in Seq(SeqIds)
    BY InputAssumption
  <2>4. \A k \in 1 .. Len(ids) : CancelItem(ids[k], found(k)) \in Item
    <3> TAKE k \in 1 .. Len(ids)
    <3>1. ids[k] \in SeqIds
      BY <2>3
    <3>2. found(k) \in BOOLEAN /\ (found(k) => ids[k] \in cache)
      BY DEF Find
    <3> HIDE DEF found
    <3>3. QED
      BY <3>1, <3>2, CancelItemTyped
  <2>5. results' \in Seq(Item)
    <3>1. Len(ids) \in Nat
      BY <2>3
    <3> HIDE DEF found
    <3>2. QED
      BY <2>1, <2>4, <3>1
  <2>6. QED
    BY <2>1, <2>2, <2>5, TakeCancelRow
<1>7. CASE MatchHead
  BY <1>7, MatchHeadInv
<1>8. CASE Abort
  BY <1>8, AbortInv
<1>9. CASE Finish
  <2>1. Taker \in OrderRecord
    BY <1>9 DEF Finish, IInv, TakerInHand
  <2>2. QED
    BY <1>9, <2>1, LeaveInv DEF Finish
<1>10. CASE Rest
  BY <1>10, RestInv
<1>11. CASE GiveUp
  <2> DEFINE o == IF Taker.type = "Fok" THEN SetState(Taker, "Canceled") ELSE Taker
  <2>1. Taker \in OrderRecord
    BY <1>11 DEF GiveUp, Looping, IInv, TakerInHand
  <2>2. o \in OrderRecord
    BY <2>1 DEF SetState, OrderRecord, OrderState
  <2>3. QED
    BY <1>11, <2>2, LeaveInv DEF GiveUp, Looping
<1>12. CASE BreakCircuit
  <2>1. Taker \in OrderRecord
    BY <1>12 DEF BreakCircuit, Looping, IInv, TakerInHand
  <2>2. SetState(Taker, "CircuitCanceled") \in OrderRecord
    BY <2>1 DEF SetState, OrderRecord, OrderState
  <2>3. QED
    BY <1>12, <2>2, LeaveInv DEF BreakCircuit, Looping
<1>13. CASE UNCHANGED vars
  <2> USE <1>13 DEF vars
  <2>1. BookInStep' /\ Uncrossed' /\ Priced'
    BY KeepBook
  <2>2. TypeOK' /\ Older' /\ TakerInHand'
    BY DEF IInv, TypeOK, Older, TakerInHand, Taker, PaysCash
  <2>3. KilledOnlyByRounding'
    BY DEF IInv, KilledOnlyByRounding, HasTaker, Taker, PaysCash, Counterparties,
           orderSet, IsHead, Before, unitPrice
  <2>4. QED
    BY <2>1, <2>2, <2>3 DEF IInv
<1>14. QED
  BY <1>1, <1>2, <1>3, <1>4, <1>5, <1>6, <1>7, <1>8, <1>9, <1>10, <1>11, <1>12,
     <1>13 DEF Next, Loop, Idle

\* Every state of the engine satisfies the inductive invariant.
THEOREM Invariance == Spec => []IInv
<1>1. QED
  BY InitInv, StepInv, PTL DEF Spec

\* The variables keep their types: no amount is ever negative.
THEOREM TypeCorrect == Spec => []TypeOK
<1>1. IInv => TypeOK
  BY DEF IInv
<1>2. QED
  BY <1>1, Invariance, PTL

\* The index and the two trees of the book never disagree.
THEOREM BookStaysInStep == Spec => []BookInStep
<1>1. IInv => BookInStep
  BY DEF IInv
<1>2. QED
  BY <1>1, Invariance, PTL

\* The book is never crossed, not even in the middle of a loop.
THEOREM NeverCrossed == Spec => []Uncrossed
<1>1. IInv => Uncrossed
  BY DEF IInv
<1>2. QED
  BY <1>1, Invariance, PTL

\* No sequence of rows reaches a Fatal of the book or the matcher other than
\* the unrouted type and the rounded division.
THEOREM FatalsUnreachable == Spec => []KilledOnlyByRounding
<1>1. IInv => KilledOnlyByRounding
  BY DEF IInv
<1>2. QED
  BY <1>1, Invariance, PTL
=============================================================================
