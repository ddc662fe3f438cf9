---------------------------- MODULE CandlesProofs ----------------------------
(***************************************************************************)
(* The candles of the quotes for every clock, every number of results and  *)
(* restarts, every day and limit.                                          *)
(*                                                                         *)
(* What the klines and the buckets show says too little to be kept by a    *)
(* step: it does not determine the open, high and low prices that a late   *)
(* result redraws.  CInv compares them with a history instead: the klines  *)
(* that every window would have if every result were drawn, in order, into *)
(* its own window and all later ones.                                      *)
(***************************************************************************)
EXTENDS Candles, FiniteSetTheorems, WellFoundedInduction, TLAPS

-----------------------------------------------------------------------------
(* Numbers *)

\* A set of numbers has a least one.
LEMMA LeastNumber ==
  ASSUME NEW S, S \subseteq Nat, S # {}
  PROVE  \E n \in S : \A k \in S : n <= k
<1> DEFINE T == {0 .. k : k \in S}
           R == StrictSubsetOrdering(Nat)
<1>1. T \subseteq FiniteSubsetsOf(Nat)
  <2>1. \A k \in S : 0 .. k \subseteq Nat /\ IsFiniteSet(0 .. k)
    BY FS_Interval
  <2>2. QED
    BY <2>1 DEF FiniteSubsetsOf
<1>2. IsWellFoundedOn(R, FiniteSubsetsOf(Nat))
  BY FS_StrictSubsetOrderingWellFounded
<1>3. T # {}
  OBVIOUS
<1>4. PICK U \in T : \A V \in T : ~(<<V, U>> \in R)
  <2> HIDE DEF T, R
  <2>1. QED
    BY <1>1, <1>2, <1>3, WFMin
<1>5. PICK n \in S : U = 0 .. n
  OBVIOUS
<1>6. ASSUME NEW k \in S, ~(n <= k)
      PROVE  FALSE
  <2>1. 0 .. k \subseteq 0 .. n /\ n \in 0 .. n /\ n \notin 0 .. k
    BY <1>6
  <2>2. 0 .. k \in SUBSET Nat /\ 0 .. n \in SUBSET Nat
    OBVIOUS
  <2>3. <<0 .. k, U>> \in R
    BY <1>5, <2>1, <2>2 DEF StrictSubsetOrdering
  <2>4. 0 .. k \in T
    OBVIOUS
  <2> HIDE DEF T, R
  <2>5. QED
    BY <1>4, <2>3, <2>4
<1>7. QED
  BY <1>6

\* Of some of the numbers to N, and not the first, one comes after one that is
\* not among them.
LEMMA FirstBad ==
  ASSUME NEW N \in Nat, NEW Bad, Bad \subseteq 0 .. N, Bad # {}, 0 \notin Bad
  PROVE  \E n \in 1 .. N : n \in Bad /\ n - 1 \in 0 .. N /\ n - 1 \notin Bad
<1>1. PICK n \in Bad : \A k \in Bad : n <= k
  <2>1. Bad \subseteq Nat
    OBVIOUS
  <2>2. QED
    BY <2>1, LeastNumber
<1>2. n \in 1 .. N
  BY <1>1
<1>3. n - 1 \in 0 .. N /\ n - 1 \notin Bad
  BY <1>1, <1>2
<1>4. QED
  BY <1>1, <1>2, <1>3

\* A finite set of integers has a greatest one.
LEMMA GreatestExists ==
  ASSUME NEW S, S \subseteq Int, IsFiniteSet(S), S # {}
  PROVE  \E n \in S : \A k \in S : n >= k
<1> DEFINE Bad == {u \in SUBSET S : u # {} /\ ~\E n \in u : \A k \in u : n >= k}
           R == StrictSubsetOrdering(S)
<1> SUFFICES ASSUME Bad # {} PROVE FALSE
  OBVIOUS
<1>1. Bad \subseteq FiniteSubsetsOf(S) /\ IsWellFoundedOn(R, FiniteSubsetsOf(S))
  <2> DEFINE NoGreatest(u) == u # {} /\ ~\E n \in u : \A k \in u : n >= k
  <2> HIDE DEF NoGreatest
  <2>1. {u \in SUBSET S : NoGreatest(u)} \subseteq FiniteSubsetsOf(S)
    BY FS_Subset DEF FiniteSubsetsOf
  <2>2. IsWellFoundedOn(R, FiniteSubsetsOf(S))
    BY FS_StrictSubsetOrderingWellFounded
  <2> USE DEF NoGreatest
  <2>3. QED
    BY <2>1, <2>2
<1>2. PICK u \in Bad : \A v \in Bad : ~(<<v, u>> \in R)
  <2> HIDE DEF Bad, R
  <2>1. QED
    BY <1>1, WFMin
<1>3. u \in SUBSET S /\ u # {} /\ ~\E n \in u : \A k \in u : n >= k
  OBVIOUS
<1>4. PICK x \in u : TRUE
  BY <1>3
<1>5. u \ {x} \notin Bad
  <2>1. <<u \ {x}, u>> \in R
    BY <1>3, <1>4 DEF StrictSubsetOrdering
  <2>2. QED
    BY <1>2, <2>1
<1>6. CASE u \ {x} = {}
  <2>1. \A k \in u : x >= k
    BY <1>3, <1>4, <1>6
  <2>2. QED
    BY <1>3, <1>4, <2>1
<1>7. CASE u \ {x} # {}
  <2>1. PICK m \in u \ {x} : \A k \in u \ {x} : m >= k
    BY <1>3, <1>5, <1>7
  <2>2. m \in Int /\ x \in Int /\ \A k \in u : k \in Int
    BY <1>3, <1>4, <2>1
  <2>3. CASE m >= x
    BY <1>3, <2>1, <2>2, <2>3
  <2>4. CASE ~(m >= x)
    <3>1. \A k \in u : x >= k
      BY <2>1, <2>2, <2>4
    <3>2. QED
      BY <1>3, <1>4, <3>1
  <2>5. QED
    BY <2>3, <2>4
<1>8. QED
  BY <1>6, <1>7

\* What Max picks.
LEMMA MaxIs ==
  ASSUME NEW S, S \subseteq Int, IsFiniteSet(S), S # {}
  PROVE  /\ Max(S) \in S /\ Max(S) \in Int
         /\ \A k \in S : k <= Max(S)
         /\ \A x \in S : (\A k \in S : k <= x) => Max(S) = x
<1>1. Max(S) \in S /\ \A k \in S : Max(S) >= k
  BY GreatestExists DEF Max
<1>2. Max(S) \in Int /\ \A k \in S : k \in Int
  BY <1>1
<1>3. ASSUME NEW x \in S, \A k \in S : k <= x
      PROVE  Max(S) = x
  BY <1>1, <1>2, <1>3
<1>4. \A k \in S : k <= Max(S)
  BY <1>1, <1>2
<1>5. QED
  BY <1>1, <1>2, <1>3, <1>4

\* What Min picks.
LEMMA MinIs ==
  ASSUME NEW S, S \subseteq Nat, S # {}
  PROVE  /\ Min(S) \in S /\ Min(S) \in Nat
         /\ \A k \in S : Min(S) <= k
         /\ \A x \in S : (\A k \in S : x <= k) => Min(S) = x
<1>1. Min(S) \in S /\ \A k \in S : Min(S) <= k
  BY LeastNumber DEF Min
<1>2. Min(S) \in Nat /\ \A k \in S : k \in Nat
  BY <1>1
<1>3. ASSUME NEW x \in S, \A k \in S : x <= k
      PROVE  Min(S) = x
  BY <1>1, <1>2, <1>3
<1>4. QED
  BY <1>1, <1>2, <1>3

\* The lesser and the greater of two.
LEMMA OfTwo ==
  ASSUME NEW a \in Nat, NEW b \in Nat
  PROVE  /\ Min({a, b}) = IF a <= b THEN a ELSE b
         /\ Max({a, b}) = IF a <= b THEN b ELSE a
<1>1. {a, b} \subseteq Nat /\ {a, b} \subseteq Int /\ {a, b} # {} /\ IsFiniteSet({a, b})
  <2>1. IsFiniteSet({a} \cup {b})
    BY FS_AddElement, FS_Singleton
  <2>2. {a} \cup {b} = {a, b}
    OBVIOUS
  <2>3. IsFiniteSet({a, b})
    BY <2>1, <2>2
  <2>4. QED
    BY <2>3
<1>2. Min({a, b}) = IF a <= b THEN a ELSE b
  BY <1>1, MinIs
<1>3. Max({a, b}) = IF a <= b THEN b ELSE a
  BY <1>1, MaxIs
<1>4. QED
  BY <1>2, <1>3

-----------------------------------------------------------------------------
(* One result and one kline *)

Result == [ts : Nat, fills : Seq(Nat \ {0})]

\* The prices of a kline are those of a kline, and there is none only before the
\* first trade.
Whole(k) ==
  /\ k.low <= k.open /\ k.low <= k.close /\ k.open <= k.high /\ k.close <= k.high
  /\ k.low = 0 => k.close = 0 /\ k.count = 0

\* Kline k of window w after result m, however late.
Drawn(k, w, m) ==
  IF isPendingOrder(m) \/ w < m.ts THEN k
  ELSE IF w = m.ts THEN Traded(k, m)
  ELSE Redrawn(k, Price(m))

\* A result with trades has a first and a last price, all of them positive.
LEMMA FillsAre ==
  ASSUME NEW m \in Result, ~isPendingOrder(m)
  PROVE  /\ Len(m.fills) \in Nat \ {0}
         /\ Range(m.fills) \subseteq Nat \ {0} /\ Range(m.fills) \subseteq Int
         /\ IsFiniteSet(Range(m.fills))
         /\ getStartPrice(m) \in Range(m.fills) /\ Price(m) \in Range(m.fills)
<1>1. m.fills \in Seq(Nat \ {0}) /\ m.fills # <<>>
  BY DEF Result, isPendingOrder
<1>2. Len(m.fills) \in Nat \ {0} /\ DOMAIN m.fills = 1 .. Len(m.fills)
  BY <1>1
<1>3. Range(m.fills) = {m.fills[j] : j \in 1 .. Len(m.fills)}
  BY <1>2 DEF Range
<1>4. Range(m.fills) \subseteq Nat \ {0}
  BY <1>1, <1>2, <1>3
<1>5. IsFiniteSet(Range(m.fills))
  <2>1. IsFiniteSet(1 .. Len(m.fills))
    BY <1>2, FS_Interval
  <2>2. m.fills \in Surjection(1 .. Len(m.fills), Range(m.fills))
    BY <1>1, <1>2, <1>3 DEF Surjection
  <2>3. QED
    BY <2>1, <2>2, FS_Surjection
<1>6. getStartPrice(m) \in Range(m.fills)
  BY <1>1, <1>2, <1>3 DEF getStartPrice
<1>7. Price(m) \in Range(m.fills)
  BY <1>2, <1>3 DEF Price, Last
<1>8. QED
  BY <1>2, <1>4, <1>5, <1>6, <1>7

\* Adding prices to those of a kline keeps them those of a kline.
LEMMA TradedIs ==
  ASSUME NEW k \in KlineRecord, NEW m \in Result, ~isPendingOrder(m)
  PROVE  /\ Traded(k, m) \in KlineRecord
         /\ Traded(k, m).count = k.count + Len(m.fills)
         /\ Traded(k, m).count # 0
         /\ Traded(k, m).close = Price(m)
         /\ Traded(k, m).open = IF k.count = 0 THEN getStartPrice(m) ELSE k.open
         /\ Traded(k, m).high = Max(IF k.count = 0 THEN Range(m.fills)
                                    ELSE {k.high} \cup Range(m.fills))
         /\ Traded(k, m).low = Min(IF k.count = 0 THEN Range(m.fills)
                                   ELSE {k.low} \cup Range(m.fills))
         /\ Whole(k) \/ k.count = 0 => Whole(Traded(k, m))
<1> DEFINE fresh == IF k.count = 0 THEN Flat(getStartPrice(m)) ELSE k
           H == {fresh.high} \cup Range(m.fills)
           L == {fresh.low} \cup Range(m.fills)
<1>1. /\ Len(m.fills) \in Nat \ {0}
      /\ Range(m.fills) \subseteq Nat \ {0} /\ Range(m.fills) \subseteq Int
      /\ IsFiniteSet(Range(m.fills))
      /\ getStartPrice(m) \in Range(m.fills) /\ Price(m) \in Range(m.fills)
  BY FillsAre
<1>2. /\ k.open \in Nat /\ k.close \in Nat /\ k.high \in Nat /\ k.low \in Nat
      /\ k.count \in Nat
  BY DEF KlineRecord
<1>3. fresh.open \in Nat /\ fresh.high \in Nat /\ fresh.low \in Nat
  BY <1>1, <1>2 DEF Flat
<1>4. H \subseteq Int /\ IsFiniteSet(H) /\ H # {} /\ L \subseteq Nat /\ L # {} /\ H \subseteq Nat
  <2>1. H = Range(m.fills) \cup {fresh.high}
    OBVIOUS
  <2>2. IsFiniteSet(H)
    BY <1>1, <2>1, FS_AddElement
  <2> HIDE DEF fresh
  <2>3. QED
    BY <1>1, <1>3, <2>2
<1>5. /\ Traded(k, m).open = fresh.open /\ Traded(k, m).close = Price(m)
      /\ Traded(k, m).high = Max(H) /\ Traded(k, m).low = Min(L)
      /\ Traded(k, m).count = k.count + Len(m.fills)
      /\ Traded(k, m) = [open |-> fresh.open, close |-> Price(m), high |-> Max(H),
                         low |-> Min(L), count |-> k.count + Len(m.fills)]
  BY DEF Traded
<1>6. Max(H) \in H /\ \A x \in H : x <= Max(H)
  <2> HIDE DEF H
  <2>1. QED
    BY <1>4, MaxIs
<1>7. Min(L) \in L /\ \A x \in L : Min(L) <= x
  <2> HIDE DEF L
  <2>1. QED
    BY <1>4, MinIs
<1>8. Max(H) \in Nat /\ Min(L) \in Nat
  <2> HIDE DEF H, L
  <2>1. QED
    BY <1>4, <1>6, <1>7
<1>9. Traded(k, m) \in KlineRecord
  <2> HIDE DEF H, L, fresh
  <2>1. QED
    BY <1>1, <1>2, <1>3, <1>5, <1>8 DEF KlineRecord
<1>10. fresh.open = IF k.count = 0 THEN getStartPrice(m) ELSE k.open
  BY DEF Flat
<1>11. H = IF k.count = 0 THEN Range(m.fills) ELSE {k.high} \cup Range(m.fills)
  BY <1>1 DEF Flat
<1>12. L = IF k.count = 0 THEN Range(m.fills) ELSE {k.low} \cup Range(m.fills)
  BY <1>1 DEF Flat
<1>13. ASSUME Whole(k) \/ k.count = 0
       PROVE  Whole(Traded(k, m))
  <2>1. fresh.low <= fresh.open /\ fresh.open <= fresh.high
    BY <1>1, <1>2, <1>13 DEF Flat, Whole
  <2>2. fresh.high \in H /\ fresh.low \in L /\ Price(m) \in H /\ Price(m) \in L
    BY <1>1
  <2>a. L \subseteq Nat \ {0}
    <3>1. fresh.low # 0
      BY <1>1, <1>13 DEF Flat, Whole
    <3> HIDE DEF fresh
    <3>2. QED
      BY <1>1, <1>3, <3>1
  <2>b. Min(L) # 0
    <3> HIDE DEF L
    <3>1. QED
      BY <1>7, <2>a
  <2>3. fresh.high <= Max(H) /\ Price(m) <= Max(H) /\ Min(L) <= fresh.low /\ Min(L) <= Price(m)
    <3> HIDE DEF H, L, fresh
    <3>1. QED
      BY <1>6, <1>7, <2>2
  <2> HIDE DEF H, L, fresh
  <2>4. QED
    BY <1>1, <1>3, <1>5, <1>8, <2>b, <2>1, <2>3 DEF Whole
<1>14. Traded(k, m).count # 0
  <2> HIDE DEF H, L, fresh
  <2>1. QED
    BY <1>1, <1>2, <1>5
<1> HIDE DEF H, L, fresh
<1>15. QED
  BY <1>5, <1>9, <1>10, <1>11, <1>12, <1>13, <1>14

\* A redrawn kline has one price and its trades.
LEMMA RedrawnIs ==
  ASSUME NEW k \in KlineRecord, NEW price \in Nat
  PROVE  /\ Redrawn(k, price) \in KlineRecord
         /\ Redrawn(k, price).count = k.count
         /\ Redrawn(k, price).close = price
         /\ k.count = 0 => Redrawn(k, price) = Flat(price)
         /\ price # 0 => Whole(Redrawn(k, price))
         /\ Flat(price) \in KlineRecord /\ Flat(price).close = price
         /\ Flat(price).count = 0 /\ Whole(Flat(price))
BY DEF Redrawn, Flat, KlineRecord, Whole

\* The kline before the first trade.
LEMMA BlankIs ==
  Blank \in KlineRecord /\ Whole(Blank) /\ Blank = Flat(0) /\ Blank.count = 0 /\ Blank.close = 0
BY DEF Blank, Flat, KlineRecord, Whole

\* What a result leaves of a kline, drawn or not.
LEMMA DrawnIs ==
  ASSUME NEW k \in KlineRecord, NEW w \in Int, NEW m \in Result
  PROVE  /\ Drawn(k, w, m) \in KlineRecord
         /\ Whole(k) => Whole(Drawn(k, w, m))
         /\ Drawn(k, w, m).count =
              IF ~isPendingOrder(m) /\ w = m.ts THEN k.count + Len(m.fills) ELSE k.count
         /\ Drawn(k, w, m).close =
              IF ~isPendingOrder(m) /\ m.ts <= w THEN Price(m) ELSE k.close
<1>1. m.ts \in Nat
  BY DEF Result
<1>2. CASE isPendingOrder(m) \/ w < m.ts
  BY <1>1, <1>2 DEF Drawn
<1>3. CASE ~isPendingOrder(m) /\ w = m.ts
  <2>1. Drawn(k, w, m) = Traded(k, m) /\ m.ts <= w
    BY <1>1, <1>3 DEF Drawn
  <2>2. /\ Traded(k, m) \in KlineRecord /\ Traded(k, m).close = Price(m)
        /\ Traded(k, m).count = k.count + Len(m.fills)
        /\ Whole(k) => Whole(Traded(k, m))
    BY <1>3, TradedIs
  <2>3. QED
    BY <1>3, <2>1, <2>2
<1>4. CASE ~isPendingOrder(m) /\ m.ts < w
  <2>1. Drawn(k, w, m) = Redrawn(k, Price(m)) /\ Price(m) \in Nat \ {0} /\ m.ts <= w /\ w # m.ts
    BY <1>1, <1>4, FillsAre DEF Drawn
  <2>2. /\ Redrawn(k, Price(m)) \in KlineRecord /\ Redrawn(k, Price(m)).close = Price(m)
        /\ Redrawn(k, Price(m)).count = k.count /\ Whole(Redrawn(k, Price(m)))
    BY <2>1, RedrawnIs
  <2>3. QED
    BY <1>4, <2>1, <2>2
<1>5. QED
  BY <1>1, <1>2, <1>3, <1>4

-----------------------------------------------------------------------------
(* The summary of the buckets *)

\* The summary sum and one bucket more.
AddBucket(sum, b) ==
  [open  |-> Earliest(sum.open, b.open),
   close |-> b.close,
   high  |-> Max({sum.high, b.high}),
   low   |-> Lowest(sum.low, b.low),
   count |-> sum.count + b.count]

\* The buckets in the order in which they are added, the oldest first.
OldestFirst == [j \in 1 .. DaySize |-> DaySize - j]

\* g sums up the buckets of every set of places in that order.
Sums(g, mk, S) ==
  g = [s \in SUBSET S |->
         IF s = {} THEN Blank
         ELSE LET x == Max(s) IN AddBucket(g[s \ {x}], mk.bucket[OldestFirst[x]])]

\* Without its greatest place a set of places to k has places to k - 1.
LEMMA WithoutGreatest ==
  ASSUME NEW k \in Nat \ {0}, NEW s \in SUBSET (1 .. k), s # {}
  PROVE  Max(s) \in s /\ s \ {Max(s)} \in SUBSET (1 .. k - 1)
<1>1. IsFiniteSet(s) /\ s \subseteq Int
  <2>1. IsFiniteSet(1 .. k) /\ 1 .. k \subseteq Int
    BY FS_Interval
  <2>2. IsFiniteSet(s)
    BY <2>1, FS_Subset
  <2>3. QED
    BY <2>1, <2>2
<1>2. Max(s) \in s /\ \A x \in s : x <= Max(s)
  BY <1>1, MaxIs
<1>3. ASSUME NEW x \in s, x # Max(s)
      PROVE  x \in 1 .. k - 1
  <2>1. x \in 1 .. k /\ Max(s) \in 1 .. k /\ x <= Max(s)
    BY <1>2
  <2>2. QED
    BY <1>3, <2>1
<1>4. QED
  BY <1>2, <1>3

\* There is such a g.
LEMMA SumsExist ==
  ASSUME NEW mk, NEW N \in Nat
  PROVE  \E g : Sums(g, mk, 1 .. N)
<1> DEFINE Bad == {k \in 0 .. N : ~\E g : Sums(g, mk, 1 .. k)}
<1> SUFFICES ASSUME Bad # {} PROVE FALSE
  OBVIOUS
<1>1. 0 \notin Bad
  <2> DEFINE g == [s \in SUBSET (1 .. 0) |-> Blank]
  <2>1. \A s \in SUBSET (1 .. 0) : s = {}
    OBVIOUS
  <2>2. Sums(g, mk, 1 .. 0)
    BY <2>1 DEF Sums
  <2>3. QED
    BY <2>2
<1>2. PICK k \in 1 .. N : k \in Bad /\ k - 1 \in 0 .. N /\ k - 1 \notin Bad
  <2> DEFINE B == Bad
  <2>1. B \subseteq 0 .. N /\ B # {} /\ 0 \notin B
    BY <1>1
  <2> HIDE DEF B
  <2>2. \E k \in 1 .. N : k \in B /\ k - 1 \in 0 .. N /\ k - 1 \notin B
    BY <2>1, FirstBad
  <2>3. QED
    BY <2>2 DEF B
<1>3. PICK h : Sums(h, mk, 1 .. k - 1)
  BY <1>2
<1> DEFINE G(s) == IF s = {} THEN Blank
                   ELSE LET x == Max(s) IN AddBucket(h[s \ {x}], mk.bucket[OldestFirst[x]])
           g == [s \in SUBSET (1 .. k) |-> G(s)]
<1>4. ASSUME NEW t \in SUBSET (1 .. k - 1)
      PROVE  g[t] = h[t]
  <2>1. t \in SUBSET (1 .. k)
    BY <1>2
  <2>2. g[t] = G(t)
    BY <2>1
  <2>3. h[t] = G(t)
    BY <1>3 DEF Sums
  <2>4. QED
    BY <2>2, <2>3
<1>5. ASSUME NEW s \in SUBSET (1 .. k)
      PROVE  G(s) = IF s = {} THEN Blank
                    ELSE LET x == Max(s) IN AddBucket(g[s \ {x}], mk.bucket[OldestFirst[x]])
  <2>1. CASE s = {}
    BY <2>1
  <2>2. CASE s # {}
    <3>1. s \ {Max(s)} \in SUBSET (1 .. k - 1)
      BY <1>2, <2>2, WithoutGreatest
    <3>2. g[s \ {Max(s)}] = h[s \ {Max(s)}]
      BY <1>4, <3>1
    <3> HIDE DEF g
    <3>3. QED
      BY <2>2, <3>2
  <2>3. QED
    BY <2>1, <2>2
<1>6. g = [s \in SUBSET (1 .. k) |->
             IF s = {} THEN Blank
             ELSE LET x == Max(s) IN AddBucket(g[s \ {x}], mk.bucket[OldestFirst[x]])]
  <2> HIDE DEF G
  <2>1. QED
    BY <1>5
<1> HIDE DEF g
<1>7. Sums(g, mk, 1 .. k)
  BY <1>6 DEF Sums
<1>8. QED
  BY <1>2, <1>7

\* The summary adds the buckets one after the other.
LEMMA SummaryIs ==
  ASSUME NEW mk
  PROVE  \E s : /\ s[0] = Blank /\ s[DaySize] = Summary(mk)
                /\ \A k \in 1 .. DaySize : s[k] = AddBucket(s[k - 1], mk.bucket[DaySize - k])
<1>1. DaySize \in Nat \ {0}
  BY KlineAssumption
<1> DEFINE g == CHOOSE h : Sums(h, mk, DOMAIN OldestFirst)
<1>2. DOMAIN OldestFirst = 1 .. DaySize /\ \A k \in 1 .. DaySize : OldestFirst[k] = DaySize - k
  BY DEF OldestFirst
<1>3. Sums(g, mk, 1 .. DaySize)
  <2>1. \E h : Sums(h, mk, DOMAIN OldestFirst)
    BY <1>1, <1>2, SumsExist
  <2> HIDE DEF Sums
  <2>2. Sums(g, mk, DOMAIN OldestFirst)
    BY <2>1
  <2> HIDE DEF g
  <2>3. QED
    BY <1>2, <2>2
<1>4. Summary(mk) = g[DOMAIN OldestFirst]
  BY DEF Summary, FoldLeft, MapThenFoldSet, Sums, AddBucket, OldestFirst
<1> HIDE DEF g
<1> DEFINE s == [k \in 0 .. DaySize |-> g[1 .. k]]
<1>5. s[0] = Blank
  <2>1. 1 .. 0 = {} /\ 1 .. 0 \in SUBSET (1 .. DaySize) /\ 0 \in 0 .. DaySize
    BY <1>1
  <2>2. g[1 .. 0] = Blank
    BY <1>3, <2>1 DEF Sums
  <2>3. QED
    BY <2>1, <2>2
<1>6. s[DaySize] = Summary(mk)
  BY <1>1, <1>2, <1>4
<1>7. ASSUME NEW k \in 1 .. DaySize
      PROVE  s[k] = AddBucket(s[k - 1], mk.bucket[DaySize - k])
  <2>1. /\ 1 .. k \in SUBSET (1 .. DaySize) /\ 1 .. k # {} /\ (1 .. k) \ {k} = 1 .. k - 1
        /\ 1 .. k \in SUBSET Int /\ k \in 1 .. k /\ \A x \in 1 .. k : x <= k
        /\ k \in 0 .. DaySize /\ k - 1 \in 0 .. DaySize /\ IsFiniteSet(1 .. k)
    <3>1. k \in Nat \ {0} /\ k <= DaySize
      BY <1>1
    <3>2. IsFiniteSet(1 .. k)
      BY <3>1, FS_Interval
    <3>3. (1 .. k) \ {k} = 1 .. k - 1
      BY <3>1
    <3>4. 1 .. k \in SUBSET (1 .. DaySize) /\ k \in 1 .. k /\ \A x \in 1 .. k : x <= k
      BY <1>1, <3>1
    <3>5. QED
      BY <1>1, <3>1, <3>2, <3>3, <3>4
  <2>2. Max(1 .. k) = k
    BY <2>1, MaxIs
  <2>3. g[1 .. k] = AddBucket(g[(1 .. k) \ {k}], mk.bucket[OldestFirst[k]])
    BY <1>3, <2>1, <2>2 DEF Sums
  <2>4. s[k] = g[1 .. k] /\ s[k - 1] = g[1 .. k - 1]
    BY <2>1
  <2> HIDE DEF s
  <2>5. QED
    BY <1>2, <2>1, <2>3, <2>4
<1> HIDE DEF s
<1>8. QED
  BY <1>5, <1>6, <1>7

-----------------------------------------------------------------------------
(* Klines, market and summary after one call *)

\* ks are klines of windows to now.
KlinesTyped(ks, now) ==
  DOMAIN ks \subseteq 0 .. now /\ \A w \in DOMAIN ks : ks[w] \in KlineRecord

\* mk is a market of a window to now.
MarketTyped(mk, now) == mk.top \in 0 .. now /\ mk.bucket \in [Buckets -> KlineRecord]

\* What getCurrentKline leaves: the klines there were, then flat ones to now.
LEMMA CurrentIs ==
  ASSUME NEW now \in Nat, NEW ks, KlinesTyped(ks, now)
  PROVE  LET new == getCurrentKline(ks, now)
         IN  /\ KlinesTyped(new, now) /\ now \in DOMAIN new
             /\ DOMAIN new = DOMAIN ks \cup MissingAt(ks, now)
             /\ \A w \in DOMAIN ks : new[w] = ks[w]
             /\ DOMAIN ks = {} => DOMAIN new = {now} /\ new[now] = Blank
             /\ DOMAIN ks # {} =>
                  \E top \in DOMAIN ks :
                    /\ \A w \in DOMAIN ks : w <= top
                    /\ DOMAIN new = DOMAIN ks \cup (top + 1 .. now)
                    /\ \A w \in top + 1 .. now : new[w] = Flat(ks[top].close)
<1> DEFINE new == getCurrentKline(ks, now)
<1>1. /\ DOMAIN new = DOMAIN ks \cup MissingAt(ks, now)
      /\ \A w \in DOMAIN ks : new[w] = ks[w]
      /\ \A w \in MissingAt(ks, now) : w \notin DOMAIN ks =>
           new[w] = IF DOMAIN ks = {} THEN Blank ELSE Flat(ks[Max(DOMAIN ks)].close)
  BY DEF getCurrentKline
<1> HIDE DEF new
<1>2. CASE DOMAIN ks = {}
  <2>1. DOMAIN new = {now} /\ new[now] = Blank
    BY <1>1, <1>2 DEF MissingAt
  <2>2. KlinesTyped(new, now)
    BY <2>1, BlankIs DEF KlinesTyped
  <2>3. QED
    BY <1>1, <1>2, <2>1, <2>2 DEF new
<1>3. CASE DOMAIN ks # {}
  <2> DEFINE top == Max(DOMAIN ks)
  <2>1. DOMAIN ks \subseteq Int /\ IsFiniteSet(DOMAIN ks)
    <3>1. IsFiniteSet(0 .. now)
      BY FS_Interval
    <3>2. QED
      BY <3>1, FS_Subset DEF KlinesTyped
  <2>2. top \in DOMAIN ks /\ \A w \in DOMAIN ks : w <= top
    BY <1>3, <2>1, MaxIs
  <2>3. top \in 0 .. now /\ ks[top] \in KlineRecord
    BY <2>2 DEF KlinesTyped
  <2>4. \A w \in top + 1 .. now : w \notin DOMAIN ks
    BY <2>1, <2>2, <2>3
  <2>5. MissingAt(ks, now) = top + 1 .. now
    <3>1. CASE now \in DOMAIN ks
      <4>1. top = now
        BY <2>2, <2>3, <3>1
      <4>2. MissingAt(ks, now) = {}
        BY <3>1 DEF MissingAt
      <4> HIDE DEF top
      <4>3. QED
        BY <2>3, <4>1, <4>2
    <3>2. CASE now \notin DOMAIN ks
      BY <1>3, <3>2 DEF MissingAt
    <3>3. QED
      BY <3>1, <3>2
  <2>6. \A w \in top + 1 .. now : new[w] = Flat(ks[top].close)
    BY <1>1, <1>3, <2>4, <2>5
  <2> HIDE DEF top
  <2>7. KlinesTyped(new, now)
    <3>1. Flat(ks[top].close) \in KlineRecord
      BY <2>3 DEF Flat, KlineRecord
    <3>2. DOMAIN new \subseteq 0 .. now
      BY <1>1, <2>3, <2>5 DEF KlinesTyped
    <3>3. QED
      BY <1>1, <2>5, <2>6, <3>1, <3>2 DEF KlinesTyped
  <2>8. now \in DOMAIN new
    BY <1>1, <2>2, <2>3, <2>5
  <2>9. QED
    BY <1>1, <1>3, <2>2, <2>5, <2>6, <2>7, <2>8 DEF new
<1>4. QED
  BY <1>2, <1>3

\* What updateKline leaves: every kline drawn anew, where the result reaches it.
LEMMA UpdatedIs ==
  ASSUME NEW now \in Nat, NEW ks, KlinesTyped(ks, now), NEW m \in Result
  PROVE  LET new == updateKline(ks, m, now)
         IN  /\ KlinesTyped(new, now)
             /\ DOMAIN new = DOMAIN ks \cup DrawnBy(m, now)
             /\ \A w \in DOMAIN ks : w \notin DrawnBy(m, now) => new[w] = ks[w]
             /\ \A w \in DrawnBy(m, now) : new[w] = Drawn(KlineAt(ks, w), w, m)
<1> DEFINE new == updateKline(ks, m, now)
<1>1. m.ts \in Nat
  BY DEF Result
<1>2. DrawnBy(m, now) \subseteq 0 .. now
  BY <1>1 DEF DrawnBy
<1>3. ASSUME NEW w \in DrawnBy(m, now)
      PROVE  new[w] = Drawn(KlineAt(ks, w), w, m)
  <2>1. ~isPendingOrder(m) /\ w \in Int /\ ~(w < m.ts)
    BY <1>1, <1>3 DEF DrawnBy
  <2>2. QED
    BY <1>3, <2>1 DEF updateKline, Drawn
<1>4. /\ DOMAIN new = DOMAIN ks \cup DrawnBy(m, now)
      /\ \A w \in DOMAIN ks : w \notin DrawnBy(m, now) => new[w] = ks[w]
  BY DEF updateKline
<1> HIDE DEF new
<1>5. \A w \in DrawnBy(m, now) : new[w] \in KlineRecord
  <2>1. \A w : KlineAt(ks, w) \in KlineRecord
    BY BlankIs DEF KlineAt, KlinesTyped
  <2>2. QED
    BY <1>2, <1>3, <2>1, DrawnIs
<1>6. KlinesTyped(new, now)
  BY <1>2, <1>4, <1>5 DEF KlinesTyped
<1>7. QED
  BY <1>3, <1>4, <1>6 DEF new

\* The buckets moved on: those of the windows since are flat.
LEMMA ShiftedIs ==
  ASSUME NEW now \in Nat, NEW mk, MarketTyped(mk, now)
  PROVE  LET new == Shifted(mk, now)
         IN  /\ MarketTyped(new, now) /\ new.top = now
             /\ new = [top |-> new.top, bucket |-> new.bucket]
             /\ \A i \in Buckets :
                  new.bucket[i] = IF i < now - mk.top THEN Flat(mk.bucket[0].close)
                                  ELSE mk.bucket[i - (now - mk.top)]
             /\ now = mk.top => new.bucket = mk.bucket
<1> DEFINE new == Shifted(mk, now)
           gap == now - mk.top
           t == Min({gap, DaySize})
<1>1. gap \in Nat /\ DaySize \in Nat \ {0} /\ mk.top \in Nat
  BY KlineAssumption DEF MarketTyped
<1>2. t = IF gap <= DaySize THEN gap ELSE DaySize
  <2> HIDE DEF gap
  <2>1. QED
    BY <1>1, OfTwo
<1>3. /\ new.top = now /\ new.bucket \in [Buckets -> {new.bucket[i] : i \in Buckets}]
      /\ \A i \in Buckets : new.bucket[i] = IF i < t THEN Flat(mk.bucket[0].close)
                                            ELSE mk.bucket[i - t]
      /\ new = [top |-> new.top, bucket |-> new.bucket]
  BY DEF Shifted
<1> HIDE DEF new, t
<1>4. ASSUME NEW i \in Buckets
      PROVE  new.bucket[i] = IF i < gap THEN Flat(mk.bucket[0].close) ELSE mk.bucket[i - gap]
  <2> HIDE DEF gap
  <2>1. i \in 0 .. DaySize - 1
    BY DEF Buckets
  <2>2. (i < t) = (i < gap) /\ (~(i < gap) => t = gap)
    BY <1>1, <1>2, <2>1
  <2>3. QED
    BY <1>3, <2>2
<1>5. ASSUME NEW i \in Buckets
      PROVE  new.bucket[i] \in KlineRecord
  <2> HIDE DEF gap
  <2>1. mk.bucket[0] \in KlineRecord
    BY <1>1 DEF MarketTyped, Buckets
  <2>2. Flat(mk.bucket[0].close) \in KlineRecord
    BY <2>1 DEF Flat, KlineRecord
  <2>3. ~(i < gap) => i - gap \in Buckets
    BY <1>1 DEF Buckets
  <2>4. ~(i < gap) => mk.bucket[i - gap] \in KlineRecord
    BY <2>3 DEF MarketTyped
  <2>5. QED
    BY <1>4, <2>2, <2>4
<1>6. MarketTyped(new, now)
  BY <1>3, <1>5 DEF MarketTyped
<1>7. ASSUME now = mk.top
      PROVE  new.bucket = mk.bucket
  <2>1. gap = 0
    BY <1>1, <1>7
  <2>2. \A i \in Buckets : new.bucket[i] = mk.bucket[i]
    <3> HIDE DEF gap
    <3>1. \A i \in Buckets : i \in Nat /\ i - 0 = i /\ ~(i < 0)
      BY DEF Buckets
    <3>2. QED
      BY <1>4, <2>1, <3>1
  <2>3. QED
    BY <1>3, <2>2 DEF MarketTyped
<1>8. QED
  BY <1>3, <1>4, <1>6, <1>7 DEF new

\* The buckets after a result: each drawn anew, however late the result is.
LEMMA MarketWithIs ==
  ASSUME NEW now \in Nat, NEW mk, MarketTyped(mk, now), NEW m \in Result, m.ts <= now,
         mk = [top |-> now, bucket |-> mk.bucket], ~isPendingOrder(m)
  PROVE  LET new == MarketWith(mk, m, now)
         IN  /\ MarketTyped(new, now) /\ new.top = now
             /\ \A i \in Buckets : new.bucket[i] = Drawn(mk.bucket[i], now - i, m)
<1> DEFINE new == MarketWith(mk, m, now)
           age == now - m.ts
           o == Min({age, DaySize - 1})
<1>1. age \in Nat /\ DaySize \in Nat \ {0} /\ DaySize - 1 \in Nat /\ m.ts \in Nat
  BY KlineAssumption DEF Result
<1>2. o = IF age <= DaySize - 1 THEN age ELSE DaySize - 1
  <2> HIDE DEF age
  <2>1. QED
    BY <1>1, OfTwo
<1>3. /\ new.top = now /\ new.bucket \in [Buckets -> {new.bucket[i] : i \in Buckets}]
      /\ \A i \in Buckets :
           new.bucket[i] = IF i = o /\ ~(age > DaySize - 1) THEN Traded(mk.bucket[i], m)
                           ELSE IF i <= o THEN Redrawn(mk.bucket[i], Price(m))
                           ELSE mk.bucket[i]
  <2>1. /\ new.top = now
        /\ new.bucket = [i \in Buckets |->
             IF i = o /\ ~onlyUpdatePrice(m, now) THEN Traded(mk.bucket[i], m)
             ELSE IF i <= o THEN Redrawn(mk.bucket[i], Price(m))
             ELSE mk.bucket[i]]
    BY DEF MarketWith
  <2> HIDE DEF new, o
  <2>2. QED
    BY <2>1 DEF onlyUpdatePrice
<1> HIDE DEF new, o
<1>4. ASSUME NEW i \in Buckets
      PROVE  new.bucket[i] = Drawn(mk.bucket[i], now - i, m)
  <2>1. i \in 0 .. DaySize - 1
    BY DEF Buckets
  <2>2. CASE now - i < m.ts
    <3>1. ~(i = o /\ ~(age > DaySize - 1)) /\ ~(i <= o)
      BY <1>1, <1>2, <2>1, <2>2
    <3>2. QED
      BY <1>3, <2>2, <3>1 DEF Drawn
  <2>3. CASE now - i = m.ts
    <3>1. i = o /\ ~(age > DaySize - 1) /\ ~(now - i < m.ts)
      BY <1>1, <1>2, <2>1, <2>3
    <3>2. QED
      BY <1>3, <2>3, <3>1 DEF Drawn
  <2>4. CASE m.ts < now - i
    <3>1. ~(i = o /\ ~(age > DaySize - 1)) /\ i <= o /\ ~(now - i < m.ts) /\ now - i # m.ts
      BY <1>1, <1>2, <2>1, <2>4
    <3>2. QED
      BY <1>3, <3>1 DEF Drawn
  <2>5. QED
    BY <1>1, <2>1, <2>2, <2>3, <2>4
<1>5. MarketTyped(new, now)
  <2>1. \A i \in Buckets : mk.bucket[i] \in KlineRecord /\ now - i \in Int
    <3>1. \A i \in Buckets : i \in Int
      BY <1>1 DEF Buckets
    <3>2. QED
      BY <3>1 DEF MarketTyped
  <2>2. \A i \in Buckets : new.bucket[i] \in KlineRecord
    BY <1>4, <2>1, DrawnIs
  <2>3. QED
    BY <1>3, <2>2 DEF MarketTyped
<1>6. QED
  BY <1>3, <1>4, <1>5 DEF new

\* One bucket more.
LEMMA AddBucketIs ==
  ASSUME NEW sum \in KlineRecord, NEW b \in KlineRecord
  PROVE  LET new == AddBucket(sum, b)
         IN  /\ new \in KlineRecord
             /\ new.low = IF sum.low = 0 \/ sum.low > b.low THEN b.low ELSE sum.low
             /\ new.high = IF sum.high <= b.high THEN b.high ELSE sum.high
             /\ new.close = b.close /\ new.count = sum.count + b.count
<1> DEFINE new == AddBucket(sum, b)
<1>1. /\ b.low \in Nat /\ b.high \in Nat /\ b.close \in Nat /\ b.open \in Nat /\ b.count \in Nat
      /\ sum.low \in Nat /\ sum.high \in Nat /\ sum.open \in Nat /\ sum.count \in Nat
  BY DEF KlineRecord
<1>2. /\ new.low = Lowest(sum.low, b.low) /\ new.high = Max({sum.high, b.high})
      /\ new.open = Earliest(sum.open, b.open) /\ new.close = b.close
      /\ new.count = sum.count + b.count
      /\ new = [open |-> new.open, close |-> new.close, high |-> new.high,
                low |-> new.low, count |-> new.count]
  BY DEF AddBucket
<1> HIDE DEF new
<1>3. new.high = IF sum.high <= b.high THEN b.high ELSE sum.high
  BY <1>1, <1>2, OfTwo
<1>4. new \in KlineRecord
  <2>1. /\ new.low \in Nat /\ new.high \in Nat /\ new.open \in Nat /\ new.close \in Nat
        /\ new.count \in Nat
    BY <1>1, <1>2, <1>3 DEF Lowest, Earliest
  <2>2. QED
    BY <1>2, <2>1 DEF KlineRecord
<1>5. QED
  BY <1>2, <1>3, <1>4 DEF new, Lowest

\* The sums on the way to the summary.
LEMMA SummaryTyped ==
  ASSUME NEW mk, mk.bucket \in [Buckets -> KlineRecord]
  PROVE  /\ Summary(mk) \in KlineRecord
         /\ \E s : /\ s[0] = Blank /\ s[DaySize] = Summary(mk)
                   /\ \A k \in 0 .. DaySize : s[k] \in KlineRecord
                   /\ \A k \in 1 .. DaySize : s[k] = AddBucket(s[k - 1], mk.bucket[DaySize - k])
<1>1. DaySize \in Nat \ {0} /\ Buckets = 0 .. DaySize - 1
  BY KlineAssumption DEF Buckets
<1>2. PICK s : /\ s[0] = Blank /\ s[DaySize] = Summary(mk)
               /\ \A k \in 1 .. DaySize : s[k] = AddBucket(s[k - 1], mk.bucket[DaySize - k])
  BY SummaryIs
<1> DEFINE Bad == {k \in 0 .. DaySize : s[k] \notin KlineRecord}
<1>3. Bad = {}
  <2> SUFFICES ASSUME Bad # {} PROVE FALSE
    OBVIOUS
  <2>1. Bad \subseteq 0 .. DaySize /\ 0 \notin Bad /\ DaySize \in Nat
    BY <1>1, <1>2, BlankIs
  <2>2. PICK k \in 1 .. DaySize : k \in Bad /\ k - 1 \in 0 .. DaySize /\ k - 1 \notin Bad
    <3> HIDE DEF Bad
    <3>1. QED
      BY <2>1, FirstBad
  <2>3. s[k] \notin KlineRecord /\ s[k - 1] \in KlineRecord
    BY <2>2
  <2>4. DaySize - k \in Buckets
    BY <1>1
  <2>5. mk.bucket[DaySize - k] \in KlineRecord
    BY <2>4
  <2>6. QED
    BY <1>2, <2>3, <2>5, AddBucketIs
<1>4. \A k \in 0 .. DaySize : s[k] \in KlineRecord
  BY <1>3
<1>5. DaySize \in 0 .. DaySize
  BY <1>1
<1>6. QED
  BY <1>2, <1>4, <1>5

\* What the summary says of whole buckets, once there is a price there is one in
\* every later bucket.
LEMMA SummaryShows ==
  ASSUME NEW mk, mk.bucket \in [Buckets -> KlineRecord],
         \A i \in Buckets : Whole(mk.bucket[i]),
         \A i, j \in Buckets : j < i /\ mk.bucket[i].low # 0 => mk.bucket[j].low # 0
  PROVE  /\ Summary(mk).close = mk.bucket[0].close
         /\ \A i \in Buckets : mk.bucket[i].close # 0 =>
              /\ Summary(mk).low # 0
              /\ Summary(mk).low <= mk.bucket[i].close
              /\ mk.bucket[i].close <= Summary(mk).high
<1>1. DaySize \in Nat \ {0} /\ Buckets = 0 .. DaySize - 1
  BY KlineAssumption DEF Buckets
<1>a. Summary(mk) \in KlineRecord
  BY SummaryTyped
<1>2. PICK s : /\ s[0] = Blank /\ s[DaySize] = Summary(mk)
               /\ \A k \in 0 .. DaySize : s[k] \in KlineRecord
               /\ \A k \in 1 .. DaySize : s[k] = AddBucket(s[k - 1], mk.bucket[DaySize - k])
  BY SummaryTyped
<1> DEFINE Spans(k) ==
             \A j \in 1 .. k : mk.bucket[DaySize - j].low # 0 =>
               /\ s[k].low # 0 /\ s[k].low <= mk.bucket[DaySize - j].low
               /\ mk.bucket[DaySize - j].high <= s[k].high
           Bad == {k \in 0 .. DaySize : ~Spans(k)}
<1>3. Bad = {}
  <2> SUFFICES ASSUME Bad # {} PROVE FALSE
    OBVIOUS
  <2>1. 0 \notin Bad
    OBVIOUS
  <2>2. PICK k \in 1 .. DaySize : ~Spans(k) /\ Spans(k - 1) /\ k - 1 \in 0 .. DaySize
    <3> HIDE DEF Spans
    <3>1. Bad \subseteq 0 .. DaySize /\ DaySize \in Nat
      BY <1>1
    <3>2. PICK k \in 1 .. DaySize : k \in Bad /\ k - 1 \in 0 .. DaySize /\ k - 1 \notin Bad
      <4> HIDE DEF Bad
      <4>1. QED
        BY <2>1, <3>1, FirstBad
    <3>3. QED
      BY <3>2
  <2> DEFINE b == mk.bucket[DaySize - k]
             sum == s[k - 1]
  <2>3. k \in Nat \ {0} /\ DaySize - k \in Buckets
    BY <1>1
  <2>4. b \in KlineRecord /\ sum \in KlineRecord
    BY <1>2, <2>2, <2>3
  <2> HIDE DEF Spans, Bad
  <2>5. b.low \in Nat /\ b.high \in Nat /\ sum.low \in Nat /\ sum.high \in Nat
    BY <2>4 DEF KlineRecord
  <2>6. s[k] = AddBucket(sum, b)
    BY <1>2
  <2>7. /\ s[k].low = IF sum.low = 0 \/ sum.low > b.low THEN b.low ELSE sum.low
        /\ s[k].high = IF sum.high <= b.high THEN b.high ELSE sum.high
    BY <2>4, <2>6, AddBucketIs
  <2>8. ASSUME NEW j \in 1 .. k, mk.bucket[DaySize - j].low # 0
        PROVE  /\ s[k].low # 0 /\ s[k].low <= mk.bucket[DaySize - j].low
               /\ mk.bucket[DaySize - j].high <= s[k].high
    <3>1. CASE j = k
      BY <2>5, <2>7, <2>8, <3>1
    <3>2. CASE j # k
      <4>1. j \in 1 .. k - 1 /\ DaySize - j \in Buckets /\ DaySize - k < DaySize - j
        BY <1>1, <2>3, <2>8, <3>2
      <4> DEFINE c == mk.bucket[DaySize - j]
      <4>2. /\ sum.low # 0 /\ sum.low <= c.low /\ c.high <= sum.high
        BY <2>2, <2>8, <4>1 DEF Spans
      <4>3. b.low # 0
        BY <2>3, <2>8, <4>1
      <4>4. c.low \in Nat /\ c.high \in Nat
        BY <4>1 DEF KlineRecord
      <4> HIDE DEF c, b, sum
      <4>5. QED
        BY <2>5, <2>7, <4>2, <4>3, <4>4 DEF c
    <3>3. QED
      BY <3>1, <3>2
  <2>9. Spans(k)
    BY <2>8 DEF Spans
  <2>10. QED
    BY <2>2, <2>9
<1>4. Spans(DaySize)
  <2> HIDE DEF Spans
  <2>1. DaySize \in 0 .. DaySize
    BY <1>1
  <2>2. QED
    BY <1>3, <2>1
<1>6. Summary(mk).close = mk.bucket[0].close
  <2>1. DaySize \in 1 .. DaySize /\ DaySize - DaySize = 0
    BY <1>1
  <2>2. Summary(mk) = AddBucket(s[DaySize - 1], mk.bucket[0])
    BY <1>2, <2>1
  <2>3. QED
    BY <2>2 DEF AddBucket
<1>7. ASSUME NEW i \in Buckets, mk.bucket[i].close # 0
      PROVE  /\ Summary(mk).low # 0
             /\ Summary(mk).low <= mk.bucket[i].close
             /\ mk.bucket[i].close <= Summary(mk).high
  <2> DEFINE b == mk.bucket[i]
  <2>1. DaySize - i \in 1 .. DaySize /\ DaySize - (DaySize - i) = i
    BY <1>1
  <2>2. b \in KlineRecord /\ Whole(b)
    OBVIOUS
  <2>3. b.low \in Nat /\ b.close \in Nat /\ b.high \in Nat
    BY <2>2 DEF KlineRecord
  <2>4. b.low # 0 /\ b.low <= b.close /\ b.close <= b.high
    BY <1>7, <2>2, <2>3 DEF Whole
  <2>5. Summary(mk).low # 0 /\ Summary(mk).low <= b.low /\ b.high <= Summary(mk).high
    BY <1>2, <1>4, <2>1, <2>4
  <2>6. Summary(mk).low \in Nat /\ Summary(mk).high \in Nat
    BY <1>a DEF KlineRecord
  <2> HIDE DEF b, Spans
  <2>7. QED
    BY <2>3, <2>4, <2>5, <2>6 DEF b
<1> HIDE DEF Spans
<1>8. QED
  BY <1>6, <1>7

-----------------------------------------------------------------------------
(* Types *)

\* fl is a snapshot of results that there are.
FileTyped(fl) ==
  /\ fl.at \in 0 .. clock /\ DOMAIN fl.klines = {fl.at}
  /\ fl.klines[fl.at] \in KlineRecord
  /\ MarketTyped(fl.market, clock)
  /\ fl.maxId \in 0 .. Len(results)

\* What the types need to be kept by every step.
Typed ==
  /\ CandleTypeOK
  /\ results \in Seq(Result)
  /\ snapshotTime \in 0 .. clock /\ late \in BOOLEAN
  /\ file # NoFile => FileTyped(file)

\* The result in hand is one of the results.
LEMMA HandTyped ==
  ASSUME Typed, hand # {}
  PROVE  InHand \in Result /\ InHand.ts \in 0 .. clock /\ maxId + 1 \in 1 .. Len(results)
<1>1. maxId + 1 \in 1 .. Len(results)
  BY DEF Typed, CandleTypeOK
<1>2. InHand \in Result
  BY <1>1 DEF Typed, InHand
<1>3. InHand.ts \in 0 .. clock
  BY <1>1 DEF Typed, CandleTypeOK, InHand
<1>4. QED
  BY <1>1, <1>2, <1>3

\* The summary after a result is a kline.
LEMMA DetailWithTyped ==
  ASSUME NEW now \in Nat, NEW d \in KlineRecord, NEW m \in Result, ~isPendingOrder(m)
  PROVE  LET new == DetailWith(d, m, now)
         IN  /\ new \in KlineRecord
             /\ onlyUpdatePrice(m, now) => new = d
             /\ ~onlyUpdatePrice(m, now) =>
                  /\ new.count = d.count + Len(m.fills) /\ new.close = Price(m)
                  /\ new.low # 0 /\ new.low <= Price(m) /\ (d.low # 0 => new.low <= d.low)
                  /\ Price(m) <= new.high /\ d.high <= new.high
<1> DEFINE new == DetailWith(d, m, now)
           H == {d.high} \cup Range(m.fills)
           p == Min(Range(m.fills))
<1>1. /\ Len(m.fills) \in Nat \ {0}
      /\ Range(m.fills) \subseteq Nat \ {0} /\ Range(m.fills) \subseteq Int
      /\ IsFiniteSet(Range(m.fills))
      /\ getStartPrice(m) \in Range(m.fills) /\ Price(m) \in Range(m.fills)
  BY FillsAre
<1>2. d.open \in Nat /\ d.close \in Nat /\ d.high \in Nat /\ d.low \in Nat /\ d.count \in Nat
  BY DEF KlineRecord
<1>3. CASE onlyUpdatePrice(m, now)
  BY <1>3 DEF DetailWith
<1>4. CASE ~onlyUpdatePrice(m, now)
  <2>1. /\ new.open = Earliest(d.open, getStartPrice(m)) /\ new.close = Price(m)
        /\ new.high = Max(H) /\ new.low = Lowest(d.low, p)
        /\ new.count = d.count + Len(m.fills)
        /\ new = [open |-> new.open, close |-> new.close, high |-> new.high,
                  low |-> new.low, count |-> new.count]
    BY <1>4 DEF DetailWith
  <2> HIDE DEF new
  <2>2. Max(H) \in H /\ \A x \in H : x <= Max(H)
    <3>1. H = Range(m.fills) \cup {d.high}
      OBVIOUS
    <3>2. H \subseteq Int /\ IsFiniteSet(H) /\ H # {}
      BY <1>1, <1>2, <3>1, FS_AddElement
    <3> HIDE DEF H
    <3>3. QED
      BY <3>2, MaxIs
  <2>3. p \in Range(m.fills) /\ \A x \in Range(m.fills) : p <= x
    BY <1>1, MinIs
  <2>4. p \in Nat \ {0} /\ p <= Price(m) /\ Price(m) \in Nat \ {0}
    BY <1>1, <2>3
  <2>5. Max(H) \in Nat /\ d.high <= Max(H) /\ Price(m) <= Max(H)
    BY <1>1, <1>2, <2>2
  <2> HIDE DEF H, p
  <2>6. new \in KlineRecord
    <3>1. /\ new.open \in Nat /\ new.close \in Nat /\ new.high \in Nat /\ new.low \in Nat
          /\ new.count \in Nat
      BY <1>1, <1>2, <2>1, <2>4, <2>5 DEF Lowest, Earliest
    <3>2. QED
      BY <2>1, <3>1 DEF KlineRecord
  <2>7. new.low # 0 /\ new.low <= Price(m) /\ (d.low # 0 => new.low <= d.low)
    BY <1>2, <2>1, <2>4 DEF Lowest
  <2>8. QED
    BY <1>4, <2>1, <2>5, <2>6, <2>7 DEF new
<1>5. QED
  BY <1>3, <1>4

\* The market as the clock finds it, and its summary.
LEMMA BuiltIs ==
  ASSUME Typed
  PROVE  /\ MarketTyped(BuiltMarket(clock), clock) /\ BuiltMarket(clock).top = clock
         /\ BuiltMarket(clock) = [top |-> clock, bucket |-> BuiltMarket(clock).bucket]
         /\ BuiltDetail(clock) \in KlineRecord
<1>1. clock \in Nat /\ MarketTyped(market, clock) /\ detail \in KlineRecord
  BY DEF Typed, CandleTypeOK, Windows, MarketTyped
<1>2. /\ MarketTyped(BuiltMarket(clock), clock) /\ BuiltMarket(clock).top = clock
      /\ BuiltMarket(clock) = [top |-> BuiltMarket(clock).top, bucket |-> BuiltMarket(clock).bucket]
  BY <1>1, ShiftedIs DEF BuiltMarket
<1>3. Summary(BuiltMarket(clock)) \in KlineRecord
  BY <1>2, SummaryTyped DEF MarketTyped
<1>4. QED
  BY <1>1, <1>2, <1>3 DEF BuiltDetail

\* The types hold at the start.
LEMMA TypedInit ==
  ASSUME Init
  PROVE  Typed
<1>1. MaxWindow \in Nat /\ DaySize \in Nat \ {0}
  BY CandleAssumption, KlineAssumption
<1>2. DOMAIN klines = {} /\ DOMAIN results = {} /\ Len(results) = 0 /\ results \in Seq(Result)
  BY DEF Init
<1>3. /\ clock = 0 /\ maxId = 0 /\ hand = {} /\ redisCache = {} /\ since = 0 /\ snapping = FALSE
      /\ snapshotTime = 0 /\ late = FALSE /\ file = NoFile /\ detail = Blank
      /\ market.top = 0 /\ market.bucket = [i \in Buckets |-> Blank]
      /\ redis.maxId = 0 /\ redis.klines = [w \in Windows |-> Blank]
  BY DEF Init, NoTrades
<1>4. market.bucket \in [Buckets -> KlineRecord] /\ redis.klines \in [Windows -> KlineRecord]
  BY <1>3, BlankIs
<1>5. 0 \in Windows /\ 0 \in 0 .. 0 /\ {} \subseteq 0 .. 0
  BY <1>1 DEF Windows
<1>6. snapping \in BOOLEAN /\ late \in BOOLEAN
  BY <1>3
<1>7. CandleTypeOK
  <2>1. /\ clock \in Windows /\ maxId \in 0 .. Len(results) /\ hand \subseteq {"kline", "market"}
        /\ hand # {} => maxId < Len(results)
    BY <1>2, <1>3, <1>5
  <2>2. /\ DOMAIN klines \subseteq 0 .. clock /\ redisCache \subseteq 0 .. clock
        /\ market.top \in 0 .. clock /\ redis.maxId \in 0 .. Len(results) /\ since \in 0 .. clock
    BY <1>2, <1>3, <1>5
  <2>3. detail \in KlineRecord
    BY <1>3, BlankIs
  <2>4. QED
    BY <1>2, <1>4, <1>6, <2>1, <2>2, <2>3 DEF CandleTypeOK
<1>8. QED
  <2>1. snapshotTime \in 0 .. clock
    BY <1>3, <1>5
  <2>2. QED
    BY <1>2, <1>3, <1>6, <1>7, <2>1 DEF Typed

\* The clock moves on within its bound, and what has begun has begun still.
LEMMA TypedTick ==
  ASSUME Typed, Tick
  PROVE  Typed'
<1>1. /\ clock \in 0 .. MaxWindow /\ clock < MaxWindow /\ clock' = clock + 1 /\ MaxWindow \in Nat
      /\ UNCHANGED <<results, quotes, redis, file, since, late>>
  BY CandleAssumption DEF Tick, Typed, CandleTypeOK, Windows
<1>2. 0 .. clock \subseteq 0 .. clock' /\ clock' \in Windows
  BY <1>1 DEF Windows
<1>3. CandleTypeOK'
  BY <1>1, <1>2 DEF Typed, CandleTypeOK, quotes
<1>4. file # NoFile => FileTyped(file)'
  BY <1>1, <1>2 DEF Typed, FileTyped, MarketTyped
<1>5. QED
  BY <1>1, <1>2, <1>3, <1>4 DEF Typed, quotes

\* A result is of no later window than that of now.
LEMMA TypedReceive ==
  ASSUME Typed, Receive
  PROVE  Typed'
<1>1. /\ hand' = {"kline", "market"} /\ maxId \in 0 .. Len(results) /\ results \in Seq(Result)
      /\ UNCHANGED <<clock, maxId, klines, redisCache, market, detail, snapshotTime,
                     snapping, redis, file, since, late>>
  BY DEF Receive, Typed, CandleTypeOK
<1>2. CASE maxId < Len(results) /\ results' = results
  <2>1. CandleTypeOK'
    BY <1>1, <1>2 DEF Typed, CandleTypeOK
  <2>2. QED
    BY <1>1, <1>2, <2>1 DEF Typed, FileTyped
<1>3. CASE ~(maxId < Len(results))
  <2>1. PICK ts \in 0 .. clock, f \in Fills :
          results' = Append(results, [ts |-> ts, fills |-> f])
    BY <1>3 DEF Receive
  <2>2. [ts |-> ts, fills |-> f] \in Result
    <3>1. f \in Seq(Nat \ {0}) /\ ts \in Nat
      BY CandleAssumption DEF Typed, CandleTypeOK, Windows
    <3>2. QED
      BY <3>1 DEF Result
  <2>3. /\ results' \in Seq(Result) /\ Len(results') = Len(results) + 1
        /\ \A i \in DOMAIN results' : results'[i] \in {results[j] : j \in DOMAIN results}
                                                        \cup {[ts |-> ts, fills |-> f]}
    BY <1>1, <2>1, <2>2
  <2>4. \A i \in DOMAIN results' : results'[i].ts \in 0 .. clock /\ results'[i].fills \in Fills
    BY <2>1, <2>3 DEF Typed, CandleTypeOK
  <2>5. 0 .. Len(results) \subseteq 0 .. Len(results') /\ maxId < Len(results')
    BY <1>1, <2>3
  <2>6. CandleTypeOK'
    BY <1>1, <2>4, <2>5 DEF Typed, CandleTypeOK
  <2>7. QED
    BY <1>1, <2>3, <2>5, <2>6 DEF Typed, FileTyped, MarketTyped
<1>4. QED
  BY <1>2, <1>3 DEF Receive

\* A goroutine that is done moves maxId and hand within their types.
LEMMA DoneTyped ==
  ASSUME Typed, NEW g \in hand, Done(g)
  PROVE  /\ maxId' \in 0 .. Len(results) /\ hand' \subseteq {"kline", "market"}
         /\ hand' # {} => maxId' < Len(results)
<1>1. maxId \in 0 .. Len(results) /\ maxId < Len(results) /\ Len(results) \in Nat
  BY DEF Typed, CandleTypeOK
<1>2. hand' = hand \ {g} /\ maxId' = IF hand = {g} THEN maxId + 1 ELSE maxId
  BY DEF Done
<1>3. QED
  BY <1>1, <1>2 DEF Typed, CandleTypeOK

\* A result is drawn into windows that have begun.
LEMMA TypedKline ==
  ASSUME Typed, KlineUpdater
  PROVE  Typed'
<1> DEFINE ks == getCurrentKline(klines, clock)
<1>1. clock \in Nat /\ KlinesTyped(klines, clock) /\ InHand \in Result /\ hand # {}
  BY HandTyped DEF KlineUpdater, Typed, CandleTypeOK, Windows, KlinesTyped
<1>2. KlinesTyped(ks, clock) /\ DOMAIN ks = DOMAIN klines \cup MissingAt(klines, clock)
  BY <1>1, CurrentIs
<1>3. /\ KlinesTyped(klines', clock)
      /\ DOMAIN klines' = DOMAIN ks \cup DrawnBy(InHand, clock)
  BY <1>1, <1>2, UpdatedIs DEF KlineUpdater
<1>4. redisCache' \subseteq 0 .. clock
  BY <1>2, <1>3 DEF KlineUpdater, KlinesTyped, Typed, CandleTypeOK
<1>5. late' \in BOOLEAN
  BY DEF KlineUpdater, TooLate, Typed
<1>6. /\ maxId' \in 0 .. Len(results) /\ hand' \subseteq {"kline", "market"}
      /\ hand' # {} => maxId' < Len(results)
  BY DoneTyped DEF KlineUpdater
<1>7. UNCHANGED <<clock, results, market, detail, snapshotTime, snapping, redis, file, since>>
  BY DEF KlineUpdater
<1>8. CandleTypeOK'
  BY <1>3, <1>4, <1>6, <1>7 DEF Typed, CandleTypeOK, KlinesTyped
<1>9. QED
  BY <1>5, <1>7, <1>8 DEF Typed, FileTyped, MarketTyped

\* The buckets end with the window of now.
LEMMA TypedMarket ==
  ASSUME Typed, MarketUpdater
  PROVE  Typed'
<1>1. clock \in Nat /\ InHand \in Result /\ hand # {} /\ InHand.ts <= clock
  BY HandTyped DEF MarketUpdater, Typed, CandleTypeOK, Windows
<1>2. MarketTyped(market', clock) /\ detail' \in KlineRecord
  <2>1. CASE isPendingOrder(InHand)
    BY <2>1, BuiltIs DEF MarketUpdater
  <2>2. CASE ~isPendingOrder(InHand)
    <3>1. MarketTyped(market', clock)
      BY <1>1, <2>2, BuiltIs, MarketWithIs DEF MarketUpdater
    <3>2. detail' \in KlineRecord
      BY <1>1, <2>2, BuiltIs, DetailWithTyped DEF MarketUpdater
    <3>3. QED
      BY <3>1, <3>2
  <2>3. QED
    BY <2>1, <2>2
<1>3. late' \in BOOLEAN
  BY DEF MarketUpdater, TooLate, Typed
<1>4. /\ maxId' \in 0 .. Len(results) /\ hand' \subseteq {"kline", "market"}
      /\ hand' # {} => maxId' < Len(results)
  BY DoneTyped DEF MarketUpdater
<1>5. UNCHANGED <<clock, results, klines, redisCache, snapshotTime, snapping, redis, file, since>>
  BY DEF MarketUpdater
<1>6. CandleTypeOK'
  BY <1>2, <1>4, <1>5 DEF Typed, CandleTypeOK, MarketTyped
<1>7. QED
  BY <1>3, <1>5, <1>6 DEF Typed, FileTyped, MarketTyped

\* The tickers fill up windows to that of now.
LEMMA TypedTickers ==
  ASSUME Typed, MarketTicker \/ CheckKlines
  PROVE  Typed'
<1>1. CASE MarketTicker
  <2>1. MarketTyped(market', clock) /\ detail' \in KlineRecord
    BY <1>1, BuiltIs DEF MarketTicker
  <2>2. UNCHANGED <<clock, results, maxId, hand, klines, redisCache, snapshotTime,
                    snapping, redis, file, since, late>>
    BY <1>1 DEF MarketTicker
  <2>3. CandleTypeOK'
    BY <2>1, <2>2 DEF Typed, CandleTypeOK, MarketTyped
  <2>4. QED
    BY <2>2, <2>3 DEF Typed, FileTyped, MarketTyped
<1>2. CASE CheckKlines
  <2>1. clock \in Nat /\ KlinesTyped(klines, clock)
    BY DEF Typed, CandleTypeOK, Windows, KlinesTyped
  <2>2. /\ KlinesTyped(klines', clock)
        /\ DOMAIN klines' = DOMAIN klines \cup MissingAt(klines, clock)
    BY <1>2, <2>1, CurrentIs DEF CheckKlines
  <2>3. redisCache' \subseteq 0 .. clock
    BY <1>2, <2>2 DEF CheckKlines, KlinesTyped, Typed, CandleTypeOK
  <2>4. UNCHANGED <<clock, results, maxId, hand, market, detail, snapshotTime, snapping,
                    redis, file, since, late>>
    BY <1>2 DEF CheckKlines
  <2>5. CandleTypeOK'
    BY <2>2, <2>3, <2>4 DEF Typed, CandleTypeOK, KlinesTyped
  <2>6. QED
    BY <2>4, <2>5 DEF Typed, FileTyped, MarketTyped
<1>3. QED
  BY <1>1, <1>2

\* Redis after a save.
LEMMA SavedIs ==
  ASSUME Typed, NEW ks, NEW ws, Saved(ks, ws),
         RedisAhead \/ ws \subseteq DOMAIN ks, KlinesTyped(ks, clock)
  PROVE  /\ redis'.maxId \in 0 .. Len(results) /\ redis'.klines \in [Windows -> KlineRecord]
         /\ RedisAhead => redis' = redis
         /\ ~RedisAhead =>
              /\ redis'.maxId = maxId /\ ws \subseteq DOMAIN ks
              /\ \A w \in Windows : redis'.klines[w] = IF w \in ws THEN ks[w] ELSE redis.klines[w]
<1>1. /\ redis.maxId \in 0 .. Len(results) /\ redis.klines \in [Windows -> KlineRecord]
      /\ maxId \in 0 .. Len(results)
  BY DEF Typed, CandleTypeOK
<1>2. CASE RedisAhead
  BY <1>1, <1>2 DEF Saved
<1>3. CASE ~RedisAhead
  <2>1. /\ redis'.maxId = maxId /\ ws \subseteq DOMAIN ks
        /\ redis'.klines = [w \in Windows |-> IF w \in ws THEN ks[w] ELSE redis.klines[w]]
    BY <1>3 DEF Saved
  <2>2. \A w \in Windows : (IF w \in ws THEN ks[w] ELSE redis.klines[w]) \in KlineRecord
    BY <1>1, <2>1 DEF KlinesTyped
  <2>3. QED
    BY <1>1, <1>3, <2>1, <2>2
<1>4. QED
  BY <1>2, <1>3

\* What is marked is a kline, or nothing is written.
LEMMA TypedSave ==
  ASSUME Typed, SaveTick
  PROVE  Typed'
<1>1. KlinesTyped(klines, clock)
  BY DEF Typed, CandleTypeOK, KlinesTyped
<1>2. redis'.maxId \in 0 .. Len(results) /\ redis'.klines \in [Windows -> KlineRecord]
  BY <1>1, SavedIs DEF SaveTick
<1>3. /\ redisCache' = {}
      /\ UNCHANGED <<clock, results, maxId, hand, klines, market, detail, snapshotTime,
                     snapping, file, since, late>>
  BY DEF SaveTick
<1>4. CandleTypeOK'
  BY <1>2, <1>3 DEF Typed, CandleTypeOK
<1>5. QED
  BY <1>3, <1>4 DEF Typed, FileTyped, MarketTyped

\* What Clear leaves: the klines from since' on.
LEMMA ClearedIs ==
  ASSUME Typed, Clear
  PROVE  \E e \in DOMAIN klines :
           /\ e < snapshotTime /\ e + KeepKlines <= clock
           /\ since' = (IF since <= e + 1 THEN e + 1 ELSE since)
           /\ \A w \in DOMAIN klines : w \in DOMAIN klines' <=> e < w
           /\ \A w \in DOMAIN klines' : w \in DOMAIN klines /\ klines'[w] = klines[w]
           /\ \E w \in DOMAIN klines' : \A v \in DOMAIN klines : v <= w
<1>1. /\ clock \in Nat /\ DOMAIN klines \subseteq 0 .. clock /\ snapshotTime \in 0 .. clock
      /\ since \in Nat /\ KeepKlines \in Nat \ {0}
  BY CandleAssumption, KlineAssumption DEF Typed, CandleTypeOK, Windows
<1>2. IsFiniteSet(DOMAIN klines) /\ DOMAIN klines \subseteq Int
  <2>1. IsFiniteSet(0 .. clock)
    BY <1>1, FS_Interval
  <2>2. QED
    BY <1>1, <2>1, FS_Subset
<1> DEFINE Above(w) == {v \in DOMAIN klines : v >= w}
           e == Max(Expired)
<1>3. \A w \in Expired : /\ w \in DOMAIN klines /\ w < snapshotTime
                         /\ Cardinality(Above(w)) > KeepKlines
  BY DEF Expired
<1>4. e \in Expired /\ \A w \in Expired : w <= e
  <2>1. Expired \subseteq Int /\ Expired # {} /\ IsFiniteSet(Expired)
    <3>1. Expired \in SUBSET (DOMAIN klines)
      BY <1>3
    <3>2. QED
      BY <1>2, <3>1, FS_Subset DEF Clear
  <2>2. QED
    BY <2>1, MaxIs
<1>5. e \in DOMAIN klines /\ e < snapshotTime /\ e \in 0 .. clock
      /\ Cardinality(Above(e)) > KeepKlines
  BY <1>1, <1>3, <1>4
<1> HIDE DEF e
<1>6. e + KeepKlines <= clock
  <2>1. Above(e) \in SUBSET (e .. clock)
    BY <1>1, <1>5
  <2>2. IsFiniteSet(e .. clock) /\ Cardinality(e .. clock) = clock - e + 1
    <3>1. e \in Int /\ clock \in Int /\ ~(e > clock)
      BY <1>1, <1>5
    <3>2. QED
      BY <3>1, FS_Interval
  <2>3. Cardinality(Above(e)) <= clock - e + 1 /\ Cardinality(Above(e)) \in Nat
    BY <2>1, <2>2, FS_Subset, FS_CardinalityType
  <2> HIDE DEF Above
  <2>4. QED
    BY <1>1, <1>5, <2>3
<1>7. ASSUME NEW w \in DOMAIN klines, w <= e
      PROVE  w \in Expired
  <2>1. w < snapshotTime
    BY <1>1, <1>5, <1>7
  <2>2. Above(e) \in SUBSET Above(w) /\ IsFiniteSet(Above(w))
    <3>1. Above(w) \in SUBSET (DOMAIN klines)
      OBVIOUS
    <3>2. IsFiniteSet(Above(w))
      BY <1>2, <3>1, FS_Subset
    <3>3. QED
      BY <1>2, <1>5, <1>7, <3>2
  <2>3. /\ Cardinality(Above(e)) <= Cardinality(Above(w)) /\ Cardinality(Above(w)) \in Nat
        /\ Cardinality(Above(e)) \in Nat
    BY <2>2, FS_Subset, FS_CardinalityType
  <2>4. Cardinality(Above(w)) > KeepKlines
    <3> HIDE DEF Above
    <3>1. QED
      BY <1>1, <1>5, <2>3
  <2>5. QED
    BY <2>1, <2>4 DEF Expired
<1>8. /\ DOMAIN klines' = DOMAIN klines \ Expired
      /\ \A w \in DOMAIN klines' : klines'[w] = klines[w]
      /\ since' = Max({since, e + 1})
  BY DEF Clear, e
<1>9. \A w \in DOMAIN klines : w \in DOMAIN klines' <=> e < w
  BY <1>2, <1>4, <1>5, <1>7, <1>8
<1>10. since' = IF since <= e + 1 THEN e + 1 ELSE since
  BY <1>1, <1>5, <1>8, OfTwo
<1>11. \E w \in DOMAIN klines' : \A v \in DOMAIN klines : v <= w
  <2>1. DOMAIN klines # {}
    BY <1>5
  <2>2. PICK top \in DOMAIN klines : \A v \in DOMAIN klines : top >= v
    BY <1>2, <2>1, GreatestExists
  <2>3. e # top
    <3>1. ASSUME e = top PROVE FALSE
      <4>1. Above(e) = {top}
        BY <1>2, <2>2, <3>1
      <4>2. Cardinality(Above(e)) = 1
        BY <4>1, FS_Singleton
      <4> HIDE DEF Above
      <4>3. QED
        BY <1>1, <1>5, <4>2
    <3>2. QED
      BY <3>1
  <2>4. e < top
    BY <1>2, <1>5, <2>2, <2>3
  <2>5. \A v \in DOMAIN klines : v <= top
    BY <1>2, <2>2
  <2>6. QED
    BY <1>9, <2>2, <2>4, <2>5
<1>12. \A w \in DOMAIN klines' : w \in DOMAIN klines /\ klines'[w] = klines[w]
  BY <1>8
<1>13. QED
  BY <1>5, <1>6, <1>9, <1>10, <1>11, <1>12

\* A kline is dropped only of a window that has begun.
LEMMA TypedClear ==
  ASSUME Typed, Clear
  PROVE  Typed'
<1>1. PICK e \in DOMAIN klines :
        /\ e < snapshotTime
        /\ since' = (IF since <= e + 1 THEN e + 1 ELSE since)
        /\ \A w \in DOMAIN klines' : w \in DOMAIN klines /\ klines'[w] = klines[w]
  BY ClearedIs
<1>2. since' \in 0 .. clock
  BY <1>1 DEF Typed, CandleTypeOK, Windows
<1>3. UNCHANGED <<clock, results, maxId, hand, redisCache, market, detail, snapshotTime,
                  snapping, redis, file, late>>
  BY DEF Clear
<1>4. DOMAIN klines' \subseteq 0 .. clock /\ \A w \in DOMAIN klines' : klines'[w] \in KlineRecord
  BY <1>1 DEF Typed, CandleTypeOK
<1>5. CandleTypeOK'
  BY <1>2, <1>3, <1>4 DEF Typed, CandleTypeOK
<1>6. QED
  BY <1>3, <1>5 DEF Typed, FileTyped, MarketTyped

\* The klines are filled up, then saved.
LEMMA TypedStart ==
  ASSUME Typed, StartSnapshot
  PROVE  Typed'
<1>1. clock \in Nat /\ KlinesTyped(klines, clock)
  BY DEF Typed, CandleTypeOK, Windows, KlinesTyped
<1>2. KlinesTyped(klines', clock)
  BY <1>1, CurrentIs DEF StartSnapshot
<1>3. redis'.maxId \in 0 .. Len(results) /\ redis'.klines \in [Windows -> KlineRecord]
  BY <1>2, SavedIs DEF StartSnapshot
<1>4. /\ redisCache' = {} /\ snapping' = TRUE
      /\ UNCHANGED <<clock, results, maxId, hand, market, detail, snapshotTime, file,
                     since, late>>
  BY DEF StartSnapshot
<1>5. snapping' \in BOOLEAN
  BY <1>4
<1>6. CandleTypeOK'
  BY <1>2, <1>3, <1>4, <1>5 DEF Typed, CandleTypeOK, KlinesTyped
<1>7. QED
  BY <1>4, <1>6 DEF Typed, FileTyped, MarketTyped

\* A snapshot that was taken has the kline of its window.
LEMMA TakenIs ==
  ASSUME Typed, takeSnapShot
  PROVE  /\ clock \in DOMAIN klines /\ file'.at = clock /\ DOMAIN file'.klines = {clock}
         /\ file'.klines[clock] = klines[clock]
         /\ file'.market = market /\ file'.maxId = maxId /\ file' # NoFile
<1>1. clock \in Nat /\ maxId \in Nat
  BY DEF Typed, CandleTypeOK, Windows
<1>2. {clock, clock - HmType2Step} = {clock}
  BY <1>1 DEF HmType2Step
<1>3. DOMAIN Kept(clock) = {clock} /\ Kept(clock)[clock] = KlineAt(klines, clock)
  BY <1>2 DEF Kept
<1>4. /\ clock \in DOMAIN klines
      /\ file' = [at |-> clock, klines |-> Kept(clock), market |-> market, maxId |-> maxId]
  BY DEF takeSnapShot
<1>5. NoFile.maxId = -1
  BY DEF NoFile
<1>6. file'.maxId # -1
  BY <1>1, <1>4
<1>7. QED
  BY <1>3, <1>4, <1>5, <1>6 DEF KlineAt

\* The snapshot has the kline of now.
LEMMA TypedTake ==
  ASSUME Typed, takeSnapShot
  PROVE  Typed'
<1>1. /\ snapshotTime' = clock /\ snapping' = FALSE
      /\ UNCHANGED <<clock, results, maxId, hand, klines, redisCache, market, detail, redis,
                     since, late>>
  BY DEF takeSnapShot
<1>2. snapping' \in BOOLEAN /\ snapshotTime' \in 0 .. clock
  <2>1. snapping' \in BOOLEAN
    BY <1>1
  <2>2. snapshotTime' \in 0 .. clock
    BY <1>1 DEF Typed, CandleTypeOK, Windows
  <2>3. QED
    BY <2>1, <2>2
<1>3. FileTyped(file)'
  BY <1>1, TakenIs DEF FileTyped, MarketTyped, Typed, CandleTypeOK, Windows
<1>4. CandleTypeOK'
  BY <1>1, <1>2 DEF Typed, CandleTypeOK
<1>5. QED
  BY <1>1, <1>2, <1>3, <1>4 DEF Typed

\* A restart has the market of the snapshot moved on, or an empty one.
LEMMA RestartIs ==
  ASSUME Typed, Crash
  PROVE  /\ hand' = {} /\ redisCache' = {} /\ snapping' = FALSE
         /\ UNCHANGED <<clock, results, redis, file, late>>
         /\ file = NoFile =>
              /\ maxId' = 0 /\ DOMAIN klines' = {} /\ snapshotTime' = clock /\ since' = 0
              /\ market' = NoTrades(clock) /\ detail' = Blank
         /\ file # NoFile =>
              /\ maxId' = file.maxId /\ klines' = file.klines /\ snapshotTime' = file.at
              /\ since' = file.at /\ market' = Shifted(file.market, clock)
              /\ detail' = Summary(market')
BY DEF Crash, Started, Restored

\* A restart takes up the snapshot, whose results there are still.
LEMMA TypedCrash ==
  ASSUME Typed, Crash
  PROVE  Typed'
<1>a. clock \in Nat /\ Len(results) \in Nat
  BY DEF Typed, CandleTypeOK, Windows
<1>1. /\ hand' = {} /\ redisCache' = {} /\ snapping' \in BOOLEAN
      /\ UNCHANGED <<clock, results, redis, file, late>>
  <2>1. snapping' = FALSE
    BY RestartIs
  <2>2. snapping' \in BOOLEAN
    BY <2>1
  <2>3. QED
    BY <2>2, RestartIs
<1>2. 0 \in 0 .. Len(results) /\ 0 \in 0 .. clock /\ clock \in 0 .. clock
  BY <1>a
<1>3. /\ maxId' \in 0 .. Len(results) /\ DOMAIN klines' \subseteq 0 .. clock
      /\ \A w \in DOMAIN klines' : klines'[w] \in KlineRecord
      /\ market'.top \in 0 .. clock /\ market'.bucket \in [Buckets -> KlineRecord]
      /\ detail' \in KlineRecord /\ since' \in 0 .. clock /\ snapshotTime' \in 0 .. clock
  <2>1. CASE file = NoFile
    <3>1. market'.top = clock /\ market'.bucket = [i \in Buckets |-> Blank]
      BY <2>1, RestartIs DEF NoTrades
    <3>2. QED
      BY <1>2, <2>1, <3>1, BlankIs, RestartIs
  <2>2. CASE file # NoFile
    <3>1. MarketTyped(market', clock)
      <4>1. MarketTyped(file.market, clock)
        BY <2>2 DEF Typed, FileTyped
      <4>2. market' = Shifted(file.market, clock)
        BY <2>2, RestartIs
      <4>3. QED
        BY <1>a, <4>1, <4>2, ShiftedIs
    <3>2. detail' \in KlineRecord
      BY <2>2, <3>1, RestartIs, SummaryTyped DEF MarketTyped
    <3>3. QED
      BY <2>2, <3>1, <3>2, RestartIs DEF MarketTyped, Typed, FileTyped
  <2>3. QED
    BY <2>1, <2>2
<1>4. CandleTypeOK'
  BY <1>1, <1>2, <1>3 DEF Typed, CandleTypeOK
<1>5. QED
  BY <1>1, <1>3, <1>4 DEF Typed, FileTyped, MarketTyped

\* Every step keeps the types.
LEMMA TypedStep ==
  ASSUME Typed, [Next]_vars
  PROVE  Typed'
<1>1. CASE UNCHANGED vars
  BY <1>1 DEF vars, quotes, Typed, CandleTypeOK, FileTyped, MarketTyped
<1>2. CASE Next
  BY <1>2, TypedTick, TypedReceive, TypedKline, TypedMarket, TypedTickers, TypedSave,
     TypedClear, TypedStart, TypedTake, TypedCrash DEF Next
<1>3. QED
  BY <1>1, <1>2

\* l2quote/l2quote.go:1: in every behaviour klines are kept of windows that have
\* begun only, and what is marked for Redis has begun too.
THEOREM CandlesTyped == Spec => []CandleTypeOK
<1>1. Init => Typed
  BY TypedInit
<1>2. Typed /\ [Next]_vars => Typed'
  BY TypedStep
<1>3. Typed => CandleTypeOK
  BY DEF Typed
<1>4. QED
  BY <1>1, <1>2, <1>3, PTL DEF Spec

-----------------------------------------------------------------------------
(* The trades of results *)

\* The numbers to n.
LEMMA NumbersTo ==
  ASSUME NEW n \in Nat
  PROVE  IsFiniteSet(1 .. n) /\ Cardinality(1 .. n) = n
<1>1. 1 \in Int /\ n \in Int
  OBVIOUS
<1>2. IsFiniteSet(1 .. n) /\ Cardinality(1 .. n) = IF 1 > n THEN 0 ELSE n - 1 + 1
  BY <1>1, FS_Interval
<1>3. QED
  BY <1>2

\* One of the results.
LEMMA ResultIs ==
  ASSUME Typed, NEW i \in 1 .. Len(results)
  PROVE  /\ results[i] \in Result /\ results[i].ts \in Nat /\ results[i].ts <= clock
         /\ Len(results) \in Nat /\ i \in Nat \ {0}
         /\ results[i].fills \in Seq(Nat \ {0}) /\ Len(results[i].fills) \in Nat
         /\ DOMAIN results[i].fills = 1 .. Len(results[i].fills)
         /\ isPendingOrder(results[i]) <=> Len(results[i].fills) = 0
<1>1. results \in Seq(Result) /\ clock \in Nat
  BY DEF Typed, CandleTypeOK, Windows
<1>2. results[i] \in Result /\ Len(results) \in Nat /\ i \in DOMAIN results
  BY <1>1
<1>3. results[i].ts \in Nat /\ results[i].fills \in Seq(Nat \ {0})
  BY <1>2 DEF Result
<1>4. results[i].ts \in 0 .. clock
  BY <1>2 DEF Typed, CandleTypeOK
<1>5. results[i].ts <= clock
  BY <1>1, <1>4
<1>6. isPendingOrder(results[i]) <=> Len(results[i].fills) = 0
  BY <1>3 DEF isPendingOrder
<1>7. QED
  BY <1>2, <1>3, <1>5, <1>6

\* The fills of results S, each with the number of its result.
FillsOf(S) == UNION {{i} \X DOMAIN results[i].fills : i \in S}

\* They are finitely many, as many as the results traded.
LEMMA TradesFinite ==
  ASSUME Typed, NEW S \in SUBSET (1 .. Len(results))
  PROVE  IsFiniteSet(FillsOf(S)) /\ Trades(S) = Cardinality(FillsOf(S)) /\ Trades(S) \in Nat
<1> DEFINE P(i) == {i} \X DOMAIN results[i].fills
           T == {P(i) : i \in S}
           g == [i \in S |-> P(i)]
<1>1. IsFiniteSet(S)
  <2>1. Len(results) \in Nat
    BY DEF Typed
  <2>2. IsFiniteSet(1 .. Len(results))
    BY <2>1, FS_Interval
  <2>3. QED
    BY <2>2, FS_Subset
<1>2. g \in Surjection(S, T)
  <2> HIDE DEF P
  <2>1. QED
    BY DEF Surjection
<1>3. IsFiniteSet(T)
  <2> HIDE DEF T, g
  <2>1. QED
    BY <1>1, <1>2, FS_Surjection
<1>4. ASSUME NEW i \in S
      PROVE  IsFiniteSet(P(i))
  <2>1. i \in 1 .. Len(results)
    OBVIOUS
  <2>2. DOMAIN results[i].fills = 1 .. Len(results[i].fills) /\ Len(results[i].fills) \in Nat
    BY <2>1, ResultIs
  <2>3. IsFiniteSet(DOMAIN results[i].fills) /\ IsFiniteSet({i})
    BY <2>2, NumbersTo, FS_Singleton
  <2>4. QED
    BY <2>3, FS_Product
<1>5. IsFiniteSet(UNION T)
  <2>1. \A U \in T : IsFiniteSet(U)
    BY <1>4
  <2> HIDE DEF T
  <2>2. QED
    BY <1>3, <2>1, FS_UNION
<1>6. FillsOf(S) = UNION T
  BY DEF FillsOf
<1>7. IsFiniteSet(FillsOf(S))
  <2> HIDE DEF T
  <2>1. QED
    BY <1>5, <1>6
<1>8. Trades(S) = Cardinality(FillsOf(S))
  BY DEF Trades, FillsOf
<1>9. QED
  BY <1>7, <1>8, FS_CardinalityType

\* The trades of results that are apart add up.
LEMMA TradesUnion ==
  ASSUME Typed, NEW S \in SUBSET (1 .. Len(results)), NEW T \in SUBSET (1 .. Len(results)),
         S \cap T = {}
  PROVE  Trades(S \cup T) = Trades(S) + Trades(T)
<1>1. S \cup T \in SUBSET (1 .. Len(results))
  OBVIOUS
<1>2. FillsOf(S \cup T) = FillsOf(S) \cup FillsOf(T)
  BY DEF FillsOf
<1>3. \A U : \A x \in FillsOf(U) : x[1] \in U
  BY DEF FillsOf
<1>4. FillsOf(S) \cap FillsOf(T) = {}
  BY <1>3
<1>5. /\ IsFiniteSet(FillsOf(S)) /\ Trades(S) = Cardinality(FillsOf(S)) /\ Trades(S) \in Nat
      /\ IsFiniteSet(FillsOf(T)) /\ Trades(T) = Cardinality(FillsOf(T)) /\ Trades(T) \in Nat
      /\ Trades(S \cup T) = Cardinality(FillsOf(S \cup T))
  BY <1>1, TradesFinite
<1>6. Cardinality(FillsOf(S) \cup FillsOf(T))
        = Cardinality(FillsOf(S)) + Cardinality(FillsOf(T)) - Cardinality({})
  BY <1>4, <1>5, FS_Union
<1>7. Trades(S \cup T) = Trades(S) + Trades(T) - 0
  BY <1>2, <1>5, <1>6, FS_EmptySet
<1>8. QED
  BY <1>5, <1>7

\* One result more.
LEMMA TradesAdd ==
  ASSUME Typed, NEW S \in SUBSET (1 .. Len(results)), NEW n \in 1 .. Len(results), n \notin S
  PROVE  Trades(S \cup {n}) = Trades(S) + Len(results[n].fills)
<1>2. DOMAIN results[n].fills = 1 .. Len(results[n].fills) /\ Len(results[n].fills) \in Nat
  BY ResultIs
<1>3. FillsOf({n}) = {n} \X (1 .. Len(results[n].fills))
  BY <1>2 DEF FillsOf
<1>4. Cardinality(FillsOf({n})) = Len(results[n].fills)
  <2>1. /\ IsFiniteSet(1 .. Len(results[n].fills))
        /\ Cardinality(1 .. Len(results[n].fills)) = Len(results[n].fills)
    BY <1>2, NumbersTo
  <2>2. IsFiniteSet({n}) /\ Cardinality({n}) = 1
    BY FS_Singleton
  <2>3. Cardinality({n} \X (1 .. Len(results[n].fills)))
          = Cardinality({n}) * Cardinality(1 .. Len(results[n].fills))
    BY <2>1, <2>2, FS_Product
  <2>4. Cardinality({n} \X (1 .. Len(results[n].fills))) = 1 * Len(results[n].fills)
    BY <2>1, <2>2, <2>3
  <2>5. 1 * Len(results[n].fills) = Len(results[n].fills)
    BY <1>2
  <2>6. QED
    BY <1>3, <2>4, <2>5
<1>5. {n} \in SUBSET (1 .. Len(results)) /\ S \cap {n} = {}
  OBVIOUS
<1>6. Trades({n}) = Len(results[n].fills)
  BY <1>4, <1>5, TradesFinite
<1>7. QED
  BY <1>5, <1>6, TradesUnion

\* No results have no trades.
LEMMA TradesNone ==
  ASSUME Typed
  PROVE  Trades({}) = 0
<1>1. FillsOf({}) = {}
  BY DEF FillsOf
<1>2. {} \in SUBSET (1 .. Len(results))
  OBVIOUS
<1>3. QED
  BY <1>1, <1>2, TradesFinite, FS_EmptySet

\* The results with trades among the first n.
LEMMA TradersStep ==
  ASSUME Typed, NEW n \in 1 .. Len(results)
  PROVE  /\ n - 1 \in 0 .. Len(results) /\ results[n] \in Result
         /\ Traders(1 .. n) \in SUBSET (1 .. n) /\ n \notin Traders(1 .. n - 1)
         /\ Traders(1 .. n) = IF isPendingOrder(results[n]) THEN Traders(1 .. n - 1)
                              ELSE Traders(1 .. n - 1) \cup {n}
<1>1. n \in Nat \ {0} /\ 1 .. n = (1 .. n - 1) \cup {n} /\ n \notin 1 .. n - 1
  BY DEF Typed
<1>2. results[n] \in Result
  BY ResultIs
<1>3. n - 1 \in 0 .. Len(results)
  BY DEF Typed
<1>4. QED
  BY <1>1, <1>2, <1>3 DEF Traders

-----------------------------------------------------------------------------
(* The history *)

\* f has the klines that every window would have after each number of results, if
\* every result were drawn into its own window and all later ones.
History(f) ==
  /\ \A n \in 0 .. Len(results) : \A w \in Int : f[n][w] \in KlineRecord /\ Whole(f[n][w])
  /\ \A w \in Int : f[0][w] = Blank
  /\ \A n \in 1 .. Len(results) : \A w \in Int :
       f[n][w] = Drawn(f[n - 1][w], w, results[n])

\* There is a history before the first result.
LEMMA HistoryStarts ==
  ASSUME Init
  PROVE  \E f : History(f)
<1> DEFINE f == [n \in {0} |-> [w \in Int |-> Blank]]
<1>1. results = <<>> /\ Len(results) = 0
  BY DEF Init
<1>2. 0 .. Len(results) = {0} /\ 1 .. Len(results) = {}
  BY <1>1
<1>3. \A w \in Int : f[0][w] = Blank
  OBVIOUS
<1> HIDE DEF f
<1>4. History(f)
  BY <1>2, <1>3, BlankIs DEF History
<1>5. QED
  BY <1>4

\* A result more goes on with the history there is.
LEMMA HistoryGoesOn ==
  ASSUME Typed, Typed', NEW f, History(f), NEW m \in Result, results' = Append(results, m)
  PROVE  \E g : History(g)' /\ \A n \in 0 .. Len(results) : g[n] = f[n]
<1>a. PICK N : N = Len(results)
  OBVIOUS
<1>b. PICK last : last = [w \in Int |-> Drawn(f[N][w], w, m)]
  OBVIOUS
<1>c. PICK g : g = [n \in 0 .. N + 1 |-> IF n <= N THEN f[n] ELSE last]
  OBVIOUS
<1>1. /\ results \in Seq(Result) /\ N \in Nat /\ Len(results') = N + 1
      /\ \A n \in 1 .. N : results'[n] = results[n] /\ n \in 0 .. N /\ n - 1 \in 0 .. N
      /\ results'[N + 1] = m
  BY <1>a DEF Typed
<1>2. \A n \in 0 .. N : g[n] = f[n]
  BY <1>1, <1>c
<1>3. g[N + 1] = last
  BY <1>1, <1>c
<1>4. ASSUME NEW w \in Int
      PROVE  last[w] \in KlineRecord /\ Whole(last[w]) /\ last[w] = Drawn(g[N][w], w, m)
  <2>1. N \in 0 .. N
    BY <1>1
  <2>2. f[N][w] \in KlineRecord /\ Whole(f[N][w])
    BY <1>a, <1>1, <2>1 DEF History
  <2>3. QED
    BY <1>b, <1>2, <2>1, <2>2, DrawnIs
<1>5. ASSUME NEW n \in 0 .. N + 1, NEW w \in Int
      PROVE  g[n][w] \in KlineRecord /\ Whole(g[n][w])
  <2>1. CASE n \in 0 .. N
    BY <1>a, <1>2, <2>1 DEF History
  <2>2. CASE n = N + 1
    BY <1>3, <1>4, <2>2
  <2>3. QED
    BY <1>1, <2>1, <2>2
<1>6. ASSUME NEW n \in 1 .. N + 1, NEW w \in Int
      PROVE  g[n][w] = Drawn(g[n - 1][w], w, results'[n])
  <2>1. CASE n \in 1 .. N
    BY <1>a, <1>1, <1>2, <2>1 DEF History
  <2>2. CASE n = N + 1
    <3>1. n - 1 = N
      BY <1>1, <2>2
    <3>2. QED
      BY <1>1, <1>3, <1>4, <2>2, <3>1
  <2>3. QED
    BY <1>1, <2>1, <2>2
<1>7. \A w \in Int : g[0][w] = Blank
  BY <1>1, <1>2 DEF History
<1>8. History(g)'
  BY <1>1, <1>5, <1>6, <1>7 DEF History
<1>9. QED
  BY <1>a, <1>2, <1>8

\* One step of the history.
LEMMA HistoryStep ==
  ASSUME Typed, NEW f, History(f), NEW n \in 1 .. Len(results), NEW w \in Int
  PROVE  /\ n - 1 \in 0 .. Len(results) /\ n \in 0 .. Len(results)
         /\ f[n - 1][w] \in KlineRecord /\ Whole(f[n - 1][w])
         /\ f[n][w] = Drawn(f[n - 1][w], w, results[n])
         /\ f[n][w].count =
              IF ~isPendingOrder(results[n]) /\ w = results[n].ts
              THEN f[n - 1][w].count + Len(results[n].fills) ELSE f[n - 1][w].count
         /\ f[n][w].close =
              IF ~isPendingOrder(results[n]) /\ results[n].ts <= w THEN Price(results[n])
              ELSE f[n - 1][w].close
<1>1. n - 1 \in 0 .. Len(results) /\ n \in 0 .. Len(results)
  BY ResultIs
<1>2. f[n - 1][w] \in KlineRecord /\ Whole(f[n - 1][w])
  BY <1>1 DEF History
<1>3. f[n][w] = Drawn(f[n - 1][w], w, results[n])
  BY DEF History
<1>4. QED
  BY <1>1, <1>2, <1>3, ResultIs, DrawnIs

\* A result with trades leaves later windows flat, an earlier one as it was.
LEMMA DrawnApart ==
  ASSUME Typed, NEW i \in 1 .. Len(results), NEW w \in Int, NEW k \in KlineRecord
  PROVE  /\ isPendingOrder(results[i]) \/ w < results[i].ts => Drawn(k, w, results[i]) = k
         /\ ~isPendingOrder(results[i]) /\ results[i].ts < w =>
              /\ Drawn(k, w, results[i]) = Redrawn(k, Price(results[i]))
              /\ k.count = 0 => Drawn(k, w, results[i]) = Flat(Price(results[i]))
         /\ ~isPendingOrder(results[i]) /\ results[i].ts = w =>
              Drawn(k, w, results[i]) = Traded(k, results[i])
         /\ ~isPendingOrder(results[i]) => Price(results[i]) \in Nat \ {0}
<1>1. results[i] \in Result /\ results[i].ts \in Nat
  BY ResultIs
<1>2. ASSUME ~isPendingOrder(results[i])
      PROVE  Price(results[i]) \in Nat \ {0}
  BY <1>1, <1>2, FillsAre
<1>3. ASSUME isPendingOrder(results[i]) \/ w < results[i].ts
      PROVE  Drawn(k, w, results[i]) = k
  BY <1>3 DEF Drawn
<1>4. ASSUME ~isPendingOrder(results[i]), results[i].ts < w
      PROVE  /\ Drawn(k, w, results[i]) = Redrawn(k, Price(results[i]))
             /\ k.count = 0 => Drawn(k, w, results[i]) = Flat(Price(results[i]))
  <2>1. Drawn(k, w, results[i]) = Redrawn(k, Price(results[i]))
    BY <1>1, <1>4 DEF Drawn
  <2>2. QED
    BY <1>2, <1>4, <2>1, RedrawnIs
<1>5. ASSUME ~isPendingOrder(results[i]), results[i].ts = w
      PROVE  Drawn(k, w, results[i]) = Traded(k, results[i])
  BY <1>1, <1>5 DEF Drawn
<1>6. QED
  BY <1>2, <1>3, <1>4, <1>5

\* A window without results of its own or between it and an earlier one closes
\* where that one does.
LEMMA LaterFlat ==
  ASSUME Typed, NEW f, History(f), NEW n \in 0 .. Len(results), NEW v \in Int, NEW w \in Int,
         v < w, \A i \in 1 .. n : ~(v < results[i].ts /\ results[i].ts <= w)
  PROVE  f[n][w] = Flat(f[n][v].close)
<1> DEFINE Bad == {k \in 0 .. n : f[k][w] # Flat(f[k][v].close)}
<1> SUFFICES ASSUME Bad # {} PROVE FALSE
  <2>1. n \in 0 .. n
    BY DEF Typed
  <2>2. QED
    BY <2>1
<1>1. n \in Nat /\ n <= Len(results) /\ Len(results) \in Nat
  BY DEF Typed
<1>2. 0 \notin Bad
  BY BlankIs DEF History
<1>3. PICK k \in 1 .. n : k \in Bad /\ k - 1 \in 0 .. n /\ k - 1 \notin Bad
  <2>1. Bad \subseteq 0 .. n
    OBVIOUS
  <2> HIDE DEF Bad
  <2>2. QED
    BY <1>1, <1>2, <2>1, FirstBad
<1>4. f[k][w] # Flat(f[k][v].close) /\ f[k - 1][w] = Flat(f[k - 1][v].close)
  BY <1>3
<1> HIDE DEF Bad
<1>5. k \in 1 .. Len(results) /\ ~(v < results[k].ts /\ results[k].ts <= w)
  BY <1>1
<1>6. /\ f[k][w] = Drawn(f[k - 1][w], w, results[k])
      /\ f[k][v] = Drawn(f[k - 1][v], v, results[k])
      /\ f[k - 1][w] \in KlineRecord /\ f[k - 1][v] \in KlineRecord
      /\ f[k][v].close = IF ~isPendingOrder(results[k]) /\ results[k].ts <= v THEN Price(results[k])
                         ELSE f[k - 1][v].close
  BY <1>5, HistoryStep
<1>7. f[k - 1][w].count = 0
  BY <1>4 DEF Flat
<1>8. results[k].ts \in Nat
  BY <1>5, ResultIs
<1>9. CASE isPendingOrder(results[k]) \/ w < results[k].ts
  <2>1. f[k][w] = f[k - 1][w]
    BY <1>5, <1>6, <1>9, DrawnApart
  <2>2. f[k][v].close = f[k - 1][v].close
    BY <1>6, <1>8, <1>9
  <2>3. QED
    BY <1>4, <2>1, <2>2
<1>10. CASE ~isPendingOrder(results[k]) /\ results[k].ts <= w
  <2>1. results[k].ts <= v /\ results[k].ts < w
    BY <1>5, <1>8, <1>10
  <2>2. f[k][w] = Flat(Price(results[k]))
    BY <1>5, <1>6, <1>7, <1>10, <2>1, DrawnApart
  <2>3. QED
    BY <1>4, <1>6, <1>10, <2>1, <2>2
<1>11. QED
  BY <1>8, <1>9, <1>10

\* Once there is a price there is one in every later window.
LEMMA PricesSpread ==
  ASSUME Typed, NEW f, History(f), NEW n \in 0 .. Len(results), NEW v \in Int, NEW w \in Int,
         v < w, f[n][v].low # 0
  PROVE  f[n][w].low # 0
<1> DEFINE Bad == {k \in 0 .. n : f[k][v].low # 0 /\ f[k][w].low = 0}
<1> SUFFICES ASSUME Bad # {} PROVE FALSE
  <2>1. n \in 0 .. n
    BY DEF Typed
  <2>2. QED
    BY <2>1
<1>1. n \in Nat /\ n <= Len(results) /\ Len(results) \in Nat
  BY DEF Typed
<1>2. 0 \notin Bad
  BY DEF History, Blank
<1>3. PICK k \in 1 .. n : k \in Bad /\ k - 1 \in 0 .. n /\ k - 1 \notin Bad
  <2>1. Bad \subseteq 0 .. n
    OBVIOUS
  <2> HIDE DEF Bad
  <2>2. QED
    BY <1>1, <1>2, <2>1, FirstBad
<1>4. f[k][v].low # 0 /\ f[k][w].low = 0 /\ (f[k - 1][v].low # 0 => f[k - 1][w].low # 0)
  BY <1>3
<1> HIDE DEF Bad
<1>5. k \in 1 .. Len(results)
  BY <1>1
<1>6. /\ f[k][w] = Drawn(f[k - 1][w], w, results[k])
      /\ f[k][v] = Drawn(f[k - 1][v], v, results[k])
      /\ f[k - 1][w] \in KlineRecord /\ f[k - 1][v] \in KlineRecord
      /\ f[k][w].close = IF ~isPendingOrder(results[k]) /\ results[k].ts <= w THEN Price(results[k])
                         ELSE f[k - 1][w].close
      /\ k \in 0 .. Len(results)
  BY <1>5, HistoryStep
<1>7. f[k][w].close = 0
  BY <1>4, <1>6 DEF History, Whole
<1>8. results[k].ts \in Nat
  BY <1>5, ResultIs
<1>9. CASE isPendingOrder(results[k]) \/ w < results[k].ts
  <2>1. isPendingOrder(results[k]) \/ v < results[k].ts
    BY <1>8, <1>9
  <2>2. f[k][w] = f[k - 1][w] /\ f[k][v] = f[k - 1][v]
    BY <1>5, <1>6, <1>9, <2>1, DrawnApart
  <2>3. QED
    BY <1>4, <2>2
<1>10. CASE ~isPendingOrder(results[k]) /\ results[k].ts <= w
  <2>1. Price(results[k]) \in Nat \ {0}
    BY <1>5, <1>6, <1>10, DrawnApart
  <2>2. QED
    BY <1>6, <1>7, <1>10, <2>1
<1>11. QED
  BY <1>8, <1>9, <1>10

\* The results of a window and those to it, with one result more.
LEMMA AtStep ==
  ASSUME Typed, NEW n \in 1 .. Len(results), NEW w \in Int
  PROVE  LET m == results[n]
             S == Traders(1 .. n)
             P == Traders(1 .. n - 1)
         IN  /\ At(S, w) \in SUBSET (1 .. n) /\ UpTo(S, w) \in SUBSET (1 .. n)
             /\ n \notin At(P, w) /\ n \notin UpTo(P, w) /\ P \subseteq S
             /\ At(P, w) \in SUBSET (1 .. n - 1) /\ UpTo(P, w) \in SUBSET (1 .. n - 1)
             /\ At(S, w) = IF ~isPendingOrder(m) /\ m.ts = w THEN At(P, w) \cup {n} ELSE At(P, w)
             /\ UpTo(S, w) = IF ~isPendingOrder(m) /\ m.ts <= w THEN UpTo(P, w) \cup {n}
                             ELSE UpTo(P, w)
<1>1. /\ Traders(1 .. n) \in SUBSET (1 .. n) /\ n \notin Traders(1 .. n - 1)
      /\ Traders(1 .. n) = IF isPendingOrder(results[n]) THEN Traders(1 .. n - 1)
                           ELSE Traders(1 .. n - 1) \cup {n}
      /\ Traders(1 .. n - 1) \in SUBSET (1 .. n - 1)
  BY TradersStep DEF Traders
<1>2. QED
  BY <1>1 DEF At, UpTo

\* Before the first result there is none.
LEMMA NoneYet ==
  ASSUME NEW w \in Int
  PROVE  /\ Traders(1 .. 0) = {}
         /\ At(Traders(1 .. 0), w) = {} /\ UpTo(Traders(1 .. 0), w) = {}
<1>1. 1 .. 0 = {}
  OBVIOUS
<1>2. QED
  BY <1>1 DEF Traders, At, UpTo

\* A kline of the history counts the trades of its window.
LEMMA CountIs ==
  ASSUME Typed, NEW f, History(f), NEW n \in 0 .. Len(results), NEW w \in Int
  PROVE  f[n][w].count = Trades(At(Traders(1 .. n), w))
<1> DEFINE Bad == {k \in 0 .. n : f[k][w].count # Trades(At(Traders(1 .. k), w))}
<1> SUFFICES ASSUME Bad # {} PROVE FALSE
  <2>1. n \in 0 .. n
    BY DEF Typed
  <2>2. QED
    BY <2>1
<1>1. n \in Nat /\ n <= Len(results) /\ Len(results) \in Nat
  BY DEF Typed
<1>2. 0 \notin Bad
  BY NoneYet, TradesNone, BlankIs DEF History
<1>3. PICK k \in 1 .. n : k \in Bad /\ k - 1 \in 0 .. n /\ k - 1 \notin Bad
  <2>1. Bad \subseteq 0 .. n
    OBVIOUS
  <2> HIDE DEF Bad
  <2>2. QED
    BY <1>1, <1>2, <2>1, FirstBad
<1>4. /\ f[k][w].count # Trades(At(Traders(1 .. k), w))
      /\ f[k - 1][w].count = Trades(At(Traders(1 .. k - 1), w))
  BY <1>3
<1> HIDE DEF Bad
<1>5. k \in 1 .. Len(results) /\ 1 .. k - 1 \subseteq 1 .. Len(results)
  BY <1>1
<1>6. f[k][w].count = IF ~isPendingOrder(results[k]) /\ w = results[k].ts
                      THEN f[k - 1][w].count + Len(results[k].fills) ELSE f[k - 1][w].count
  BY <1>5, HistoryStep
<1>7. /\ k \notin At(Traders(1 .. k - 1), w)
      /\ At(Traders(1 .. k - 1), w) \in SUBSET (1 .. k - 1)
      /\ At(Traders(1 .. k), w) = IF ~isPendingOrder(results[k]) /\ results[k].ts = w
                                  THEN At(Traders(1 .. k - 1), w) \cup {k}
                                  ELSE At(Traders(1 .. k - 1), w)
  BY <1>5, AtStep
<1>8. Trades(At(Traders(1 .. k - 1), w) \cup {k})
        = Trades(At(Traders(1 .. k - 1), w)) + Len(results[k].fills)
  BY <1>5, <1>7, TradesAdd
<1>9. QED
  BY <1>4, <1>6, <1>7, <1>8

\* It closes at the price of the newest result to its window.
LEMMA CloseIs ==
  ASSUME Typed, NEW f, History(f), NEW n \in 0 .. Len(results), NEW w \in Int
  PROVE  f[n][w].close = LastPrice(UpTo(Traders(1 .. n), w))
<1> DEFINE Bad == {k \in 0 .. n : f[k][w].close # LastPrice(UpTo(Traders(1 .. k), w))}
<1> SUFFICES ASSUME Bad # {} PROVE FALSE
  <2>1. n \in 0 .. n
    BY DEF Typed
  <2>2. QED
    BY <2>1
<1>1. n \in Nat /\ n <= Len(results) /\ Len(results) \in Nat
  BY DEF Typed
<1>2. 0 \notin Bad
  BY NoneYet, BlankIs DEF History, LastPrice
<1>3. PICK k \in 1 .. n : k \in Bad /\ k - 1 \in 0 .. n /\ k - 1 \notin Bad
  <2>1. Bad \subseteq 0 .. n
    OBVIOUS
  <2> HIDE DEF Bad
  <2>2. QED
    BY <1>1, <1>2, <2>1, FirstBad
<1>4. /\ f[k][w].close # LastPrice(UpTo(Traders(1 .. k), w))
      /\ f[k - 1][w].close = LastPrice(UpTo(Traders(1 .. k - 1), w))
  BY <1>3
<1> HIDE DEF Bad
<1>5. k \in 1 .. Len(results) /\ k \in Nat \ {0}
  BY <1>1
<1>6. f[k][w].close = IF ~isPendingOrder(results[k]) /\ results[k].ts <= w THEN Price(results[k])
                      ELSE f[k - 1][w].close
  BY <1>5, HistoryStep
<1> DEFINE S == UpTo(Traders(1 .. k), w)
           P == UpTo(Traders(1 .. k - 1), w)
<1>7. /\ S \in SUBSET (1 .. k) /\ P \in SUBSET (1 .. k - 1)
      /\ S = IF ~isPendingOrder(results[k]) /\ results[k].ts <= w THEN P \cup {k} ELSE P
  BY <1>5, AtStep
<1> HIDE DEF S, P
<1>8. CASE ~isPendingOrder(results[k]) /\ results[k].ts <= w
  <2>1. S # {} /\ k \in S /\ S \subseteq Int /\ \A i \in S : i <= k
    BY <1>5, <1>7, <1>8
  <2>2. IsFiniteSet(S)
    BY <1>5, <1>7, NumbersTo, FS_Subset
  <2>3. Max(S) = k
    BY <2>1, <2>2, MaxIs
  <2>4. LastPrice(S) = Price(results[k])
    BY <2>1, <2>3 DEF LastPrice
  <2>5. QED
    BY <1>4, <1>6, <1>8, <2>4 DEF S
<1>9. CASE ~(~isPendingOrder(results[k]) /\ results[k].ts <= w)
  BY <1>4, <1>6, <1>7, <1>9 DEF S, P
<1>10. QED
  BY <1>8, <1>9

\* Results have trades when one of them has.
LEMMA TradesSome ==
  ASSUME Typed, NEW S \in SUBSET (1 .. Len(results)), NEW i \in S, ~isPendingOrder(results[i])
  PROVE  Trades(S) # 0
<1>1. i \in 1 .. Len(results) /\ S \ {i} \in SUBSET (1 .. Len(results)) /\ i \notin S \ {i}
      /\ (S \ {i}) \cup {i} = S
  OBVIOUS
<1>2. Trades(S) = Trades(S \ {i}) + Len(results[i].fills)
  BY <1>1, TradesAdd
<1>3. Len(results[i].fills) \in Nat \ {0} /\ Trades(S \ {i}) \in Nat
  BY <1>1, ResultIs, TradesFinite
<1>4. QED
  BY <1>2, <1>3

\* Without results of its own it is flat.
LEMMA FlatIs ==
  ASSUME Typed, NEW f, History(f), NEW n \in 0 .. Len(results), NEW w \in Int,
         At(Traders(1 .. n), w) = {}
  PROVE  f[n][w] = Flat(f[n][w].close)
<1> DEFINE Bad == {k \in 0 .. n : /\ At(Traders(1 .. k), w) = {}
                                  /\ f[k][w] # Flat(f[k][w].close)}
<1> SUFFICES ASSUME Bad # {} PROVE FALSE
  <2>1. n \in 0 .. n
    BY DEF Typed
  <2>2. QED
    BY <2>1
<1>1. n \in Nat /\ n <= Len(results) /\ Len(results) \in Nat
  BY DEF Typed
<1>2. 0 \notin Bad
  BY BlankIs DEF History
<1>3. PICK k \in 1 .. n : k \in Bad /\ k - 1 \in 0 .. n /\ k - 1 \notin Bad
  <2>1. Bad \subseteq 0 .. n
    OBVIOUS
  <2> HIDE DEF Bad
  <2>2. QED
    BY <1>1, <1>2, <2>1, FirstBad
<1>4. /\ At(Traders(1 .. k), w) = {} /\ f[k][w] # Flat(f[k][w].close)
      /\ At(Traders(1 .. k - 1), w) = {} => f[k - 1][w] = Flat(f[k - 1][w].close)
  BY <1>3
<1> HIDE DEF Bad
<1>5. k \in 1 .. Len(results)
  BY <1>1
<1>6. /\ At(Traders(1 .. k), w) = IF ~isPendingOrder(results[k]) /\ results[k].ts = w
                                  THEN At(Traders(1 .. k - 1), w) \cup {k}
                                  ELSE At(Traders(1 .. k - 1), w)
  BY <1>5, AtStep
<1>7. /\ ~(~isPendingOrder(results[k]) /\ results[k].ts = w)
      /\ f[k - 1][w] = Flat(f[k - 1][w].close)
  BY <1>4, <1>6
<1>8. /\ f[k][w] = Drawn(f[k - 1][w], w, results[k]) /\ f[k - 1][w] \in KlineRecord
  BY <1>5, HistoryStep
<1>9. f[k - 1][w].count = 0 /\ results[k].ts \in Nat
  BY <1>5, <1>7, ResultIs DEF Flat
<1>10. CASE isPendingOrder(results[k]) \/ w < results[k].ts
  BY <1>4, <1>5, <1>7, <1>8, <1>10, DrawnApart
<1>11. CASE ~isPendingOrder(results[k]) /\ results[k].ts < w
  <2>1. f[k][w] = Flat(Price(results[k]))
    BY <1>5, <1>8, <1>9, <1>11, DrawnApart
  <2>2. f[k][w].close = Price(results[k])
    BY <2>1 DEF Flat
  <2>3. QED
    BY <1>4, <2>1, <2>2
<1>12. QED
  BY <1>7, <1>9, <1>10, <1>11

\* The greatest and the least of two sets, from that of the first.
LEMMA GreatestOfBoth ==
  ASSUME NEW A, NEW B, A \subseteq Nat, B \subseteq Nat, A # {}, IsFiniteSet(A), IsFiniteSet(B)
  PROVE  /\ Max({Max(A)} \cup B) = Max(A \cup B) /\ Min({Min(A)} \cup B) = Min(A \cup B)
         /\ IsFiniteSet(A \cup B)
<1>1. A \subseteq Int /\ B \subseteq Int
  OBVIOUS
<1>2. Max(A) \in A /\ \A x \in A : x <= Max(A)
  BY <1>1, MaxIs
<1>3. Min(A) \in A /\ \A x \in A : Min(A) <= x
  BY MinIs
<1>4. IsFiniteSet(A \cup B)
  BY FS_Union
<1> DEFINE H == {Max(A)} \cup B
           L == {Min(A)} \cup B
<1>5. H \subseteq Int /\ H # {} /\ IsFiniteSet(H) /\ L \subseteq Nat /\ L # {} /\ H \subseteq A \cup B
      /\ L \subseteq A \cup B
  <2>1. IsFiniteSet(H)
    BY <1>2, <1>4, FS_Subset
  <2>2. QED
    BY <1>1, <1>2, <1>3, <2>1
<1>6. Max(H) \in H /\ Max(H) \in Int /\ \A x \in H : x <= Max(H)
  <2> HIDE DEF H
  <2>1. QED
    BY <1>5, MaxIs
<1>7. Min(L) \in L /\ Min(L) \in Nat /\ \A x \in L : Min(L) <= x
  <2> HIDE DEF L
  <2>1. QED
    BY <1>5, MinIs
<1>8. \A x \in A \cup B : x <= Max(H)
  <2>1. ASSUME NEW x \in A
        PROVE  x <= Max(H)
    <3>1. x <= Max(A) /\ Max(A) <= Max(H) /\ x \in Int /\ Max(A) \in Int
      BY <1>1, <1>2, <1>6
    <3> HIDE DEF H
    <3>2. QED
      BY <1>6, <3>1
  <2>2. \A x \in B : x <= Max(H)
    BY <1>6
  <2>3. QED
    BY <2>1, <2>2
<1>9. \A x \in A \cup B : Min(L) <= x
  <2>1. ASSUME NEW x \in A
        PROVE  Min(L) <= x
    <3>1. Min(A) <= x /\ Min(L) <= Min(A) /\ x \in Int /\ Min(A) \in Int
      BY <1>1, <1>3, <1>7
    <3> HIDE DEF L
    <3>2. QED
      BY <1>7, <3>1
  <2>2. \A x \in B : Min(L) <= x
    BY <1>7
  <2>3. QED
    BY <2>1, <2>2
<1>10. Max(H) \in A \cup B /\ Min(L) \in A \cup B
  BY <1>5, <1>6, <1>7
<1>11. A \cup B \subseteq Int /\ A \cup B \subseteq Nat /\ A \cup B # {}
  BY <1>1
<1> HIDE DEF H, L
<1>12. Max(A \cup B) = Max(H)
  BY <1>4, <1>8, <1>10, <1>11, MaxIs
<1>13. Min(A \cup B) = Min(L)
  BY <1>9, <1>10, <1>11, MinIs
<1>14. QED
  BY <1>4, <1>12, <1>13 DEF H, L

\* The prices of results S.
PricesOf(S) == UNION {Range(results[i].fills) : i \in S}

\* Kline k opens at the first trade of results S and spans all of them.
SpansTrades(k, S) ==
  /\ IsFiniteSet(PricesOf(S)) /\ PricesOf(S) \subseteq Nat
  /\ k.open = getStartPrice(results[Min(S)])
  /\ k.high = Max(PricesOf(S)) /\ k.low = Min(PricesOf(S))

\* The first trades of a window.
LEMMA SpansFirst ==
  ASSUME Typed, NEW n \in 1 .. Len(results), ~isPendingOrder(results[n]),
         NEW k \in KlineRecord, k.count = 0
  PROVE  SpansTrades(Traded(k, results[n]), {n})
<1>1. results[n] \in Result /\ n \in Nat
  BY ResultIs
<1>2. PricesOf({n}) = Range(results[n].fills)
  BY DEF PricesOf
<1>3. IsFiniteSet(Range(results[n].fills)) /\ Range(results[n].fills) \subseteq Nat
  BY <1>1, FillsAre
<1>4. Min({n}) = n
  <2>1. {n} \subseteq Nat /\ {n} # {} /\ n \in {n} /\ \A x \in {n} : n <= x
    BY <1>1
  <2>2. QED
    BY <2>1, MinIs
<1>5. /\ Traded(k, results[n]).open = getStartPrice(results[n])
      /\ Traded(k, results[n]).high = Max(Range(results[n].fills))
      /\ Traded(k, results[n]).low = Min(Range(results[n].fills))
  BY <1>1, TradedIs
<1>6. QED
  BY <1>2, <1>3, <1>4, <1>5 DEF SpansTrades

\* More trades of a window.
LEMMA SpansMore ==
  ASSUME Typed, NEW n \in 1 .. Len(results), ~isPendingOrder(results[n]),
         NEW S \in SUBSET (1 .. n - 1), S # {},
         NEW k \in KlineRecord, k.count # 0, SpansTrades(k, S),
         \A i \in S : ~isPendingOrder(results[i])
  PROVE  SpansTrades(Traded(k, results[n]), S \cup {n})
<1>1. results[n] \in Result /\ n \in Nat
  BY ResultIs
<1> DEFINE B == Range(results[n].fills)
<1>2. PricesOf(S \cup {n}) = PricesOf(S) \cup B
  BY DEF PricesOf
<1>3. IsFiniteSet(B) /\ B \subseteq Nat
  BY <1>1, FillsAre
<1>4. PricesOf(S) # {}
  <2>1. PICK i \in S : TRUE
    OBVIOUS
  <2>2. i \in 1 .. Len(results) /\ results[i] \in Result /\ ~isPendingOrder(results[i])
    <3>1. i \in 1 .. Len(results)
      BY <2>1, ResultIs
    <3>2. QED
      BY <2>1, <3>1, ResultIs
  <2>3. Price(results[i]) \in Range(results[i].fills)
    BY <2>2, FillsAre
  <2>4. QED
    BY <2>1, <2>3 DEF PricesOf
<1>5. /\ IsFiniteSet(PricesOf(S)) /\ PricesOf(S) \subseteq Nat
      /\ k.open = getStartPrice(results[Min(S)])
      /\ k.high = Max(PricesOf(S)) /\ k.low = Min(PricesOf(S))
  BY DEF SpansTrades
<1>6. /\ Max({Max(PricesOf(S))} \cup B) = Max(PricesOf(S) \cup B)
      /\ Min({Min(PricesOf(S))} \cup B) = Min(PricesOf(S) \cup B)
      /\ IsFiniteSet(PricesOf(S) \cup B)
  <2> HIDE DEF B
  <2>1. QED
    BY <1>3, <1>4, <1>5, GreatestOfBoth
<1>7. Min(S \cup {n}) = Min(S)
  <2>1. S \subseteq Nat /\ S \cup {n} \subseteq Nat /\ S \cup {n} # {} /\ \A i \in S : i <= n
    BY <1>1
  <2>2. Min(S) \in S /\ \A i \in S : Min(S) <= i
    BY <2>1, MinIs
  <2>3. Min(S) \in S \cup {n} /\ \A i \in S \cup {n} : Min(S) <= i
    BY <2>1, <2>2
  <2>4. QED
    BY <2>1, <2>3, MinIs
<1>8. /\ Traded(k, results[n]).open = k.open
      /\ Traded(k, results[n]).high = Max({k.high} \cup B)
      /\ Traded(k, results[n]).low = Min({k.low} \cup B)
  BY <1>1, TradedIs
<1>9. QED
  BY <1>2, <1>3, <1>5, <1>6, <1>7, <1>8 DEF SpansTrades

\* When the orders came in the order of their times a kline opens at the first
\* trade of its window and spans all of them.
LEMMA SpanIs ==
  ASSUME Typed, NEW f, History(f), NEW n \in 0 .. Len(results), NEW w \in Int,
         At(Traders(1 .. n), w) # {}, InOrder(Traders(1 .. n))
  PROVE  SpansTrades(f[n][w], At(Traders(1 .. n), w))
<1> DEFINE Here(k) == At(Traders(1 .. k), w)
           Bad == {k \in 0 .. n : /\ Here(k) # {} /\ InOrder(Traders(1 .. k))
                                  /\ ~SpansTrades(f[k][w], Here(k))}
<1> SUFFICES ASSUME Bad # {} PROVE FALSE
  <2>1. n \in 0 .. n
    BY DEF Typed
  <2>2. QED
    BY <2>1
<1>1. n \in Nat /\ n <= Len(results) /\ Len(results) \in Nat
  BY DEF Typed
<1>2. 0 \notin Bad
  BY NoneYet
<1>3. PICK k \in 1 .. n : k \in Bad /\ k - 1 \in 0 .. n /\ k - 1 \notin Bad
  <2>1. Bad \subseteq 0 .. n
    OBVIOUS
  <2> HIDE DEF Bad
  <2>2. QED
    BY <1>1, <1>2, <2>1, FirstBad
<1>4. /\ Here(k) # {} /\ InOrder(Traders(1 .. k)) /\ ~SpansTrades(f[k][w], Here(k))
      /\ Here(k - 1) # {} /\ InOrder(Traders(1 .. k - 1)) => SpansTrades(f[k - 1][w], Here(k - 1))
  BY <1>3
<1> HIDE DEF Bad
<1>5. k \in 1 .. Len(results)
  BY <1>1
<1> DEFINE m == results[k]
           P == Traders(1 .. k - 1)
           S == Traders(1 .. k)
<1>6. /\ P \subseteq S /\ Here(k - 1) \in SUBSET (1 .. k - 1)
      /\ Here(k) = IF ~isPendingOrder(m) /\ m.ts = w THEN Here(k - 1) \cup {k} ELSE Here(k - 1)
  BY <1>5, AtStep
<1>7. InOrder(P)
  BY <1>4, <1>6 DEF InOrder
<1>8. /\ f[k][w] = Drawn(f[k - 1][w], w, m) /\ f[k - 1][w] \in KlineRecord
      /\ k - 1 \in 0 .. Len(results) /\ m.ts \in Nat /\ m \in Result
  <2>1. /\ f[k][w] = Drawn(f[k - 1][w], w, results[k]) /\ f[k - 1][w] \in KlineRecord
        /\ k - 1 \in 0 .. Len(results)
    BY <1>5, HistoryStep
  <2>2. results[k].ts \in Nat /\ results[k] \in Result
    BY <1>5, ResultIs
  <2>3. QED
    BY <2>1, <2>2
<1>9. f[k - 1][w].count = Trades(Here(k - 1))
  BY <1>8, CountIs
<1>10. \A i \in Here(k - 1) :
         /\ i \in 1 .. Len(results) /\ i < k /\ i \in P /\ ~isPendingOrder(results[i])
         /\ results[i].ts = w
  BY <1>5, <1>6 DEF At, Traders
<1> HIDE DEF Here
<1>11. CASE isPendingOrder(m) \/ w < m.ts
  <2>1. f[k][w] = f[k - 1][w]
    BY <1>5, <1>8, <1>11, DrawnApart
  <2>2. Here(k) = Here(k - 1)
    BY <1>6, <1>8, <1>11
  <2>3. QED
    BY <1>4, <1>7, <2>1, <2>2
<1>12. CASE ~isPendingOrder(m) /\ m.ts < w
  <2>1. Here(k) = Here(k - 1)
    BY <1>6, <1>8, <1>12
  <2>2. PICK i \in Here(k - 1) : TRUE
    BY <1>4, <2>1
  <2>3. i \in S /\ i < k /\ results[i].ts = w
    BY <1>6, <1>10, <2>2
  <2>4. k \in S
    BY <1>5, <1>12 DEF Traders
  <2>5. w <= m.ts
    BY <1>4, <2>3, <2>4 DEF InOrder
  <2>6. QED
    BY <1>8, <1>12, <2>5
<1>13. CASE ~isPendingOrder(m) /\ m.ts = w
  <2>1. f[k][w] = Traded(f[k - 1][w], m) /\ Here(k) = Here(k - 1) \cup {k}
    BY <1>5, <1>6, <1>8, <1>13, DrawnApart
  <2>2. CASE Here(k - 1) = {}
    <3>1. f[k - 1][w].count = 0 /\ Here(k) = {k}
      BY <1>9, <2>1, <2>2, TradesNone
    <3>2. QED
      BY <1>4, <1>5, <1>8, <1>13, <2>1, <3>1, SpansFirst
  <2>3. CASE Here(k - 1) # {}
    <3>1. f[k - 1][w].count # 0
      <4>1. PICK i \in Here(k - 1) : TRUE
        BY <2>3
      <4>2. Here(k - 1) \in SUBSET (1 .. Len(results)) /\ ~isPendingOrder(results[i])
        BY <1>10, <4>1
      <4>3. QED
        BY <1>9, <4>2, TradesSome
    <3>2. SpansTrades(f[k - 1][w], Here(k - 1))
      BY <1>4, <1>7, <2>3
    <3>3. QED
      BY <1>4, <1>5, <1>6, <1>8, <1>10, <1>13, <2>1, <2>3, <3>1, <3>2, SpansMore
  <2>4. QED
    BY <2>2, <2>3
<1>14. QED
  BY <1>8, <1>11, <1>12, <1>13

-----------------------------------------------------------------------------
(* The market follows the history *)

\* The number of results a goroutine has accounted for.
Quoted(goroutine) == IF hand # {} /\ goroutine \notin hand THEN maxId + 1 ELSE maxId

\* The buckets of market mk are what the history has for n results.
MarketFollows(f, n, mk) ==
  /\ \A i \in Buckets : mk.bucket[i] = f[n][mk.top - i]
  /\ \A j \in 1 .. n : results[j].ts <= mk.top

\* The results of the day that ends with window top.
OfDay(S, top) == {i \in S : results[i].ts \in top - DaySize + 1 .. top}

\* Summary d counts the trades of the day of market mk after n results and, unless
\* one was too old, closes and spans as the buckets do.
DetailFollows(d, mk, n, old) ==
  /\ d.count = Trades(OfDay(Traders(1 .. n), mk.top))
  /\ old \/ /\ d.close = mk.bucket[0].close
            /\ \A i \in Buckets : mk.bucket[i].close # 0 =>
                 /\ d.low # 0 /\ d.low <= mk.bucket[i].close
                 /\ mk.bucket[i].close <= d.high

\* What each step of the market's goroutine keeps.
MarketHolds(f) ==
  /\ MarketFollows(f, Quoted("market"), market)
  /\ DetailFollows(detail, market, Quoted("market"), late)
  /\ file # NoFile => MarketFollows(f, file.maxId, file.market)
  /\ snapping => hand = {}

\* The results quoted are results.
LEMMA QuotedIs ==
  ASSUME Typed, NEW g
  PROVE  /\ Quoted(g) \in 0 .. Len(results) /\ QuotedBy(g) = 1 .. Quoted(g)
         /\ hand = {} => Quoted(g) = maxId
         /\ g \in hand => Quoted(g) = maxId
         /\ maxId <= Quoted(g)
<1>1. maxId \in 0 .. Len(results) /\ (hand # {} => maxId < Len(results)) /\ Len(results) \in Nat
  BY DEF Typed, CandleTypeOK
<1>2. QED
  BY <1>1 DEF Quoted, QuotedBy

\* A goroutine that is done has quoted one result more, the other as many.
LEMMA QuotedDone ==
  ASSUME Typed, Typed', results' = results,
         NEW g \in {"kline", "market"}, g \in hand, Done(g)
  PROVE  /\ Quoted(g) = maxId /\ Quoted(g)' = maxId + 1
         /\ \A h \in {"kline", "market"} : h # g => Quoted(h)' = Quoted(h)
<1>1. hand' = hand \ {g} /\ maxId' = (IF hand = {g} THEN maxId + 1 ELSE maxId)
      /\ hand \subseteq {"kline", "market"}
  BY DEF Done, Typed, CandleTypeOK
<1>2. PICK h \in {"kline", "market"} : h # g
  OBVIOUS
<1>3. CASE h \in hand
  <2>1. hand' = {h}
    <3>1. \A x \in hand : x = g \/ x = h
      BY <1>1, <1>2
    <3>2. hand' = hand \ {g}
      BY <1>1
    <3>3. \A x : x \in hand' <=> x = h
      BY <1>2, <1>3, <3>1, <3>2
    <3>4. QED
      BY <3>3
  <2>a. hand # {g} /\ maxId' = maxId
    BY <1>1, <1>2, <1>3
  <2>2. QED
    BY <1>1, <1>2, <1>3, <2>1, <2>a DEF Quoted
<1>4. CASE h \notin hand
  <2>1. hand' = {} /\ hand = {g} /\ maxId' = maxId + 1
    BY <1>1, <1>2, <1>4
  <2>2. QED
    BY <1>1, <1>2, <1>4, <2>1 DEF Quoted
<1>5. QED
  BY <1>3, <1>4

\* A bucket is a number.
LEMMA BucketIs ==
  ASSUME NEW i \in Buckets
  PROVE  i \in Nat /\ i < DaySize /\ DaySize \in Nat \ {0} /\ 0 \in Buckets
BY KlineAssumption DEF Buckets

\* Buckets moved on to now still follow.
LEMMA FollowsShift ==
  ASSUME Typed, NEW f, History(f), NEW n \in 0 .. Len(results), NEW now \in Nat,
         NEW mk, MarketTyped(mk, now), MarketFollows(f, n, mk)
  PROVE  MarketFollows(f, n, Shifted(mk, now))
<1>1. PICK new : new = Shifted(mk, now)
  OBVIOUS
<1>2. mk.top \in Nat /\ mk.top <= now
  BY DEF MarketTyped
<1>3. /\ new.top = now
      /\ \A i \in Buckets :
           new.bucket[i] = IF i < now - mk.top THEN Flat(mk.bucket[0].close)
                           ELSE mk.bucket[i - (now - mk.top)]
  BY <1>1, ShiftedIs
<1>4. ASSUME NEW i \in Buckets
      PROVE  new.bucket[i] = f[n][now - i]
  <2>1. /\ i \in Nat /\ 0 \in Buckets /\ now - i \in Int /\ mk.top \in Int /\ mk.top - 0 = mk.top
        /\ i < DaySize /\ DaySize \in Nat
    BY <1>2, BucketIs
  <2>2. CASE i < now - mk.top
    <3>1. mk.top < now - i
      BY <1>2, <2>1, <2>2
    <3>2. \A j \in 1 .. n : ~(mk.top < results[j].ts /\ results[j].ts <= now - i)
      <4>1. ASSUME NEW j \in 1 .. n PROVE ~(mk.top < results[j].ts)
        <5>1. j \in 1 .. Len(results) /\ results[j].ts <= mk.top
          BY <1>2 DEF MarketFollows, Typed
        <5>2. QED
          BY <1>2, <5>1, ResultIs
      <4>2. QED
        BY <4>1
    <3>3. f[n][now - i] = Flat(f[n][mk.top].close)
      <4>1. PICK w \in Int : w = now - i
        BY <2>1
      <4>2. PICK v \in Int : v = mk.top
        BY <2>1
      <4>a. v < w /\ \A j \in 1 .. n : ~(v < results[j].ts /\ results[j].ts <= w)
        BY <3>1, <3>2, <4>1, <4>2
      <4>3. f[n][w] = Flat(f[n][v].close)
        BY <4>a, LaterFlat
      <4>4. QED
        BY <4>1, <4>2, <4>3
    <3>4. mk.bucket[0] = f[n][mk.top]
      BY <2>1 DEF MarketFollows
    <3>5. QED
      BY <1>3, <2>2, <3>3, <3>4
  <2>3. CASE ~(i < now - mk.top)
    <3>1. i - (now - mk.top) \in Buckets /\ mk.top - (i - (now - mk.top)) = now - i
      BY <1>2, <2>1, <2>3 DEF Buckets
    <3>2. QED
      BY <1>3, <2>3, <3>1 DEF MarketFollows
  <2>4. QED
    BY <2>2, <2>3
<1>5. \A j \in 1 .. n : results[j].ts <= now
  <2>1. ASSUME NEW j \in 1 .. n PROVE results[j].ts <= now
    <3>1. j \in 1 .. Len(results) /\ results[j].ts <= mk.top
      BY DEF MarketFollows, Typed
    <3>2. QED
      BY <1>2, <3>1, ResultIs
  <2>2. QED
    BY <2>1
<1>6. MarketFollows(f, n, new)
  BY <1>3, <1>4, <1>5 DEF MarketFollows
<1>7. QED
  BY <1>1, <1>6

\* They follow with a result more, whether it traded or not.
LEMMA FollowsResult ==
  ASSUME Typed, NEW f, History(f), NEW n \in 1 .. Len(results), NEW now \in Nat,
         NEW mk, MarketTyped(mk, now), mk = [top |-> now, bucket |-> mk.bucket],
         MarketFollows(f, n - 1, mk), results[n].ts <= now
  PROVE  /\ isPendingOrder(results[n]) => MarketFollows(f, n, mk)
         /\ ~isPendingOrder(results[n]) => MarketFollows(f, n, MarketWith(mk, results[n], now))
<1>1. mk.top = now /\ n \in Nat \ {0} /\ results[n] \in Result
  BY ResultIs
<1>2. ASSUME NEW i \in Buckets
      PROVE  /\ now - i \in Int /\ f[n][now - i] = Drawn(f[n - 1][now - i], now - i, results[n])
             /\ mk.bucket[i] = f[n - 1][now - i] /\ f[n - 1][now - i] \in KlineRecord
  <2>1. now - i \in Int
    BY BucketIs
  <2>2. QED
    BY <1>1, <2>1, HistoryStep DEF MarketFollows
<1>3. \A j \in 1 .. n : results[j].ts <= now
  <2>1. ASSUME NEW j \in 1 .. n PROVE j = n \/ j \in 1 .. n - 1
    BY <1>1
  <2>2. QED
    BY <1>1, <2>1 DEF MarketFollows
<1>4. ASSUME isPendingOrder(results[n])
      PROVE  MarketFollows(f, n, mk)
  <2>1. \A i \in Buckets : mk.bucket[i] = f[n][now - i]
    BY <1>2, <1>4 DEF Drawn
  <2>2. QED
    BY <1>1, <1>3, <2>1 DEF MarketFollows
<1>5. ASSUME ~isPendingOrder(results[n])
      PROVE  MarketFollows(f, n, MarketWith(mk, results[n], now))
  <2>1. PICK new : new = MarketWith(mk, results[n], now)
    OBVIOUS
  <2>2. new.top = now /\ \A i \in Buckets : new.bucket[i] = Drawn(mk.bucket[i], now - i, results[n])
    BY <1>1, <1>5, <2>1, MarketWithIs
  <2>3. MarketFollows(f, n, new)
    BY <1>2, <1>3, <2>2 DEF MarketFollows
  <2>4. QED
    BY <2>1, <2>3
<1>6. QED
  BY <1>4, <1>5

\* The summary of buckets that follow counts the trades of their day.
LEMMA SummaryCount ==
  ASSUME Typed, NEW f, History(f), NEW n \in 0 .. Len(results),
         NEW now \in Nat, NEW mk, MarketTyped(mk, now), MarketFollows(f, n, mk)
  PROVE  Summary(mk).count = Trades(OfDay(Traders(1 .. n), mk.top))
<1>1. DaySize \in Nat \ {0} /\ Buckets = 0 .. DaySize - 1 /\ mk.top \in Nat
      /\ mk.bucket \in [Buckets -> KlineRecord]
  BY KlineAssumption DEF Buckets, MarketTyped
<1>2. PICK s : /\ s[0] = Blank /\ s[DaySize] = Summary(mk)
               /\ \A k \in 0 .. DaySize : s[k] \in KlineRecord
               /\ \A k \in 1 .. DaySize : s[k] = AddBucket(s[k - 1], mk.bucket[DaySize - k])
  BY <1>1, SummaryTyped
<1> DEFINE S == Traders(1 .. n)
           First(k) == {i \in S : results[i].ts \in mk.top - DaySize + 1 .. mk.top - DaySize + k}
           Bad == {k \in 0 .. DaySize : s[k].count # Trades(First(k))}
<1>3. S \in SUBSET (1 .. Len(results)) /\ \A i \in S : results[i].ts \in Nat
  <2>1. S \in SUBSET (1 .. Len(results))
    BY DEF Traders, Typed
  <2>2. QED
    BY <2>1, ResultIs
<1> HIDE DEF S
<1>4. Bad = {}
  <2> SUFFICES ASSUME Bad # {} PROVE FALSE
    OBVIOUS
  <2>1. 0 \notin Bad
    <3>1. First(0) = {}
      BY <1>1, <1>3
    <3>2. s[0].count = 0
      BY <1>2, BlankIs
    <3>3. QED
      BY <3>1, <3>2, TradesNone
  <2>2. PICK k \in 1 .. DaySize : k \in Bad /\ k - 1 \in 0 .. DaySize /\ k - 1 \notin Bad
    <3>1. Bad \subseteq 0 .. DaySize /\ DaySize \in Nat
      BY <1>1
    <3> HIDE DEF Bad
    <3>2. QED
      BY <2>1, <3>1, FirstBad
  <2>3. s[k].count # Trades(First(k)) /\ s[k - 1].count = Trades(First(k - 1))
    BY <2>2
  <2> HIDE DEF Bad
  <2>4. PICK w \in Int : w = mk.top - DaySize + k
    BY <1>1
  <2>5. First(k) = First(k - 1) \cup At(S, w) /\ First(k - 1) \cap At(S, w) = {}
    <3>1. \A t \in Nat : /\ t \in mk.top - DaySize + 1 .. mk.top - DaySize + k
                           <=> t \in mk.top - DaySize + 1 .. mk.top - DaySize + (k - 1) \/ t = w
                        /\ ~(t \in mk.top - DaySize + 1 .. mk.top - DaySize + (k - 1) /\ t = w)
      BY <1>1, <2>4
    <3>2. \A i \in S : /\ i \in First(k) <=> i \in First(k - 1) \/ i \in At(S, w)
                      /\ ~(i \in First(k - 1) /\ i \in At(S, w))
      BY <1>3, <3>1 DEF At
    <3>3. First(k) \subseteq S /\ First(k - 1) \subseteq S /\ At(S, w) \subseteq S
      BY DEF At
    <3> HIDE DEF First
    <3>4. QED
      BY <3>2, <3>3
  <2>6. First(k - 1) \in SUBSET (1 .. Len(results)) /\ At(S, w) \in SUBSET (1 .. Len(results))
    BY <1>3 DEF At
  <2>7. DaySize - k \in Buckets /\ mk.top - (DaySize - k) = w
    BY <1>1, <2>4
  <2> HIDE DEF First
  <2>8. Trades(First(k)) = Trades(First(k - 1)) + Trades(At(S, w))
    BY <2>5, <2>6, TradesUnion
  <2>9. mk.bucket[DaySize - k] = f[n][w]
    BY <2>7 DEF MarketFollows
  <2>10. f[n][w].count = Trades(At(S, w))
    BY CountIs DEF S
  <2>11. s[k].count = s[k - 1].count + mk.bucket[DaySize - k].count
    <3>1. s[k] = AddBucket(s[k - 1], mk.bucket[DaySize - k])
      BY <1>2
    <3>2. \A a, b : AddBucket(a, b).count = a.count + b.count
      BY DEF AddBucket
    <3>3. QED
      BY <3>1, <3>2
  <2>12. QED
    BY <2>3, <2>8, <2>9, <2>10, <2>11
<1>5. s[DaySize].count = Trades(First(DaySize))
  <2>1. DaySize \in 0 .. DaySize
    BY <1>1
  <2> HIDE DEF First
  <2>2. QED
    BY <1>4, <2>1
<1>6. First(DaySize) = OfDay(Traders(1 .. n), mk.top)
  <2>1. mk.top - DaySize + DaySize = mk.top
    BY <1>1
  <2>2. QED
    BY <2>1 DEF OfDay, S
<1> HIDE DEF First
<1>7. QED
  BY <1>2, <1>5, <1>6

\* The summary of buckets that follow follows too.
LEMMA DetailOfSummary ==
  ASSUME Typed, NEW f, History(f), NEW n \in 0 .. Len(results),
         NEW now \in Nat, NEW mk, MarketTyped(mk, now), MarketFollows(f, n, mk), NEW old
  PROVE  DetailFollows(Summary(mk), mk, n, old)
<1>1. mk.top \in Nat /\ mk.bucket \in [Buckets -> KlineRecord]
  BY DEF MarketTyped
<1>2. ASSUME NEW i \in Buckets
      PROVE  mk.top - i \in Int /\ mk.bucket[i] = f[n][mk.top - i] /\ i \in Nat
  BY <1>1, BucketIs DEF MarketFollows
<1>3. \A i \in Buckets : Whole(mk.bucket[i])
  BY <1>2 DEF History
<1>4. ASSUME NEW i \in Buckets, NEW j \in Buckets, j < i, mk.bucket[i].low # 0
      PROVE  mk.bucket[j].low # 0
  <2>1. PICK v \in Int : v = mk.top - i
    BY <1>2
  <2>2. PICK w \in Int : w = mk.top - j
    BY <1>2
  <2>3. v < w /\ f[n][v].low # 0
    BY <1>1, <1>2, <1>4, <2>1, <2>2
  <2>4. f[n][w].low # 0
    BY <2>3, PricesSpread
  <2>5. QED
    BY <1>2, <2>2, <2>4
<1>5. /\ Summary(mk).close = mk.bucket[0].close
      /\ \A i \in Buckets : mk.bucket[i].close # 0 =>
           /\ Summary(mk).low # 0
           /\ Summary(mk).low <= mk.bucket[i].close
           /\ mk.bucket[i].close <= Summary(mk).high
  BY <1>1, <1>3, <1>4, SummaryShows
<1>6. Summary(mk).count = Trades(OfDay(Traders(1 .. n), mk.top))
  BY SummaryCount
<1>7. QED
  BY <1>5, <1>6 DEF DetailFollows

\* A summary follows with a result more, when one too old is marked.
LEMMA DetailOfResult ==
  ASSUME Typed, NEW f, History(f), NEW n \in 1 .. Len(results), NEW now \in Nat,
         NEW mk, MarketTyped(mk, now), mk = [top |-> now, bucket |-> mk.bucket],
         MarketFollows(f, n - 1, mk), results[n].ts <= now,
         NEW d \in KlineRecord, NEW old, DetailFollows(d, mk, n - 1, old),
         NEW later, old => later
  PROVE  /\ isPendingOrder(results[n]) => DetailFollows(d, mk, n, later)
         /\ ~isPendingOrder(results[n]) /\ (now - results[n].ts >= DaySize => later) =>
              DetailFollows(DetailWith(d, results[n], now), MarketWith(mk, results[n], now), n, later)
<1> DEFINE m == results[n]
           P == OfDay(Traders(1 .. n - 1), now)
<1>1. /\ mk.top = now /\ m \in Result /\ m.ts \in Nat /\ n - 1 \in 0 .. Len(results)
      /\ DaySize \in Nat \ {0} /\ n \notin P /\ P \in SUBSET (1 .. Len(results))
  <2>1. m \in Result /\ m.ts \in Nat /\ n \in Nat \ {0} /\ n <= Len(results) /\ Len(results) \in Nat
    BY ResultIs
  <2>2. n \notin P /\ P \in SUBSET (1 .. Len(results))
    BY <2>1 DEF OfDay, Traders
  <2>3. QED
    BY <2>1, <2>2, KlineAssumption
<1>2. OfDay(Traders(1 .. n), now) =
        IF ~isPendingOrder(m) /\ now - m.ts < DaySize THEN P \cup {n} ELSE P
  <2>1. m.ts \in now - DaySize + 1 .. now <=> now - m.ts < DaySize
    BY <1>1
  <2>2. Traders(1 .. n) = IF isPendingOrder(m) THEN Traders(1 .. n - 1)
                          ELSE Traders(1 .. n - 1) \cup {n}
    BY TradersStep
  <2>3. QED
    BY <2>1, <2>2 DEF OfDay
<1>3. /\ d.count = Trades(P)
      /\ old \/ /\ d.close = mk.bucket[0].close
                /\ \A i \in Buckets : mk.bucket[i].close # 0 =>
                     /\ d.low # 0 /\ d.low <= mk.bucket[i].close
                     /\ mk.bucket[i].close <= d.high
  BY <1>1 DEF DetailFollows
<1>4. ASSUME isPendingOrder(m)
      PROVE  DetailFollows(d, mk, n, later)
  BY <1>1, <1>2, <1>3, <1>4 DEF DetailFollows
<1>5. ASSUME ~isPendingOrder(m), now - m.ts >= DaySize => later
      PROVE  DetailFollows(DetailWith(d, m, now), MarketWith(mk, m, now), n, later)
  <2>1. PICK new : new = MarketWith(mk, m, now)
    OBVIOUS
  <2>2. PICK e : e = DetailWith(d, m, now)
    OBVIOUS
  <2>3. new.top = now /\ \A i \in Buckets : new.bucket[i] = Drawn(mk.bucket[i], now - i, m)
    BY <1>1, <1>5, <2>1, MarketWithIs
  <2>4. /\ e \in KlineRecord
        /\ onlyUpdatePrice(m, now) => e = d
        /\ ~onlyUpdatePrice(m, now) =>
             /\ e.count = d.count + Len(m.fills) /\ e.close = Price(m)
             /\ e.low # 0 /\ e.low <= Price(m) /\ (d.low # 0 => e.low <= d.low)
             /\ Price(m) <= e.high /\ d.high <= e.high
    BY <1>1, <1>5, <2>2, DetailWithTyped
  <2>5. onlyUpdatePrice(m, now) <=> ~(now - m.ts < DaySize)
    BY <1>1 DEF onlyUpdatePrice
  <2>6. Trades(P \cup {n}) = Trades(P) + Len(m.fills)
    BY <1>1, TradesAdd
  <2>7. e.count = Trades(OfDay(Traders(1 .. n), now))
    BY <1>2, <1>3, <1>5, <2>4, <2>5, <2>6
  <2>8. ASSUME ~later
        PROVE  /\ e.close = new.bucket[0].close
               /\ \A i \in Buckets : new.bucket[i].close # 0 =>
                    e.low # 0 /\ e.low <= new.bucket[i].close /\ new.bucket[i].close <= e.high
    <3>1. /\ d.close = mk.bucket[0].close
          /\ \A i \in Buckets : mk.bucket[i].close # 0 =>
               d.low # 0 /\ d.low <= mk.bucket[i].close /\ mk.bucket[i].close <= d.high
      BY <1>3, <2>8
    <3>2. /\ e.close = Price(m)
          /\ e.low # 0 /\ e.low <= Price(m) /\ (d.low # 0 => e.low <= d.low)
          /\ Price(m) <= e.high /\ d.high <= e.high
      BY <1>1, <1>5, <2>4, <2>5, <2>8
    <3>3. ASSUME NEW i \in Buckets
          PROVE  /\ new.bucket[i].close = IF m.ts <= now - i THEN Price(m) ELSE mk.bucket[i].close
                 /\ mk.bucket[i].close \in Nat
      <4>1. mk.bucket[i] \in KlineRecord /\ now - i \in Int
        BY BucketIs DEF MarketTyped
      <4>2. PICK w \in Int : w = now - i
        BY <4>1
      <4>3. new.bucket[i] = Drawn(mk.bucket[i], w, m)
        BY <2>3, <4>2
      <4>4. new.bucket[i].close = IF m.ts <= w THEN Price(m) ELSE mk.bucket[i].close
        <5>1. mk.bucket[i] \in KlineRecord /\ w \in Int /\ m \in Result
          BY <1>1, <4>1
        <5> HIDE DEF m
        <5>2. Drawn(mk.bucket[i], w, m).close =
                IF ~isPendingOrder(m) /\ m.ts <= w THEN Price(m) ELSE mk.bucket[i].close
          BY <5>1, DrawnIs
        <5>3. QED
          BY <1>5, <4>3, <5>2
      <4>5. mk.bucket[i].close \in Nat
        BY <4>1 DEF KlineRecord
      <4>6. QED
        BY <4>2, <4>4, <4>5
    <3>4. 0 \in Buckets /\ m.ts <= now - 0
      <4>1. 0 \in Buckets
        BY <1>1 DEF Buckets
      <4>2. m.ts <= now /\ now - 0 = now
        OBVIOUS
      <4>3. QED
        BY <4>1, <4>2
    <3>5. d.low \in Nat /\ d.high \in Nat /\ e.low \in Nat /\ e.high \in Nat
      BY <2>4 DEF KlineRecord
    <3>6. ASSUME NEW i \in Buckets, new.bucket[i].close # 0
          PROVE  e.low # 0 /\ e.low <= new.bucket[i].close /\ new.bucket[i].close <= e.high
      <4>1. CASE m.ts <= now - i
        BY <3>2, <3>3, <4>1
      <4>2. CASE ~(m.ts <= now - i)
        <5>1. new.bucket[i].close = mk.bucket[i].close /\ mk.bucket[i].close \in Nat
          BY <3>3, <4>2
        <5>2. d.low # 0 /\ d.low <= mk.bucket[i].close /\ mk.bucket[i].close <= d.high
          BY <3>1, <3>6, <5>1
        <5>3. QED
          BY <3>2, <3>5, <5>1, <5>2
      <4>3. QED
        BY <4>1, <4>2
    <3>7. e.close = new.bucket[0].close
      BY <3>2, <3>3, <3>4
    <3>8. QED
      BY <3>6, <3>7
  <2>9. DetailFollows(e, new, n, later)
    BY <2>3, <2>7, <2>8 DEF DetailFollows
  <2>10. QED
    BY <2>1, <2>2, <2>9
<1>6. QED
  BY <1>4, <1>5

\* The market and the summary that the clock finds follow.
LEMMA BuiltFollows ==
  ASSUME Typed, NEW f, History(f), MarketHolds(f)
  PROVE  /\ MarketFollows(f, Quoted("market"), BuiltMarket(clock))
         /\ DetailFollows(BuiltDetail(clock), BuiltMarket(clock), Quoted("market"), late)
<1>1. /\ clock \in Nat /\ MarketTyped(market, clock) /\ Quoted("market") \in 0 .. Len(results)
  BY QuotedIs DEF Typed, CandleTypeOK, Windows, MarketTyped
<1>2. PICK n \in 0 .. Len(results) : n = Quoted("market")
  BY <1>1
<1>3. MarketFollows(f, n, market) /\ DetailFollows(detail, market, n, late)
  BY <1>2 DEF MarketHolds
<1>4. MarketFollows(f, n, BuiltMarket(clock))
  BY <1>1, <1>3, FollowsShift DEF BuiltMarket
<1>5. CASE clock = market.top
  <2>1. BuiltDetail(clock) = detail /\ BuiltMarket(clock).top = market.top
        /\ BuiltMarket(clock).bucket = market.bucket
    BY <1>1, <1>5, ShiftedIs DEF BuiltDetail, BuiltMarket
  <2>2. DetailFollows(detail, BuiltMarket(clock), n, late)
    BY <1>3, <2>1 DEF DetailFollows
  <2>3. QED
    BY <1>2, <1>4, <2>1, <2>2
<1>6. CASE clock # market.top
  <2>1. BuiltDetail(clock) = Summary(BuiltMarket(clock))
    BY <1>6 DEF BuiltDetail
  <2>2. DetailFollows(Summary(BuiltMarket(clock)), BuiltMarket(clock), n, late)
    BY <1>1, <1>4, BuiltIs, DetailOfSummary
  <2>3. QED
    BY <1>2, <1>4, <2>1, <2>2
<1>7. QED
  BY <1>5, <1>6

\* Nothing is known of a market that no result has reached.
LEMMA FreshFollows ==
  ASSUME Typed, NEW f, History(f), NEW now \in Nat, NEW old
  PROVE  MarketFollows(f, 0, NoTrades(now)) /\ DetailFollows(Blank, NoTrades(now), 0, old)
<1>1. /\ NoTrades(now).top = now /\ \A i \in Buckets : NoTrades(now).bucket[i] = Blank
  BY DEF NoTrades
<1>2. \A i \in Buckets : now - i \in Int
  BY BucketIs
<1>3. 1 .. 0 = {} /\ Traders(1 .. 0) = {} /\ OfDay(Traders(1 .. 0), now) = {}
  BY NoneYet DEF OfDay
<1>4. MarketFollows(f, 0, NoTrades(now))
  BY <1>1, <1>2, <1>3 DEF MarketFollows, History
<1>5. DetailFollows(Blank, NoTrades(now), 0, old)
  <2>1. Blank.count = 0 /\ Blank.close = 0
    BY BlankIs
  <2>2. 0 \in Buckets
    BY KlineAssumption DEF Buckets
  <2>3. QED
    BY <1>1, <1>3, <2>1, <2>2, TradesNone DEF DetailFollows
<1>6. QED
  BY <1>4, <1>5

\* A step that leaves the market's goroutine, and the snapshots, alone.
LEMMA MarketApart ==
  ASSUME Typed, NEW f, MarketHolds(f),
         results' = results, market' = market, detail' = detail, file' = file,
         Quoted("market")' = Quoted("market"), late => late', snapping' => hand' = {}
  PROVE  MarketHolds(f)'
<1>1. MarketFollows(f, Quoted("market"), market)'
  BY DEF MarketHolds, MarketFollows
<1>2. PICK n : n = Quoted("market")
  OBVIOUS
<1>3. DetailFollows(detail, market, n, late)
  BY <1>2 DEF MarketHolds
<1>4. DetailFollows(detail, market, Quoted("market"), late)'
  BY <1>2, <1>3 DEF DetailFollows, OfDay, Traders, Trades
<1>5. (file # NoFile => MarketFollows(f, file.maxId, file.market))'
  BY DEF MarketHolds, MarketFollows
<1>6. QED
  BY <1>1, <1>4, <1>5 DEF MarketHolds

\* A result is drawn into the buckets as into the history.
LEMMA MarketUpdaterHolds ==
  ASSUME Typed, Typed', NEW f, History(f), MarketHolds(f), MarketUpdater
  PROVE  MarketHolds(f)'
<1>1. /\ "market" \in hand /\ Done("market") /\ late' = (late \/ TooLate)
      /\ UNCHANGED <<clock, results, klines, redisCache, snapshotTime, snapping, redis, file, since>>
  BY DEF MarketUpdater
<1>2. Quoted("market") = maxId /\ Quoted("market")' = maxId + 1
  BY <1>1, QuotedDone
<1>3. /\ InHand = results[maxId + 1] /\ InHand.ts <= clock /\ maxId + 1 \in 1 .. Len(results)
      /\ clock \in Nat
  BY <1>1, HandTyped DEF InHand, Typed, CandleTypeOK, Windows
<1>4. PICK n \in 1 .. Len(results) : n = maxId + 1
  BY <1>3
<1>5. maxId = n - 1
  BY <1>4 DEF Typed, CandleTypeOK
<1>6. PICK mk : mk = BuiltMarket(clock)
  OBVIOUS
<1>7. PICK d : d = BuiltDetail(clock)
  OBVIOUS
<1>8. /\ MarketFollows(f, n - 1, mk) /\ DetailFollows(d, mk, n - 1, late)
      /\ MarketTyped(mk, clock) /\ mk = [top |-> clock, bucket |-> mk.bucket] /\ d \in KlineRecord
  BY <1>2, <1>5, <1>6, <1>7, BuiltIs, BuiltFollows
<1>9. ~isPendingOrder(InHand) /\ clock - InHand.ts >= DaySize => late'
  <2>1. DaySize \in Nat /\ ForwardLimit \in Nat
    BY KlineAssumption
  <2>2. Min({ForwardLimit, DaySize}) = IF ForwardLimit <= DaySize THEN ForwardLimit ELSE DaySize
    BY <2>1, OfTwo
  <2>3. InHand.ts \in Int
    BY <1>3, <1>4, ResultIs
  <2>4. ~isPendingOrder(InHand) /\ clock - InHand.ts >= DaySize => TooLate
    BY <1>3, <2>1, <2>2, <2>3 DEF TooLate
  <2>5. QED
    BY <1>1, <2>4
<1>10. InHand = results[n] /\ results[n].ts <= clock
  BY <1>3, <1>4
<1>11. MarketFollows(f, n, market') /\ DetailFollows(detail', market', n, late')
  <2>1. late => late'
    BY <1>1
  <2>2. CASE isPendingOrder(InHand)
    <3>1. market' = mk /\ detail' = d
      BY <1>6, <1>7, <2>2 DEF MarketUpdater
    <3>2. MarketFollows(f, n, mk) /\ DetailFollows(d, mk, n, late')
      BY <1>3, <1>8, <1>10, <2>1, <2>2, FollowsResult, DetailOfResult
    <3>3. QED
      BY <3>1, <3>2
  <2>3. CASE ~isPendingOrder(InHand)
    <3>1. market' = MarketWith(mk, results[n], clock) /\ detail' = DetailWith(d, results[n], clock)
      <4>1. /\ market' = MarketWith(BuiltMarket(clock), InHand, clock)
            /\ detail' = DetailWith(BuiltDetail(clock), InHand, clock)
        BY <2>3 DEF MarketUpdater
      <4>2. QED
        BY <1>6, <1>7, <1>10, <4>1
    <3>2. MarketFollows(f, n, MarketWith(mk, results[n], clock))
      BY <1>3, <1>8, <1>10, <2>3, FollowsResult
    <3>3. DetailFollows(DetailWith(d, results[n], clock), MarketWith(mk, results[n], clock), n, late')
      <4>1. PICK old \in BOOLEAN : old = late
        BY DEF Typed
      <4>2. PICK later \in BOOLEAN : later = late'
        BY DEF Typed
      <4>3. ~isPendingOrder(results[n])
        BY <1>10, <2>3
      <4>4. old => later
        BY <2>1, <4>1, <4>2
      <4>5. clock - results[n].ts >= DaySize => later
        BY <1>9, <1>10, <2>3, <4>2
      <4>6. DetailFollows(d, mk, n - 1, old)
        BY <1>8, <4>1
      <4>7. DetailFollows(DetailWith(d, results[n], clock), MarketWith(mk, results[n], clock), n, later)
        BY <1>3, <1>8, <1>10, <4>3, <4>4, <4>5, <4>6, DetailOfResult
      <4>8. QED
        BY <4>2, <4>7
    <3>4. QED
      BY <3>1, <3>2, <3>3
  <2>4. QED
    BY <2>2, <2>3
<1>12. MarketFollows(f, Quoted("market"), market)'
  BY <1>1, <1>2, <1>4, <1>11 DEF MarketFollows
<1>13. DetailFollows(detail, market, Quoted("market"), late)'
  BY <1>1, <1>2, <1>4, <1>11 DEF DetailFollows, OfDay, Traders, Trades
<1>14. (file # NoFile => MarketFollows(f, file.maxId, file.market))'
  BY <1>1 DEF MarketHolds, MarketFollows
<1>15. (snapping => hand = {})'
  BY <1>1 DEF MarketHolds
<1>16. QED
  BY <1>12, <1>13, <1>14, <1>15 DEF MarketHolds

\* Moved on without a result, they follow for as many results.
LEMMA MarketTickerHolds ==
  ASSUME Typed, Typed', NEW f, History(f), MarketHolds(f), MarketTicker
  PROVE  MarketHolds(f)'
<1>1. /\ market' = BuiltMarket(clock) /\ detail' = BuiltDetail(clock)
      /\ UNCHANGED <<clock, results, maxId, hand, klines, redisCache, snapshotTime,
                     snapping, redis, file, since, late>>
  BY DEF MarketTicker
<1>2. PICK n : n = Quoted("market")
  OBVIOUS
<1>3. MarketFollows(f, n, market') /\ DetailFollows(detail', market', n, late)
  BY <1>1, <1>2, BuiltFollows
<1>4. Quoted("market")' = n
  BY <1>1, <1>2 DEF Quoted
<1>5. MarketFollows(f, Quoted("market"), market)'
  BY <1>1, <1>3, <1>4 DEF MarketFollows
<1>6. DetailFollows(detail, market, Quoted("market"), late)'
  BY <1>1, <1>3, <1>4 DEF DetailFollows, OfDay, Traders, Trades
<1>7. QED
  BY <1>1, <1>5, <1>6 DEF MarketHolds, MarketFollows

\* A restart follows for the results of the snapshot, or for none.
LEMMA MarketCrashHolds ==
  ASSUME Typed, Typed', NEW f, History(f), MarketHolds(f), Crash
  PROVE  MarketHolds(f)'
<1>1. /\ hand' = {} /\ ~snapping' /\ UNCHANGED <<clock, results, file, late>>
      /\ clock \in Nat /\ Len(results) \in Nat
  <2>1. clock \in Nat /\ Len(results) \in Nat
    BY DEF Typed, CandleTypeOK, Windows
  <2>2. hand' = {} /\ snapping' = FALSE /\ UNCHANGED <<clock, results, file, late>>
    BY RestartIs
  <2>3. ~snapping'
    BY <2>2
  <2>4. QED
    BY <2>1, <2>2, <2>3
<1>2. Quoted("market")' = maxId'
  BY <1>1 DEF Quoted
<1>3. PICK n : n = maxId'
  OBVIOUS
<1>4. MarketFollows(f, n, market') /\ DetailFollows(detail', market', n, late)
  <2>1. CASE file = NoFile
    <3>1. n = 0 /\ market' = NoTrades(clock) /\ detail' = Blank
      BY <1>3, <2>1, RestartIs
    <3>2. QED
      BY <1>1, <3>1, FreshFollows
  <2>2. CASE file # NoFile
    <3>1. /\ n = file.maxId /\ market' = Shifted(file.market, clock)
          /\ detail' = Summary(market')
      BY <1>3, <2>2, RestartIs
    <3>2. n \in 0 .. Len(results) /\ MarketTyped(file.market, clock)
      BY <2>2, <3>1 DEF Typed, FileTyped
    <3>3. MarketFollows(f, n, file.market)
      BY <2>2, <3>1 DEF MarketHolds
    <3>4. PICK mk : mk = market'
      OBVIOUS
    <3>5. MarketFollows(f, n, mk) /\ MarketTyped(mk, clock)
      BY <1>1, <3>1, <3>2, <3>3, <3>4, FollowsShift, ShiftedIs
    <3>6. DetailFollows(Summary(mk), mk, n, late)
      BY <1>1, <3>2, <3>5, DetailOfSummary
    <3>7. QED
      BY <3>1, <3>4, <3>5, <3>6
  <2>3. QED
    BY <2>1, <2>2
<1>5. MarketFollows(f, Quoted("market"), market)'
  BY <1>1, <1>2, <1>3, <1>4 DEF MarketFollows
<1>6. DetailFollows(detail, market, Quoted("market"), late)'
  BY <1>1, <1>2, <1>3, <1>4 DEF DetailFollows, OfDay, Traders, Trades
<1>7. (file # NoFile => MarketFollows(f, file.maxId, file.market))'
  BY <1>1 DEF MarketHolds, MarketFollows
<1>8. QED
  BY <1>1, <1>5, <1>6, <1>7 DEF MarketHolds

\* The snapshot follows as the market does, all goroutines being done.
LEMMA MarketTakeHolds ==
  ASSUME Typed, Typed', NEW f, MarketHolds(f), takeSnapShot
  PROVE  MarketHolds(f)'
<1>1. /\ snapping /\ snapping' = FALSE
      /\ UNCHANGED <<clock, results, maxId, hand, klines, redisCache, market, detail, redis,
                     since, late>>
  BY DEF takeSnapShot
<1>2. file'.market = market /\ file'.maxId = maxId
  BY TakenIs
<1>3. hand = {} /\ Quoted("market") = maxId /\ Quoted("market")' = Quoted("market")
  BY <1>1 DEF MarketHolds, Quoted
<1>4. PICK n : n = maxId
  OBVIOUS
<1>5. MarketFollows(f, n, market) /\ DetailFollows(detail, market, n, late)
  BY <1>3, <1>4 DEF MarketHolds
<1>6. MarketFollows(f, Quoted("market"), market)'
  BY <1>1, <1>3, <1>4, <1>5 DEF MarketFollows
<1>7. DetailFollows(detail, market, Quoted("market"), late)'
  BY <1>1, <1>3, <1>4, <1>5 DEF DetailFollows, OfDay, Traders, Trades
<1>8. MarketFollows(f, file.maxId, file.market)'
  BY <1>1, <1>2, <1>4, <1>5 DEF MarketFollows
<1>9. QED
  BY <1>1, <1>6, <1>7, <1>8 DEF MarketHolds

\* Every step but Receive, which may add a result.
LEMMA MarketStep ==
  ASSUME Typed, Typed', NEW f, History(f), MarketHolds(f), [Next]_vars, ~Receive
  PROVE  MarketHolds(f)' /\ results' = results
<1>1. CASE MarketUpdater
  BY <1>1, MarketUpdaterHolds DEF MarketUpdater
<1>2. CASE MarketTicker
  BY <1>2, MarketTickerHolds DEF MarketTicker
<1>3. CASE Crash
  BY <1>3, MarketCrashHolds, RestartIs
<1>4. CASE takeSnapShot
  BY <1>4, MarketTakeHolds DEF takeSnapShot
<1>5. CASE KlineUpdater
  <2>1. /\ "kline" \in hand /\ Done("kline") /\ late' = (late \/ TooLate)
        /\ UNCHANGED <<clock, results, market, detail, snapshotTime, snapping, redis, file, since>>
    BY <1>5 DEF KlineUpdater
  <2>2. Quoted("market")' = Quoted("market") /\ (snapping' => hand' = {})
    <3>1. Quoted("market")' = Quoted("market")
      BY <2>1, QuotedDone
    <3>2. QED
      BY <2>1, <3>1 DEF MarketHolds
  <2>3. QED
    BY <2>1, <2>2, MarketApart
<1>6. CASE StartSnapshot
  <2>1. /\ hand = {}
        /\ UNCHANGED <<results, maxId, hand, market, detail, file, late>>
    BY <1>6 DEF StartSnapshot, Idle
  <2>2. Quoted("market")' = Quoted("market")
    BY <2>1 DEF Quoted
  <2>3. QED
    BY <2>1, <2>2, MarketApart
<1>7. CASE Tick \/ CheckKlines \/ SaveTick \/ Clear \/ UNCHANGED vars
  <2>1. UNCHANGED <<results, maxId, hand, market, detail, file, late, snapping>>
    BY <1>7 DEF Tick, CheckKlines, SaveTick, Clear, vars, quotes
  <2>2. Quoted("market")' = Quoted("market") /\ (snapping' => hand' = {})
    BY <2>1 DEF Quoted, MarketHolds
  <2>3. QED
    BY <2>1, <2>2, MarketApart
<1>8. QED
  BY <1>1, <1>2, <1>3, <1>4, <1>5, <1>6, <1>7 DEF Next

\* Klines that follow for n results follow still when results are added.
LEMMA MarketReceives ==
  ASSUME Typed, Typed', NEW f, History(f), MarketHolds(f), Receive,
         NEW g, \A n \in 0 .. Len(results) : g[n] = f[n]
  PROVE  MarketHolds(g)'
<1>1. /\ hand = {} /\ ~snapping /\ hand' = {"kline", "market"}
      /\ UNCHANGED <<clock, maxId, klines, redisCache, market, detail, snapshotTime,
                     snapping, redis, file, since, late>>
  BY DEF Receive, Idle
<1>2. \A i \in 1 .. Len(results) : results'[i] = results[i]
  <2>1. CASE results' = results
    BY <2>1
  <2>2. CASE results' # results
    <3>1. \E m : results' = Append(results, m)
      BY <2>2 DEF Receive
    <3>2. results \in Seq(Result)
      BY DEF Typed
    <3>3. QED
      BY <3>1, <3>2
  <2>3. QED
    BY <2>1, <2>2
<1>3. Quoted("market") = maxId /\ Quoted("market")' = maxId
  BY <1>1 DEF Quoted
<1>4. PICK n \in 0 .. Len(results) : n = maxId
  BY DEF Typed, CandleTypeOK
<1>5. MarketFollows(f, n, market) /\ DetailFollows(detail, market, n, late)
  BY <1>3, <1>4 DEF MarketHolds
<1>6. \A k \in 0 .. Len(results) : \A j \in 1 .. k : results'[j] = results[j] /\ j \in 1 .. Len(results)
  BY <1>2 DEF Typed
<1>7. MarketFollows(g, Quoted("market"), market)'
  BY <1>1, <1>3, <1>4, <1>5, <1>6 DEF MarketFollows
<1>8. DetailFollows(detail, market, Quoted("market"), late)'
  <2>1. PICK day \in SUBSET (1 .. n) : day = OfDay(Traders(1 .. n), market.top)
    BY DEF OfDay, Traders
  <2>2. OfDay(Traders(1 .. n), market.top)' = day
    BY <1>1, <1>4, <1>6, <2>1 DEF OfDay, Traders
  <2>3. \A i \in day : results'[i] = results[i]
    BY <1>6, <2>1
  <2>4. Trades(day)' = Trades(day)
    BY <2>3 DEF Trades
  <2>5. QED
    BY <1>1, <1>3, <1>4, <1>5, <2>1, <2>2, <2>4 DEF DetailFollows
<1>9. (file # NoFile => MarketFollows(g, file.maxId, file.market))'
  <2>1. ASSUME file # NoFile
        PROVE  MarketFollows(g, file.maxId, file.market)'
    <3>1. PICK k \in 0 .. Len(results) : k = file.maxId
      BY <2>1 DEF Typed, FileTyped
    <3>2. MarketFollows(f, k, file.market)
      BY <2>1, <3>1 DEF MarketHolds
    <3>3. QED
      BY <1>1, <1>6, <3>1, <3>2 DEF MarketFollows
  <2>2. QED
    BY <1>1, <2>1
<1>10. QED
  BY <1>1, <1>7, <1>8, <1>9 DEF MarketHolds

\* The empty market follows for no results.
LEMMA MarketStarts ==
  ASSUME Init, NEW f, History(f)
  PROVE  MarketHolds(f)
<1>1. Typed
  BY TypedInit
<1>2. /\ hand = {} /\ maxId = 0 /\ market = NoTrades(0) /\ detail = Blank /\ file = NoFile
      /\ snapping = FALSE
  BY DEF Init
<1>3. Quoted("market") = 0
  BY <1>2 DEF Quoted
<1>4. QED
  BY <1>1, <1>2, <1>3, FreshFollows DEF MarketHolds

\* A market that follows adds up.
LEMMA MarketShows ==
  ASSUME Typed, NEW f, History(f), MarketHolds(f)
  PROVE  DayAddsUp
<1>1. PICK n \in 0 .. Len(results) : n = Quoted("market")
  BY QuotedIs
<1>2. PICK S : S = Traders(QuotedBy("market"))
  OBVIOUS
<1>3. S = Traders(1 .. n)
  BY <1>1, <1>2, QuotedIs
<1>4. market.top \in Nat /\ MarketFollows(f, n, market) /\ DetailFollows(detail, market, n, late)
  BY <1>1 DEF MarketHolds, Typed, CandleTypeOK
<1>5. ASSUME NEW i \in Buckets
      PROVE  market.bucket[i].count = Trades(At(S, market.top - i))
  <2>1. PICK w \in Int : w = market.top - i
    BY <1>4, BucketIs
  <2>2. market.bucket[i] = f[n][w]
    BY <1>4, <2>1 DEF MarketFollows
  <2>3. f[n][w].count = Trades(At(Traders(1 .. n), w))
    BY CountIs
  <2>4. QED
    BY <1>3, <2>1, <2>2, <2>3
<1>6. detail.count =
        Trades({i \in S : results[i].ts \in market.top - DaySize + 1 .. market.top})
  BY <1>3, <1>4 DEF DetailFollows, OfDay
<1>7. ASSUME ~late
      PROVE  /\ detail.close = market.bucket[0].close
             /\ \A p \in {market.bucket[i].close : i \in Buckets} \ {0} :
                  detail.low <= p /\ p <= detail.high
  BY <1>4, <1>7 DEF DetailFollows
<1>8. QED
  BY <1>2, <1>5, <1>6, <1>7 DEF DayAddsUp

-----------------------------------------------------------------------------
(* The klines and Redis follow the history *)

\* The klines ks from window from on are what the history has for n results, the
\* prices unless one was too old; where there is none the history has no trades.
KlinesFollow(f, n, ks, from, old) ==
  /\ \A w \in DOMAIN ks : Whole(ks[w])
  /\ \A w \in DOMAIN ks : w >= from => ks[w].count = f[n][w].count /\ (old \/ ks[w] = f[n][w])
  /\ \A w \in Int : w >= from /\ w \notin DOMAIN ks => f[n][w].count = 0
  /\ \A i \in 1 .. n : \E w \in DOMAIN ks : results[i].ts <= w
  /\ DOMAIN ks = {} => n = 0 /\ from = 0
  /\ DOMAIN ks # {} => \E w \in DOMAIN ks : w >= from
  /\ old \/ \A w, v \in DOMAIN ks : from <= w => w .. v \subseteq DOMAIN ks
  /\ old \/ \A v \in DOMAIN ks : \A w \in from .. v : w \in DOMAIN ks \/ f[n][w] = Blank

\* getCurrentKline keeps that, and adds no kline before from.
LEMMA FollowCurrent ==
  ASSUME Typed, NEW f, History(f), NEW n \in 0 .. Len(results), NEW now \in Nat,
         NEW ks, KlinesTyped(ks, now), NEW from \in 0 .. now, NEW old \in BOOLEAN,
         KlinesFollow(f, n, ks, from, old)
  PROVE  /\ KlinesFollow(f, n, getCurrentKline(ks, now), from, old)
         /\ \A w \in DOMAIN getCurrentKline(ks, now) : w \in DOMAIN ks \/ w >= from
<1> DEFINE new == getCurrentKline(ks, now)
<1>2. /\ KlinesTyped(new, now) /\ now \in DOMAIN new
      /\ \A w \in DOMAIN ks : w \in DOMAIN new /\ new[w] = ks[w]
      /\ DOMAIN ks = {} => DOMAIN new = {now} /\ new[now] = Blank
      /\ DOMAIN ks # {} =>
           \E top \in DOMAIN ks :
             /\ \A w \in DOMAIN ks : w <= top
             /\ DOMAIN new = DOMAIN ks \cup (top + 1 .. now)
             /\ \A w \in top + 1 .. now : new[w] = Flat(ks[top].close)
  <2>1. /\ DOMAIN new = DOMAIN ks \cup MissingAt(ks, now)
        /\ \A w \in DOMAIN ks : new[w] = ks[w]
    BY CurrentIs
  <2>2. KlinesTyped(new, now) /\ now \in DOMAIN new
    BY CurrentIs
  <2>3. DOMAIN ks = {} => DOMAIN new = {now} /\ new[now] = Blank
    BY CurrentIs
  <2>4. DOMAIN ks # {} =>
           \E top \in DOMAIN ks :
             /\ \A w \in DOMAIN ks : w <= top
             /\ DOMAIN new = DOMAIN ks \cup (top + 1 .. now)
             /\ \A w \in top + 1 .. now : new[w] = Flat(ks[top].close)
    BY CurrentIs
  <2>5. QED
    BY <2>1, <2>2, <2>3, <2>4
<1> HIDE DEF new
<1>3. CASE DOMAIN ks = {}
  <2>1. n = 0 /\ from = 0 /\ DOMAIN new = {now} /\ new[now] = Blank
    BY <1>2, <1>3 DEF KlinesFollow
  <2>2. \A w \in Int : f[0][w] = Blank
    BY DEF History
  <2>3. now \in Int /\ now >= from /\ 1 .. 0 = {} /\ now .. now = {now}
    OBVIOUS
  <2>4. KlinesFollow(f, n, new, from, old)
    BY <2>1, <2>2, <2>3, BlankIs DEF KlinesFollow
  <2>5. QED
    BY <2>1, <2>3, <2>4 DEF new
<1>4. CASE DOMAIN ks # {}
  <2>1. PICK top \in DOMAIN ks :
          /\ \A w \in DOMAIN ks : w <= top
          /\ DOMAIN new = DOMAIN ks \cup (top + 1 .. now)
          /\ \A w \in top + 1 .. now : new[w] = Flat(ks[top].close)
    BY <1>2, <1>4
  <2>2. top \in 0 .. now /\ ks[top] \in KlineRecord /\ DOMAIN ks \subseteq 0 .. now
    BY <2>1 DEF KlinesTyped
  <2>3. top >= from /\ (old \/ ks[top] = f[n][top])
    <3>1. PICK w \in DOMAIN ks : w >= from
      BY <1>4 DEF KlinesFollow
    <3>2. top >= from
      BY <2>1, <2>2, <3>1
    <3>3. QED
      BY <2>1, <3>2 DEF KlinesFollow
  <2>4. ASSUME NEW w \in top + 1 .. now
        PROVE  /\ new[w] = Flat(ks[top].close) /\ w \in Int
               /\ f[n][w] = Flat(f[n][top].close) /\ f[n][w].count = 0
    <3>1. \A i \in 1 .. n : ~(top < results[i].ts /\ results[i].ts <= w)
      <4>1. ASSUME NEW i \in 1 .. n PROVE ~(top < results[i].ts)
        <5>1. PICK v \in DOMAIN ks : results[i].ts <= v
          BY DEF KlinesFollow
        <5>2. i \in 1 .. Len(results)
          BY DEF Typed
        <5>3. results[i].ts \in Nat
          BY <5>2, ResultIs
        <5>4. QED
          BY <2>1, <2>2, <5>1, <5>3
      <4>2. QED
        BY <4>1
    <3>2. top \in Int /\ w \in Int /\ top < w
      BY <2>2
    <3>3. f[n][w] = Flat(f[n][top].close)
      BY <3>1, <3>2, LaterFlat
    <3>4. QED
      BY <2>1, <3>2, <3>3 DEF Flat
  <2>5. \A w \in DOMAIN new : Whole(new[w])
    <3>1. Whole(Flat(ks[top].close))
      BY <2>2, RedrawnIs DEF KlineRecord
    <3>2. QED
      BY <1>2, <2>1, <3>1 DEF KlinesFollow
  <2>6. ASSUME NEW w \in DOMAIN new, w >= from
        PROVE  new[w].count = f[n][w].count /\ (old \/ new[w] = f[n][w])
    <3>1. CASE w \in DOMAIN ks
      BY <1>2, <2>6, <3>1 DEF KlinesFollow
    <3>2. CASE w \in top + 1 .. now
      BY <2>3, <2>4, <3>2 DEF Flat
    <3>3. QED
      BY <2>1, <3>1, <3>2
  <2>7. \A w \in Int : w >= from /\ w \notin DOMAIN new => f[n][w].count = 0
    BY <1>2 DEF KlinesFollow
  <2>8. \A i \in 1 .. n : \E w \in DOMAIN new : results[i].ts <= w
    BY <1>2 DEF KlinesFollow
  <2>9. DOMAIN new # {} /\ \E w \in DOMAIN new : w >= from
    BY <1>2, <2>1, <2>3
  <2>10. ASSUME ~old, NEW w \in DOMAIN new, NEW v \in DOMAIN new, from <= w
         PROVE  w .. v \subseteq DOMAIN new
    <3>1. w \in 0 .. now /\ v \in 0 .. now
      BY <1>2 DEF KlinesTyped
    <3>2. ASSUME NEW x \in w .. v PROVE x \in DOMAIN new
      <4>1. CASE x <= top
        <5>1. w \in DOMAIN ks /\ x \in w .. top
          BY <2>1, <2>2, <3>1, <4>1
        <5>2. w .. top \subseteq DOMAIN ks
          BY <2>1, <2>10, <5>1 DEF KlinesFollow
        <5>3. QED
          BY <1>2, <5>1, <5>2
      <4>2. CASE ~(x <= top)
        BY <2>1, <2>2, <3>1, <4>2
      <4>3. QED
        BY <4>1, <4>2
    <3>3. QED
      BY <3>2
  <2>11. ASSUME ~old, NEW v \in DOMAIN new, NEW w \in from .. v
         PROVE  w \in DOMAIN new \/ f[n][w] = Blank
    <3>1. v \in 0 .. now
      BY <1>2 DEF KlinesTyped
    <3>2. CASE w <= top
      <4>1. w \in from .. top
        BY <2>2, <3>1, <3>2
      <4>2. QED
        BY <1>2, <2>1, <2>11, <4>1 DEF KlinesFollow
    <3>3. CASE ~(w <= top)
      BY <2>1, <2>2, <3>1, <3>3
    <3>4. QED
      BY <3>2, <3>3
  <2>12. KlinesFollow(f, n, new, from, old)
    BY <2>5, <2>6, <2>7, <2>8, <2>9, <2>10, <2>11 DEF KlinesFollow
  <2>13. \A w \in DOMAIN new : w \in DOMAIN ks \/ w >= from
    BY <2>1, <2>2, <2>3
  <2>14. QED
    BY <2>12, <2>13 DEF new
<1>5. QED
  BY <1>3, <1>4

\* Whoever kept klines of n - 1 results that way keeps those of n results, one too
\* old being marked.
LEMMA FollowUpdated ==
  ASSUME Typed, NEW f, History(f), NEW n \in 1 .. Len(results), NEW now \in Nat,
         NEW ks, KlinesTyped(ks, now), now \in DOMAIN ks, NEW from \in 0 .. now,
         NEW old \in BOOLEAN, NEW later \in BOOLEAN, old => later,
         KlinesFollow(f, n - 1, ks, from, old), results[n].ts <= now,
         isPendingOrder(results[n]) \/ later \/ now - results[n].ts < ForwardLimit
  PROVE  KlinesFollow(f, n, updateKline(ks, results[n], now), from, later)
<1>1. PICK m : m = results[n]
  OBVIOUS
<1> DEFINE new == updateKline(ks, m, now)
<1>3. /\ m \in Result /\ m.ts \in Nat /\ m.ts <= now /\ n \in Nat \ {0}
      /\ ForwardLimit \in Nat \ {0}
  BY <1>1, ResultIs, KlineAssumption
<1>4. /\ KlinesTyped(new, now)
      /\ DOMAIN new = DOMAIN ks \cup DrawnBy(m, now)
      /\ \A w \in DOMAIN ks : w \notin DrawnBy(m, now) => new[w] = ks[w]
      /\ \A w \in DrawnBy(m, now) : new[w] = Drawn(KlineAt(ks, w), w, m)
  <2>1. KlinesTyped(new, now) /\ DOMAIN new = DOMAIN ks \cup DrawnBy(m, now)
    BY <1>3, UpdatedIs
  <2>2. \A w \in DOMAIN ks : w \notin DrawnBy(m, now) => new[w] = ks[w]
    BY <1>3, UpdatedIs
  <2>3. \A w \in DrawnBy(m, now) :
          updateKline(ks, m, now)[w] = Drawn(KlineAt(ks, w), w, m)
    <3>1. m \in Result
      BY <1>3
    <3> HIDE DEF new
    <3>2. QED
      BY <3>1, UpdatedIs
  <2>4. QED
    BY <2>1, <2>2, <2>3
<1> HIDE DEF new
<1>5. ASSUME NEW w \in Int
      PROVE  /\ f[n - 1][w] \in KlineRecord
             /\ f[n][w] = Drawn(f[n - 1][w], w, m)
             /\ f[n][w].count = IF ~isPendingOrder(m) /\ w = m.ts
                                THEN f[n - 1][w].count + Len(m.fills) ELSE f[n - 1][w].count
  BY <1>1, HistoryStep
<1>6. \A w \in DrawnBy(m, now) : w \in Nat /\ w \in m.ts .. now /\ ~isPendingOrder(m)
  BY <1>3 DEF DrawnBy
<1>7. ASSUME NEW w
      PROVE  KlineAt(ks, w) \in KlineRecord /\ Whole(KlineAt(ks, w))
  BY BlankIs DEF KlineAt, KlinesTyped, KlinesFollow
<1>8. \A w \in DOMAIN new : Whole(new[w])
  <2>1. ASSUME NEW w \in DrawnBy(m, now) PROVE Whole(new[w])
    <3>1. w \in Int /\ KlineAt(ks, w) \in KlineRecord /\ Whole(KlineAt(ks, w))
      BY <1>6, <1>7
    <3>2. Whole(Drawn(KlineAt(ks, w), w, m))
      BY <1>3, <3>1, DrawnIs
    <3>3. QED
      BY <1>4, <3>2
  <2>2. QED
    BY <1>4, <2>1 DEF KlinesFollow
<1>9. ~later /\ ~isPendingOrder(m) => DrawnBy(m, now) = m.ts .. now
  BY <1>1, <1>3 DEF DrawnBy
<1>10. ~isPendingOrder(m) => m.ts \in DrawnBy(m, now)
  BY <1>3 DEF DrawnBy
<1>11. ASSUME NEW w \in DOMAIN new, w >= from
       PROVE  new[w].count = f[n][w].count /\ (later \/ new[w] = f[n][w])
  <2>1. w \in Int /\ w \in 0 .. now
    BY <1>4 DEF KlinesTyped
  <2>2. CASE w \in DrawnBy(m, now)
    <3>1. /\ KlineAt(ks, w).count = f[n - 1][w].count
          /\ later \/ KlineAt(ks, w) = f[n - 1][w]
      <4>1. CASE w \in DOMAIN ks
        BY <1>11, <4>1 DEF KlineAt, KlinesFollow
      <4>2. CASE w \notin DOMAIN ks
        <5>1. KlineAt(ks, w) = Blank /\ f[n - 1][w].count = 0
          BY <1>11, <2>1, <4>2 DEF KlineAt, KlinesFollow
        <5>2. later \/ f[n - 1][w] = Blank
          <6>1. w \in from .. now
            BY <1>11, <2>1
          <6>2. QED
            BY <4>2, <6>1 DEF KlinesFollow
        <5>3. QED
          BY <5>1, <5>2, BlankIs
      <4>3. QED
        BY <4>1, <4>2
    <3>2. new[w] = Drawn(KlineAt(ks, w), w, m) /\ KlineAt(ks, w) \in KlineRecord
      BY <1>4, <1>7, <2>2
    <3>3. Drawn(KlineAt(ks, w), w, m).count =
            IF ~isPendingOrder(m) /\ w = m.ts
            THEN KlineAt(ks, w).count + Len(m.fills) ELSE KlineAt(ks, w).count
      BY <1>3, <2>1, <3>2, DrawnIs
    <3>4. QED
      BY <1>5, <2>1, <3>1, <3>2, <3>3
  <2>3. CASE w \notin DrawnBy(m, now)
    <3>1. w \in DOMAIN ks /\ new[w] = ks[w]
      BY <1>4, <2>3
    <3>2. ks[w].count = f[n - 1][w].count /\ (old \/ ks[w] = f[n - 1][w])
      BY <1>11, <3>1 DEF KlinesFollow
    <3>3. f[n][w].count = f[n - 1][w].count
      BY <1>5, <1>10, <2>1, <2>3
    <3>4. ~later => f[n][w] = f[n - 1][w]
      <4>1. ~later => isPendingOrder(m) \/ w < m.ts
        BY <1>3, <1>9, <2>1, <2>3
      <4>2. QED
        BY <1>5, <2>1, <4>1 DEF Drawn
    <3>5. QED
      BY <3>1, <3>2, <3>3, <3>4
  <2>4. QED
    BY <2>2, <2>3
<1>12. ASSUME NEW w \in Int, w >= from, w \notin DOMAIN new
       PROVE  f[n][w].count = 0
  BY <1>4, <1>5, <1>10, <1>12 DEF KlinesFollow
<1>13. \A i \in 1 .. n : \E w \in DOMAIN new : results[i].ts <= w
  <2>1. \A i \in 1 .. n : i = n \/ i \in 1 .. n - 1
    BY <1>3
  <2>2. \A i \in 1 .. n - 1 : \E w \in DOMAIN new : results[i].ts <= w
    BY <1>4 DEF KlinesFollow
  <2>3. QED
    BY <1>1, <1>3, <1>4, <2>1, <2>2
<1>14. DOMAIN new # {} /\ \E w \in DOMAIN new : w >= from
  BY <1>4
<1>15. ASSUME ~later, NEW w \in DOMAIN new, NEW v \in DOMAIN new, from <= w
       PROVE  w .. v \subseteq DOMAIN new
  <2>1. w \in 0 .. now /\ v \in 0 .. now
    BY <1>4 DEF KlinesTyped
  <2>2. w .. now \subseteq DOMAIN new
    <3>1. CASE w \in DOMAIN ks
      <4>1. w .. now \subseteq DOMAIN ks
        BY <1>15, <3>1 DEF KlinesFollow
      <4>2. QED
        BY <1>4, <4>1
    <3>2. CASE w \in DrawnBy(m, now)
      BY <1>3, <1>4, <1>6, <1>9, <1>15, <3>2
    <3>3. QED
      BY <1>4, <3>1, <3>2
  <2>3. QED
    BY <2>1, <2>2
<1>16. ASSUME ~later, NEW v \in DOMAIN new, NEW w \in from .. v
       PROVE  w \in DOMAIN new \/ f[n][w] = Blank
  <2>1. v \in 0 .. now /\ w \in Int /\ w \in from .. now
    BY <1>4 DEF KlinesTyped
  <2>2. w \in DOMAIN ks \/ f[n - 1][w] = Blank
    BY <1>16, <2>1 DEF KlinesFollow
  <2>3. w \notin DOMAIN new => isPendingOrder(m) \/ w < m.ts
    BY <1>3, <1>4, <1>9, <1>16, <2>1
  <2>4. QED
    BY <1>4, <1>5, <2>1, <2>2, <2>3 DEF Drawn
<1>17. KlinesFollow(f, n, new, from, later)
  BY <1>8, <1>11, <1>12, <1>13, <1>14, <1>15, <1>16 DEF KlinesFollow
<1>18. QED
  BY <1>1, <1>17 DEF new

\* From window floor on Redis rd has the klines with trades of its own results, and
\* those of n results where they are not marked.
RedisFollows(f, n, rd, marks, floor) ==
  /\ \A w \in Windows : w >= floor /\ f[rd.maxId][w].count # 0 => rd.klines[w] = f[rd.maxId][w]
  /\ rd.maxId <= n =>
       \A w \in Windows : w >= floor /\ w \notin marks /\ f[n][w].count # 0 =>
         f[n][w] = f[rd.maxId][w]

\* The window from which Redis follows: a restart without a snapshot begins anew.
Floor == IF file = NoFile THEN 0 ELSE since

\* The snapshot holds what its results left of its window, and none was later.
SnapshotHolds(f) ==
  file # NoFile =>
    /\ Whole(file.klines[file.at])
    /\ file.klines[file.at].count = f[file.maxId][file.at].count
    /\ late \/ file.klines[file.at] = f[file.maxId][file.at]
    /\ \A i \in 1 .. file.maxId : results[i].ts <= file.at
    /\ file.maxId <= redis.maxId /\ since <= file.at /\ snapshotTime = file.at

\* What each step of the klines' goroutine keeps.
KlinesHold(f) ==
  /\ KlinesFollow(f, Quoted("kline"), klines, since, late)
  /\ ~late => RedisFollows(f, Quoted("kline"), redis, redisCache, Floor)
  /\ SnapshotHolds(f)
  /\ file = NoFile => /\ since = 0 \/ since + DaySize <= clock + 1
                      /\ late \/ \A w \in DOMAIN klines : w >= since
  /\ snapping => hand = {} /\ maxId <= redis.maxId

\* Where a result is drawn it is marked.
LEMMA RedisResult ==
  ASSUME Typed, NEW f, History(f), NEW n \in 1 .. Len(results),
         NEW rd, rd.maxId \in Nat, NEW marks, NEW more, NEW floor,
         RedisFollows(f, n - 1, rd, marks, floor), marks \subseteq more,
         isPendingOrder(results[n]) \/ results[n].ts .. clock \subseteq more
  PROVE  RedisFollows(f, n, rd, more, floor)
<1>1. n \in Nat \ {0} /\ n \in 0 .. Len(results) /\ clock \in Nat
  BY ResultIs DEF Typed, CandleTypeOK, Windows
<1>2. ASSUME rd.maxId <= n, NEW w \in Windows, w >= floor, w \notin more, f[n][w].count # 0
      PROVE  f[n][w] = f[rd.maxId][w]
  <2>1. CASE rd.maxId = n
    BY <2>1
  <2>2. CASE rd.maxId # n
    <3>1. rd.maxId <= n - 1 /\ w \in Int
      BY <1>1, <1>2, <2>2 DEF Windows
    <3>2. w <= clock
      <4>1. ASSUME clock < w PROVE FALSE
        <5>1. \A i \in 1 .. n : ~(clock < results[i].ts /\ results[i].ts <= w)
          <6>1. ASSUME NEW i \in 1 .. n PROVE ~(clock < results[i].ts)
            <7>1. i \in 1 .. Len(results)
              BY <1>1
            <7>2. QED
              BY <1>1, <7>1, ResultIs
          <6>2. QED
            BY <6>1
        <5>2. clock \in Int
          BY <1>1
        <5>3. f[n][w] = Flat(f[n][clock].close)
          BY <1>1, <3>1, <4>1, <5>1, <5>2, LaterFlat
        <5>4. f[n][w].count = 0
          BY <5>3 DEF Flat
        <5>5. QED
          BY <1>2, <5>4
      <4>2. QED
        BY <1>1, <3>1, <4>1
    <3>3. results[n].ts \in Nat
      BY ResultIs
    <3>4. isPendingOrder(results[n]) \/ w < results[n].ts
      BY <1>1, <1>2, <3>1, <3>2, <3>3
    <3>5. f[n][w] = Drawn(f[n - 1][w], w, results[n])
      BY <3>1, HistoryStep
    <3>6. f[n][w] = f[n - 1][w]
      BY <3>4, <3>5 DEF Drawn
    <3>7. w \notin marks
      BY <1>2
    <3>8. QED
      BY <1>2, <3>1, <3>6, <3>7 DEF RedisFollows
  <2>3. QED
    BY <2>1, <2>2
<1>3. QED
  BY <1>2 DEF RedisFollows

\* What a save leaves in Redis.
LEMMA RedisSaved ==
  ASSUME NEW f, NEW n \in Nat, NEW ks, NEW from, NEW floor, NEW rd, NEW next, NEW marks, NEW ws,
         \A w \in DOMAIN ks : w >= from => ks[w] = f[n][w],
         RedisFollows(f, n, rd, marks, floor),
         rd.maxId \in Nat, rd.maxId <= n, marks \subseteq ws,
         \A w \in ws : w \in DOMAIN ks /\ (w >= floor => w >= from),
         next.maxId = n,
         \A w \in Windows : next.klines[w] = IF w \in ws THEN ks[w] ELSE rd.klines[w]
  PROVE  RedisFollows(f, n, next, {}, floor)
<1>1. ASSUME NEW w \in Windows, w >= floor, f[n][w].count # 0
      PROVE  next.klines[w] = f[n][w]
  <2>1. CASE w \in ws
    <3>1. ks[w] = f[n][w]
      BY <1>1, <2>1
    <3>2. QED
      BY <1>1, <2>1, <3>1
  <2>2. CASE w \notin ws
    <3>1. f[n][w] = f[rd.maxId][w]
      BY <1>1, <2>2 DEF RedisFollows
    <3>2. rd.klines[w] = f[rd.maxId][w]
      BY <1>1, <3>1 DEF RedisFollows
    <3>3. QED
      BY <1>1, <2>2, <3>1, <3>2
  <2>3. QED
    BY <2>1, <2>2
<1>2. QED
  BY <1>1 DEF RedisFollows

\* Marking more, and looking at later windows only, asks less of Redis.
LEMMA RedisLess ==
  ASSUME NEW f, NEW n, NEW rd, NEW marks, NEW more, NEW floor \in Int, NEW higher \in Int,
         RedisFollows(f, n, rd, marks, floor), marks \subseteq more, floor <= higher
  PROVE  RedisFollows(f, n, rd, more, higher)
<1>1. \A w \in Windows : w >= higher => w >= floor
  <2>1. \A w \in Windows : w \in Int
    BY DEF Windows
  <2>2. QED
    BY <2>1
<1>2. \A w \in Windows : w \notin more => w \notin marks
  OBVIOUS
<1>3. QED
  BY <1>1, <1>2 DEF RedisFollows

\* Klines that follow with their prices follow without them.
LEMMA FollowLater ==
  ASSUME NEW f, NEW n, NEW ks, NEW from, NEW old \in BOOLEAN, NEW later \in BOOLEAN,
         old => later, KlinesFollow(f, n, ks, from, old)
  PROVE  KlinesFollow(f, n, ks, from, later)
BY DEF KlinesFollow

\* A step that leaves the snapshot alone.
LEMMA SnapshotApart ==
  ASSUME Typed, NEW f, SnapshotHolds(f), file' = file, snapshotTime' = snapshotTime,
         results' = results, late => late', redis.maxId <= redis'.maxId, redis'.maxId \in Nat,
         file # NoFile => since' <= file.at
  PROVE  SnapshotHolds(f)'
<1>1. ASSUME file # NoFile
      PROVE  file.maxId <= redis'.maxId
  <2>1. file.maxId \in Nat /\ redis.maxId \in Nat /\ file.maxId <= redis.maxId
    BY <1>1 DEF Typed, CandleTypeOK, FileTyped, SnapshotHolds
  <2>2. QED
    BY <2>1
<1>2. QED
  BY <1>1 DEF SnapshotHolds

\* A step that leaves the klines' goroutine, Redis and the snapshot alone.
LEMMA KlinesApart ==
  ASSUME Typed, Typed', NEW f, KlinesHold(f),
         UNCHANGED <<results, klines, redisCache, redis, file, since, snapshotTime>>,
         Quoted("kline")' = Quoted("kline"), late => late', clock <= clock',
         snapping' => snapping /\ hand' = {} /\ maxId' = maxId
  PROVE  KlinesHold(f)'
<1>1. clock \in Nat /\ clock' \in Nat /\ since \in Nat /\ redis.maxId \in Nat /\ DaySize \in Nat
  BY KlineAssumption DEF Typed, CandleTypeOK, Windows
<1>2. PICK n : n = Quoted("kline")
  OBVIOUS
<1>3. PICK old \in BOOLEAN : old = late
  BY DEF Typed
<1>4. PICK later \in BOOLEAN : later = late'
  BY DEF Typed
<1>5. KlinesFollow(f, n, klines, since, later)
  <2>1. KlinesFollow(f, n, klines, since, old)
    BY <1>2, <1>3 DEF KlinesHold
  <2>2. QED
    BY <1>3, <1>4, <2>1, FollowLater
<1>6. KlinesFollow(f, Quoted("kline"), klines, since, late)'
  BY <1>2, <1>4, <1>5 DEF KlinesFollow
<1>7. (~late => RedisFollows(f, Quoted("kline"), redis, redisCache, Floor))'
  BY DEF KlinesHold, RedisFollows, Floor
<1>8. SnapshotHolds(f)'
  BY <1>1, SnapshotApart DEF KlinesHold, SnapshotHolds
<1>9. (file = NoFile => /\ since = 0 \/ since + DaySize <= clock + 1
                        /\ late \/ \A w \in DOMAIN klines : w >= since)'
  <2>1. since + DaySize <= clock + 1 => since + DaySize <= clock' + 1
    <3>1. PICK a \in Nat : a = clock
      BY <1>1
    <3>2. PICK b \in Nat : b = clock'
      BY <1>1
    <3>3. a <= b
      BY <3>1, <3>2
    <3>4. since + DaySize <= a + 1 => since + DaySize <= b + 1
      BY <1>1, <3>3
    <3>5. QED
      BY <3>1, <3>2, <3>4
  <2>2. QED
    BY <2>1 DEF KlinesHold
<1>10. (snapping => hand = {} /\ maxId <= redis.maxId)'
  BY DEF KlinesHold
<1>11. QED
  BY <1>6, <1>7, <1>8, <1>9, <1>10 DEF KlinesHold

\* The klines with that of the clock, and those marked with it, follow.
LEMMA CurrentHolds ==
  ASSUME Typed, NEW f, History(f), KlinesHold(f)
  PROVE  LET new == getCurrentKline(klines, clock)
         IN  /\ KlinesTyped(new, clock) /\ clock \in DOMAIN new
             /\ DOMAIN new = DOMAIN klines \cup MissingAt(klines, clock)
             /\ KlinesFollow(f, Quoted("kline"), new, since, late)
             /\ file = NoFile => late \/ \A w \in DOMAIN new : w >= since
             /\ ~late => RedisFollows(f, Quoted("kline"), redis,
                                      redisCache \cup MissingAt(klines, clock), Floor)
<1> DEFINE new == getCurrentKline(klines, clock)
<1>1. /\ clock \in Nat /\ KlinesTyped(klines, clock) /\ since \in 0 .. clock
      /\ late \in BOOLEAN /\ Quoted("kline") \in 0 .. Len(results)
  BY QuotedIs DEF Typed, CandleTypeOK, Windows, KlinesTyped
<1>2. /\ KlinesTyped(new, clock) /\ clock \in DOMAIN new
      /\ DOMAIN new = DOMAIN klines \cup MissingAt(klines, clock)
  BY <1>1, CurrentIs
<1>3. KlinesFollow(f, Quoted("kline"), klines, since, late)
  BY DEF KlinesHold
<1>4. /\ KlinesFollow(f, Quoted("kline"), new, since, late)
      /\ \A w \in DOMAIN new : w \in DOMAIN klines \/ w >= since
  BY <1>1, <1>3, FollowCurrent
<1> HIDE DEF new
<1>5. file = NoFile => late \/ \A w \in DOMAIN new : w >= since
  BY <1>4 DEF KlinesHold
<1>6. Floor \in Int
  BY <1>1 DEF Floor
<1>7. ~late => RedisFollows(f, Quoted("kline"), redis,
                            redisCache \cup MissingAt(klines, clock), Floor)
  <2>1. ~late => RedisFollows(f, Quoted("kline"), redis, redisCache, Floor)
    BY DEF KlinesHold
  <2>2. PICK marks : marks = redisCache
    OBVIOUS
  <2>3. PICK more : more = redisCache \cup MissingAt(klines, clock)
    OBVIOUS
  <2>4. marks \subseteq more /\ Floor <= Floor
    BY <1>6, <2>2, <2>3
  <2>5. ~late => RedisFollows(f, Quoted("kline"), redis, more, Floor)
    <3>1. PICK floor \in Int : floor = Floor
      BY <1>6
    <3>2. PICK n : n = Quoted("kline")
      OBVIOUS
    <3>3. ASSUME ~late PROVE RedisFollows(f, n, redis, more, floor)
      <4>1. RedisFollows(f, n, redis, marks, floor) /\ floor <= floor
        BY <2>1, <2>2, <3>1, <3>2, <3>3
      <4>2. QED
        BY <2>4, <4>1, RedisLess
    <3>4. QED
      BY <3>1, <3>2, <3>3
  <2>6. QED
    BY <2>3, <2>5
<1>8. QED
  BY <1>2, <1>4, <1>5, <1>7 DEF new

\* New klines carry on as the history does, and are marked.
LEMMA CheckKlinesHolds ==
  ASSUME Typed, Typed', NEW f, History(f), KlinesHold(f), CheckKlines
  PROVE  KlinesHold(f)'
<1>1. /\ klines' = getCurrentKline(klines, clock)
      /\ redisCache' = redisCache \cup MissingAt(klines, clock)
      /\ UNCHANGED <<clock, results, maxId, hand, market, detail, snapshotTime, snapping,
                     redis, file, since, late>>
  BY DEF CheckKlines
<1>2. Quoted("kline")' = Quoted("kline") /\ Floor' = Floor
  BY <1>1 DEF Quoted, Floor
<1>3. PICK n : n = Quoted("kline")
  OBVIOUS
<1>4. /\ KlinesFollow(f, n, klines', since, late)
      /\ file = NoFile => late \/ \A w \in DOMAIN klines' : w >= since
      /\ ~late => RedisFollows(f, n, redis, redisCache', Floor)
  <2>1. PICK new : new = getCurrentKline(klines, clock)
    OBVIOUS
  <2>2. /\ KlinesFollow(f, n, new, since, late)
        /\ file = NoFile => late \/ \A w \in DOMAIN new : w >= since
        /\ ~late => RedisFollows(f, n, redis, redisCache \cup MissingAt(klines, clock), Floor)
    BY <1>3, <2>1, CurrentHolds
  <2>3. QED
    BY <1>1, <2>1, <2>2
<1>5. KlinesFollow(f, Quoted("kline"), klines, since, late)'
  BY <1>1, <1>2, <1>3, <1>4 DEF KlinesFollow
<1>6. (~late => RedisFollows(f, Quoted("kline"), redis, redisCache, Floor))'
  BY <1>1, <1>2, <1>3, <1>4 DEF RedisFollows
<1>7. SnapshotHolds(f)'
  BY <1>1 DEF KlinesHold, SnapshotHolds
<1>8. QED
  BY <1>1, <1>4, <1>5, <1>6, <1>7 DEF KlinesHold

\* A result is drawn into the klines as into the history, and what changes is marked.
LEMMA KlineUpdaterHolds ==
  ASSUME Typed, Typed', NEW f, History(f), KlinesHold(f), KlineUpdater
  PROVE  KlinesHold(f)'
<1>1. /\ "kline" \in hand /\ Done("kline") /\ late' = (late \/ TooLate)
      /\ UNCHANGED <<clock, results, market, detail, snapshotTime, snapping, redis, file, since>>
  BY DEF KlineUpdater
<1>2. Quoted("kline") = maxId /\ Quoted("kline")' = maxId + 1
  BY <1>1, QuotedDone
<1>3. /\ InHand = results[maxId + 1] /\ InHand.ts <= clock /\ maxId + 1 \in 1 .. Len(results)
      /\ clock \in Nat
  BY <1>1, HandTyped DEF InHand, Typed, CandleTypeOK, Windows
<1>4. PICK n \in 1 .. Len(results) : n = maxId + 1
  BY <1>3
<1>5. maxId = n - 1 /\ InHand = results[n] /\ results[n].ts \in Nat /\ results[n].ts <= clock
  <2>1. maxId = n - 1
    BY <1>4 DEF Typed, CandleTypeOK
  <2>2. QED
    BY <1>3, <1>4, <2>1, ResultIs
<1>6. PICK m : m = results[n]
  OBVIOUS
<1>7. PICK old \in BOOLEAN : old = late
  BY DEF Typed
<1>8. PICK later \in BOOLEAN : later = late'
  BY DEF Typed
<1>9. PICK cur : cur = getCurrentKline(klines, clock)
  OBVIOUS
<1>10. /\ KlinesTyped(cur, clock) /\ clock \in DOMAIN cur
       /\ KlinesFollow(f, n - 1, cur, since, old)
       /\ file = NoFile => old \/ \A w \in DOMAIN cur : w >= since
       /\ ~old => RedisFollows(f, n - 1, redis, redisCache \cup MissingAt(klines, clock), Floor)
  BY <1>2, <1>5, <1>7, <1>9, CurrentHolds
<1>11. old => later
  BY <1>1, <1>7, <1>8
<1>12. /\ isPendingOrder(m) \/ later \/ clock - m.ts < ForwardLimit
       /\ isPendingOrder(m) \/ later \/ clock - m.ts < DaySize
  <2>1. DaySize \in Nat /\ ForwardLimit \in Nat
    BY KlineAssumption
  <2>2. Min({ForwardLimit, DaySize}) = IF ForwardLimit <= DaySize THEN ForwardLimit ELSE DaySize
    BY <2>1, OfTwo
  <2>3. isPendingOrder(m) \/ later \/ ~(clock - m.ts >= Min({ForwardLimit, DaySize}))
    BY <1>1, <1>5, <1>6, <1>8 DEF TooLate
  <2>4. m.ts \in Nat
    BY <1>5, <1>6
  <2>5. QED
    BY <1>3, <2>1, <2>2, <2>3, <2>4
<1>13. klines' = updateKline(cur, m, clock)
  BY <1>5, <1>6, <1>9 DEF KlineUpdater
<1>14. KlinesFollow(f, n, klines', since, later)
  <2>1. since \in 0 .. clock
    BY DEF Typed, CandleTypeOK
  <2>2. KlinesFollow(f, n, updateKline(cur, m, clock), since, later)
    BY <1>3, <1>5, <1>6, <1>10, <1>11, <1>12, <2>1, FollowUpdated
  <2>3. QED
    BY <1>13, <2>2
<1>15. DOMAIN klines' = DOMAIN cur \cup DrawnBy(m, clock)
  <2>1. m \in Result
    BY <1>6, ResultIs
  <2>2. QED
    BY <1>3, <1>10, <1>13, <2>1, UpdatedIs
<1>16. redisCache' = redisCache \cup MissingAt(klines, clock) \cup DrawnBy(m, clock)
  BY <1>5, <1>6 DEF KlineUpdater
<1>17. isPendingOrder(m) \/ later \/ DrawnBy(m, clock) = m.ts .. clock
  <2>1. SUFFICES ASSUME ~isPendingOrder(m), ~later
                 PROVE  DrawnBy(m, clock) = m.ts .. clock
    OBVIOUS
  <2>2. clock - m.ts < ForwardLimit /\ m.ts \in Nat /\ ForwardLimit \in Nat
    BY <1>5, <1>6, <1>12, <2>1, KlineAssumption
  <2>3. \A w \in m.ts .. clock : w < m.ts + ForwardLimit
    BY <1>3, <2>2
  <2>4. QED
    BY <2>1, <2>3 DEF DrawnBy
<1>18. ~later => RedisFollows(f, n, redis, redisCache', Floor)
  <2>1. PICK marks : marks = redisCache \cup MissingAt(klines, clock)
    OBVIOUS
  <2>2. PICK more : more = redisCache'
    OBVIOUS
  <2>3. marks \subseteq more /\ (later \/ isPendingOrder(m) \/ m.ts .. clock \subseteq more)
    BY <1>16, <1>17, <2>1, <2>2
  <2>4. redis.maxId \in Nat
    BY DEF Typed, CandleTypeOK
  <2>5. ~later => RedisFollows(f, n - 1, redis, marks, Floor)
    BY <1>10, <1>11, <2>1
  <2>6. ~later => RedisFollows(f, n, redis, more, Floor)
    BY <1>6, <2>3, <2>4, <2>5, RedisResult
  <2>7. QED
    BY <2>2, <2>6
<1>19. file = NoFile => /\ since = 0 \/ since + DaySize <= clock + 1
                        /\ later \/ \A w \in DOMAIN klines' : w >= since
  <2>1. SUFFICES ASSUME file = NoFile
                 PROVE  /\ since = 0 \/ since + DaySize <= clock + 1
                        /\ later \/ \A w \in DOMAIN klines' : w >= since
    OBVIOUS
  <2>2. since = 0 \/ since + DaySize <= clock + 1
    BY <2>1 DEF KlinesHold
  <2>3. ASSUME ~later, NEW w \in DOMAIN klines'
        PROVE  w >= since
    <3>1. CASE w \in DOMAIN cur
      BY <1>10, <1>11, <2>1, <2>3, <3>1
    <3>2. CASE w \in DrawnBy(m, clock)
      <4>1. ~isPendingOrder(m) /\ w \in m.ts .. clock /\ m.ts \in Nat
        BY <1>5, <1>6, <3>2 DEF DrawnBy
      <4>2. clock - m.ts < DaySize
        BY <1>12, <2>3, <4>1
      <4>3. since \in Nat /\ DaySize \in Nat
        BY KlineAssumption DEF Typed, CandleTypeOK
      <4>4. QED
        BY <1>3, <2>2, <4>1, <4>2, <4>3
    <3>3. QED
      BY <1>15, <3>1, <3>2
  <2>4. QED
    BY <2>2, <2>3
<1>20. Floor' = Floor
  BY <1>1 DEF Floor
<1>21. KlinesFollow(f, Quoted("kline"), klines, since, late)'
  BY <1>1, <1>2, <1>4, <1>8, <1>14 DEF KlinesFollow
<1>22. (~late => RedisFollows(f, Quoted("kline"), redis, redisCache, Floor))'
  BY <1>1, <1>2, <1>4, <1>8, <1>18, <1>20 DEF RedisFollows
<1>23. SnapshotHolds(f)'
  BY <1>1 DEF KlinesHold, SnapshotHolds
<1>24. (snapping => hand = {} /\ maxId <= redis.maxId)'
  BY <1>1 DEF KlinesHold
<1>25. QED
  BY <1>1, <1>8, <1>19, <1>21, <1>22, <1>23, <1>24 DEF KlinesHold

\* After a save nothing need be marked, and Redis has at least the results quoted.
LEMMA SaveFollows ==
  ASSUME Typed, NEW f, NEW ks, NEW ws, KlinesTyped(ks, clock),
         RedisAhead \/ ws \subseteq DOMAIN ks, Saved(ks, ws),
         KlinesFollow(f, maxId, ks, since, late),
         file = NoFile => late \/ \A w \in DOMAIN ks : w >= since,
         ~late => RedisFollows(f, maxId, redis, ws, Floor)
  PROVE  /\ redis'.maxId \in Nat /\ redis.maxId <= redis'.maxId /\ maxId <= redis'.maxId
         /\ ~late => RedisFollows(f, maxId, redis', {}, Floor)
<1>1. redis.maxId \in Nat /\ maxId \in Nat
  BY DEF Typed, CandleTypeOK
<1>2. CASE RedisAhead
  <2>1. redis' = redis /\ ~(redis.maxId <= maxId) /\ maxId <= redis.maxId
    BY <1>1, <1>2 DEF Saved, RedisAhead
  <2>2. ~late => RedisFollows(f, maxId, redis', {}, Floor)
    BY <2>1 DEF RedisFollows
  <2>3. QED
    BY <1>1, <2>1, <2>2
<1>3. CASE ~RedisAhead
  <2>1. /\ redis'.maxId = maxId /\ ws \subseteq DOMAIN ks /\ redis.maxId <= maxId
        /\ \A w \in Windows : redis'.klines[w] = IF w \in ws THEN ks[w] ELSE redis.klines[w]
    BY <1>1, <1>3, SavedIs DEF RedisAhead
  <2>2. ASSUME ~late
        PROVE  RedisFollows(f, maxId, redis', {}, Floor)
    <3>1. PICK n \in Nat : n = maxId
      BY <1>1
    <3>2. PICK from : from = since
      OBVIOUS
    <3>3. PICK floor : floor = Floor
      OBVIOUS
    <3>4. PICK rd : rd = redis
      OBVIOUS
    <3>5. PICK next : next = redis'
      OBVIOUS
    <3>7. \A w \in DOMAIN ks : w >= from => ks[w] = f[n][w]
      BY <2>2, <3>1, <3>2 DEF KlinesFollow
    <3>8. RedisFollows(f, n, rd, ws, floor) /\ rd.maxId \in Nat /\ rd.maxId <= n
      BY <1>1, <2>1, <2>2, <3>1, <3>3, <3>4
    <3>9. \A w \in ws : w \in DOMAIN ks /\ (w >= floor => w >= from)
      BY <2>1, <2>2, <3>2, <3>3 DEF Floor
    <3>10. /\ next.maxId = n
           /\ \A w \in Windows : next.klines[w] = IF w \in ws THEN ks[w] ELSE rd.klines[w]
      BY <2>1, <3>1, <3>4, <3>5
    <3>11. ws \subseteq ws
      OBVIOUS
    <3>12. RedisFollows(f, n, next, {}, floor)
      BY <3>7, <3>8, <3>9, <3>10, <3>11, RedisSaved
    <3>13. QED
      BY <3>1, <3>3, <3>5, <3>12
  <2>3. QED
    BY <1>1, <2>1, <2>2
<1>4. QED
  BY <1>2, <1>3

\* After a save Redis has the klines for the results quoted, or was ahead.
LEMMA SaveTickHolds ==
  ASSUME Typed, Typed', NEW f, History(f), KlinesHold(f), SaveTick
  PROVE  KlinesHold(f)'
<1>1. /\ hand = {} /\ ~snapping /\ redisCache' = {}
      /\ RedisAhead \/ redisCache \subseteq DOMAIN klines
      /\ Saved(klines, redisCache)
      /\ UNCHANGED <<clock, results, maxId, hand, klines, market, detail, snapshotTime,
                     snapping, file, since, late>>
  BY DEF SaveTick, Idle
<1>2. Quoted("kline") = maxId /\ Quoted("kline")' = maxId /\ Floor' = Floor
  BY <1>1 DEF Quoted, Floor
<1>3. PICK n : n = maxId
  OBVIOUS
<1>4. /\ KlinesFollow(f, n, klines, since, late) /\ KlinesTyped(klines, clock)
      /\ file = NoFile => late \/ \A w \in DOMAIN klines : w >= since
      /\ ~late => RedisFollows(f, n, redis, redisCache, Floor)
  BY <1>2, <1>3 DEF KlinesHold, Typed, CandleTypeOK, KlinesTyped
<1>5. /\ redis'.maxId \in Nat /\ redis.maxId <= redis'.maxId /\ n <= redis'.maxId
      /\ ~late => RedisFollows(f, n, redis', {}, Floor)
  BY <1>1, <1>3, <1>4, SaveFollows
<1>6. KlinesFollow(f, Quoted("kline"), klines, since, late)'
  BY <1>1, <1>2, <1>3, <1>4 DEF KlinesFollow
<1>7. (~late => RedisFollows(f, Quoted("kline"), redis, redisCache, Floor))'
  BY <1>1, <1>2, <1>3, <1>5 DEF RedisFollows
<1>8. SnapshotHolds(f)'
  BY <1>1, <1>5, SnapshotApart DEF KlinesHold, SnapshotHolds
<1>9. QED
  BY <1>1, <1>6, <1>7, <1>8 DEF KlinesHold

\* Before a snapshot Redis has all that it will hold.
LEMMA StartSnapshotHolds ==
  ASSUME Typed, Typed', NEW f, History(f), KlinesHold(f), StartSnapshot
  PROVE  KlinesHold(f)'
<1>1. /\ hand = {} /\ redisCache' = {} /\ klines' = getCurrentKline(klines, clock)
      /\ UNCHANGED <<clock, results, maxId, hand, market, detail, snapshotTime, file,
                     since, late>>
  BY DEF StartSnapshot, Idle
<1>2. Quoted("kline") = maxId /\ Quoted("kline")' = maxId /\ Floor' = Floor
  BY <1>1 DEF Quoted, Floor
<1>3. PICK n : n = maxId
  OBVIOUS
<1>4. PICK ks : ks = klines'
  OBVIOUS
<1>5. PICK ws : ws = redisCache \cup MissingAt(klines, clock)
  OBVIOUS
<1>6. /\ KlinesFollow(f, n, ks, since, late) /\ KlinesTyped(ks, clock)
      /\ file = NoFile => late \/ \A w \in DOMAIN ks : w >= since
      /\ ~late => RedisFollows(f, n, redis, ws, Floor)
  <2>1. PICK new : new = getCurrentKline(klines, clock)
    OBVIOUS
  <2>2. /\ KlinesFollow(f, n, new, since, late) /\ KlinesTyped(new, clock)
        /\ file = NoFile => late \/ \A w \in DOMAIN new : w >= since
        /\ ~late => RedisFollows(f, n, redis, redisCache \cup MissingAt(klines, clock), Floor)
    BY <1>2, <1>3, <2>1, CurrentHolds
  <2>3. QED
    BY <1>1, <1>4, <1>5, <2>1, <2>2
<1>7. (RedisAhead \/ ws \subseteq DOMAIN ks) /\ Saved(ks, ws)
  BY <1>4, <1>5 DEF StartSnapshot
<1>8. /\ redis'.maxId \in Nat /\ redis.maxId <= redis'.maxId /\ n <= redis'.maxId
      /\ ~late => RedisFollows(f, n, redis', {}, Floor)
  BY <1>3, <1>6, <1>7, SaveFollows
<1>9. KlinesFollow(f, Quoted("kline"), klines, since, late)'
  BY <1>1, <1>2, <1>3, <1>4, <1>6 DEF KlinesFollow
<1>10. (~late => RedisFollows(f, Quoted("kline"), redis, redisCache, Floor))'
  BY <1>1, <1>2, <1>3, <1>8 DEF RedisFollows
<1>11. SnapshotHolds(f)'
  BY <1>1, <1>8, SnapshotApart DEF KlinesHold, SnapshotHolds
<1>12. (file = NoFile => /\ since = 0 \/ since + DaySize <= clock + 1
                         /\ late \/ \A w \in DOMAIN klines : w >= since)'
  BY <1>1, <1>4, <1>6 DEF KlinesHold
<1>13. (snapping => hand = {} /\ maxId <= redis.maxId)'
  BY <1>1, <1>3, <1>8
<1>14. QED
  BY <1>9, <1>10, <1>11, <1>12, <1>13 DEF KlinesHold

\* From the windows dropped on the klines follow as before, and a day of them stays.
LEMMA ClearHolds ==
  ASSUME Typed, Typed', NEW f, History(f), KlinesHold(f), Clear
  PROVE  KlinesHold(f)'
<1>1. /\ hand = {} /\ ~snapping
      /\ UNCHANGED <<clock, results, maxId, hand, redisCache, market, detail, snapshotTime,
                     snapping, redis, file, late>>
  BY DEF Clear, Idle
<1>2. PICK e \in DOMAIN klines :
        /\ e < snapshotTime /\ e + KeepKlines <= clock
        /\ since' = (IF since <= e + 1 THEN e + 1 ELSE since)
        /\ \A w \in DOMAIN klines : w \in DOMAIN klines' <=> e < w
        /\ \A w \in DOMAIN klines' : w \in DOMAIN klines /\ klines'[w] = klines[w]
        /\ \E w \in DOMAIN klines' : \A v \in DOMAIN klines : v <= w
  BY ClearedIs
<1>3. /\ clock \in Nat /\ since \in Nat /\ e \in Nat /\ DOMAIN klines \subseteq Nat
      /\ KeepKlines \in Nat /\ DaySize \in Nat /\ KeepKlines >= DaySize /\ redis.maxId \in Nat
      /\ snapshotTime \in Nat
  BY CandleAssumption, KlineAssumption DEF Typed, CandleTypeOK, Windows
<1>4. since' \in Nat /\ since <= since' /\ e < since'
  BY <1>2, <1>3
<1>5. PICK n : n = maxId
  OBVIOUS
<1>6. Quoted("kline") = n /\ Quoted("kline")' = n
  BY <1>1, <1>5 DEF Quoted
<1>7. PICK ks : ks = klines
  OBVIOUS
<1>8. PICK new : new = klines'
  OBVIOUS
<1>9. PICK from \in Nat : from = since
  BY <1>3
<1>10. PICK next \in Nat : next = since'
  BY <1>4
<1>12. /\ DOMAIN ks \subseteq Nat /\ from <= next /\ e < next
       /\ next = IF from <= e + 1 THEN e + 1 ELSE from
       /\ \A w \in DOMAIN ks : w \in DOMAIN new <=> e < w
       /\ \A w \in DOMAIN new : w \in DOMAIN ks /\ new[w] = ks[w]
       /\ KlinesFollow(f, n, ks, from, late)
  BY <1>2, <1>3, <1>4, <1>6, <1>7, <1>8, <1>9, <1>10 DEF KlinesHold
<1>13. PICK top \in DOMAIN new : \A v \in DOMAIN ks : v <= top
  BY <1>2, <1>7, <1>8
<1>14. KlinesFollow(f, n, new, next, late)
  <2>1. top \in DOMAIN ks /\ top >= next
    <3>1. top \in DOMAIN ks /\ e < top
      BY <1>12, <1>13
    <3>2. PICK w \in DOMAIN ks : w >= from
      BY <3>1, <1>12 DEF KlinesFollow
    <3>3. w <= top /\ w \in Nat /\ top \in Nat
      BY <1>12, <1>13, <3>1
    <3>4. QED
      BY <1>3, <1>12, <3>1, <3>2, <3>3
  <2>2. \A w \in Int : w >= next => w >= from /\ e < w
    BY <1>3, <1>12
  <2>3. \A w \in DOMAIN new : w \in Int /\ w \in DOMAIN ks
    BY <1>12
  <2>4. \A w \in DOMAIN new : w >= next => new[w].count = f[n][w].count /\ (late \/ new[w] = f[n][w])
    BY <1>12, <2>2, <2>3 DEF KlinesFollow
  <2>5. \A w \in Int : w >= next /\ w \notin DOMAIN new => f[n][w].count = 0
    BY <1>12, <2>2 DEF KlinesFollow
  <2>6. \A i \in 1 .. n : \E w \in DOMAIN new : results[i].ts <= w
    <3>1. ASSUME NEW i \in 1 .. n PROVE results[i].ts <= top
      <4>1. PICK w \in DOMAIN ks : results[i].ts <= w
        BY <1>12 DEF KlinesFollow
      <4>2. i \in 1 .. Len(results)
        BY <1>5 DEF Typed, CandleTypeOK
      <4>3. results[i].ts \in Nat /\ w \in Nat /\ top \in Nat /\ w <= top
        BY <1>12, <1>13, <2>1, <4>2, ResultIs
      <4>4. QED
        BY <4>1, <4>3
    <3>2. QED
      BY <3>1
  <2>7. ASSUME ~late, NEW w \in DOMAIN new, NEW v \in DOMAIN new, next <= w
        PROVE  w .. v \subseteq DOMAIN new
    <3>1. w >= from /\ e < w /\ w \in Nat /\ v \in Nat /\ w \in DOMAIN ks /\ v \in DOMAIN ks
      BY <1>3, <1>12, <2>2, <2>3, <2>7
    <3>2. w .. v \subseteq DOMAIN ks
      BY <1>12, <2>7, <3>1 DEF KlinesFollow
    <3>3. \A x \in w .. v : e < x
      BY <1>3, <3>1
    <3>4. QED
      BY <1>12, <3>2, <3>3
  <2>8. ASSUME ~late, NEW v \in DOMAIN new, NEW w \in next .. v
        PROVE  w \in DOMAIN new \/ f[n][w] = Blank
    <3>1. w \in from .. v /\ e < w /\ v \in DOMAIN ks
      BY <1>3, <1>12, <2>2, <2>3
    <3>2. w \in DOMAIN ks \/ f[n][w] = Blank
      BY <1>12, <2>8, <3>1 DEF KlinesFollow
    <3>3. QED
      BY <1>12, <3>1, <3>2
  <2>9. \A w \in DOMAIN new : Whole(new[w])
    BY <1>12 DEF KlinesFollow
  <2>10. DOMAIN new # {} /\ \E w \in DOMAIN new : w >= next
    BY <1>13, <2>1
  <2>11. QED
    BY <2>4, <2>5, <2>6, <2>7, <2>8, <2>9, <2>10 DEF KlinesFollow
<1>15. KlinesFollow(f, Quoted("kline"), klines, since, late)'
  BY <1>1, <1>6, <1>8, <1>10, <1>14 DEF KlinesFollow
<1>16. (~late => RedisFollows(f, Quoted("kline"), redis, redisCache, Floor))'
  <2>1. PICK floor \in Int : floor = Floor
    BY <1>3 DEF Floor
  <2>2. PICK higher \in Int : higher = Floor'
    BY <1>4 DEF Floor
  <2>3. floor <= higher
    BY <1>1, <1>4, <2>1, <2>2 DEF Floor
  <2>4. PICK marks : marks = redisCache
    OBVIOUS
  <2>5. ASSUME ~late PROVE RedisFollows(f, n, redis, marks, higher)
    <3>1. RedisFollows(f, n, redis, marks, floor) /\ marks \subseteq marks
      BY <1>6, <2>1, <2>4, <2>5 DEF KlinesHold
    <3>2. QED
      BY <2>3, <3>1, RedisLess
  <2>6. QED
    BY <1>1, <1>6, <2>2, <2>4, <2>5 DEF RedisFollows
<1>17. SnapshotHolds(f)'
  <2>1. file # NoFile => since' <= file.at
    <3>1. ASSUME file # NoFile PROVE since' <= file.at
      <4>1. since <= file.at /\ snapshotTime = file.at
        BY <3>1 DEF KlinesHold, SnapshotHolds
      <4>2. e + 1 <= snapshotTime
        BY <1>2, <1>3
      <4>3. QED
        BY <1>2, <4>1, <4>2
    <3>2. QED
      BY <3>1
  <2>2. QED
    BY <1>1, <1>3, <2>1, SnapshotApart DEF KlinesHold
<1>18. (file = NoFile => /\ since = 0 \/ since + DaySize <= clock + 1
                         /\ late \/ \A w \in DOMAIN klines : w >= since)'
  <2>1. SUFFICES ASSUME file = NoFile
                 PROVE  /\ since' = 0 \/ since' + DaySize <= clock + 1
                        /\ late \/ \A w \in DOMAIN new : w >= next
    BY <1>1, <1>8, <1>10
  <2>2. since = 0 \/ since + DaySize <= clock + 1
    BY <2>1 DEF KlinesHold
  <2>3. since' = 0 \/ since' + DaySize <= clock + 1
    <3>1. CASE since' = since
      BY <2>2, <3>1
    <3>2. CASE since' = e + 1
      BY <1>2, <1>3, <3>2
    <3>3. QED
      BY <1>2, <3>1, <3>2
  <2>4. ASSUME ~late, NEW w \in DOMAIN new PROVE w >= next
    <3>1. w \in DOMAIN ks /\ e < w /\ w \in Nat
      BY <1>12
    <3>2. w >= from
      BY <1>7, <1>9, <2>1, <2>4, <3>1 DEF KlinesHold
    <3>3. QED
      BY <1>3, <1>12, <3>1, <3>2
  <2>5. QED
    BY <2>3, <2>4
<1>19. QED
  BY <1>1, <1>15, <1>16, <1>17, <1>18 DEF KlinesHold

\* The snapshot has the kline of its window for the results quoted.
LEMMA TakeHolds ==
  ASSUME Typed, Typed', NEW f, KlinesHold(f), takeSnapShot
  PROVE  KlinesHold(f)'
<1>1. /\ snapping /\ ~snapping' /\ snapshotTime' = clock
      /\ UNCHANGED <<clock, results, maxId, hand, klines, redisCache, market, detail, redis,
                     since, late>>
  <2>1. snapping' = FALSE
    BY DEF takeSnapShot
  <2>2. ~snapping'
    BY <2>1
  <2>3. QED
    BY <2>2 DEF takeSnapShot
<1>2. /\ clock \in DOMAIN klines /\ file'.at = clock /\ file'.klines[clock] = klines[clock]
      /\ file'.maxId = maxId /\ file' # NoFile
  BY TakenIs
<1>3. /\ clock \in Nat /\ since \in Nat /\ since <= clock /\ maxId \in 0 .. Len(results)
      /\ Len(results) \in Nat
  BY DEF Typed, CandleTypeOK, Windows
<1>4. hand = {} /\ maxId <= redis.maxId
  BY <1>1 DEF KlinesHold
<1>5. PICK n : n = maxId
  OBVIOUS
<1>6. Quoted("kline") = n /\ Quoted("kline")' = n
  BY <1>1, <1>4, <1>5 DEF Quoted
<1>7. KlinesFollow(f, n, klines, since, late)
  BY <1>6 DEF KlinesHold
<1>8. KlinesFollow(f, Quoted("kline"), klines, since, late)'
  BY <1>1, <1>6, <1>7 DEF KlinesFollow
<1>9. (~late => RedisFollows(f, Quoted("kline"), redis, redisCache, Floor))'
  <2>1. PICK floor \in Int : floor = Floor
    BY <1>3 DEF Floor
  <2>2. PICK higher \in Int : higher = since
    BY <1>3
  <2>3. floor <= higher /\ Floor' = higher
    BY <1>1, <1>2, <1>3, <2>1, <2>2 DEF Floor
  <2>4. PICK marks : marks = redisCache
    OBVIOUS
  <2>5. ASSUME ~late PROVE RedisFollows(f, n, redis, marks, higher)
    <3>1. RedisFollows(f, n, redis, marks, floor) /\ marks \subseteq marks
      BY <1>6, <2>1, <2>4, <2>5 DEF KlinesHold
    <3>2. QED
      BY <2>3, <3>1, RedisLess
  <2>6. QED
    BY <1>1, <1>6, <2>3, <2>4, <2>5 DEF RedisFollows
<1>10. SnapshotHolds(f)'
  <2>1. /\ Whole(klines[clock]) /\ klines[clock].count = f[n][clock].count
        /\ late \/ klines[clock] = f[n][clock]
    BY <1>2, <1>3, <1>7 DEF KlinesFollow
  <2>2. \A i \in 1 .. maxId : results[i].ts <= clock
    <3>1. ASSUME NEW i \in 1 .. maxId PROVE results[i].ts <= clock
      <4>1. i \in 1 .. Len(results)
        BY <1>3
      <4>2. QED
        BY <4>1, ResultIs
    <3>2. QED
      BY <3>1
  <2>3. QED
    BY <1>1, <1>2, <1>3, <1>4, <1>5, <2>1, <2>2 DEF SnapshotHolds
<1>11. QED
  BY <1>1, <1>2, <1>8, <1>9, <1>10 DEF KlinesHold

\* After a restart the klines follow from the window of the snapshot on, or from the
\* first when there is none.
LEMMA CrashHolds ==
  ASSUME Typed, Typed', NEW f, History(f), KlinesHold(f), Crash
  PROVE  KlinesHold(f)'
<1>1. /\ hand' = {} /\ redisCache' = {} /\ ~snapping' /\ UNCHANGED <<clock, results, redis, file, late>>
      /\ clock \in Nat /\ Len(results) \in Nat /\ redis.maxId \in Nat
  <2>1. clock \in Nat /\ Len(results) \in Nat /\ redis.maxId \in Nat
    BY DEF Typed, CandleTypeOK, Windows
  <2>2. /\ hand' = {} /\ redisCache' = {} /\ snapping' = FALSE
        /\ UNCHANGED <<clock, results, redis, file, late>>
    BY RestartIs
  <2>3. ~snapping'
    BY <2>2
  <2>4. QED
    BY <2>1, <2>2, <2>3
<1>2. PICK n : n = maxId'
  OBVIOUS
<1>3. Quoted("kline")' = n
  BY <1>1, <1>2 DEF Quoted
<1>4. PICK ks : ks = klines'
  OBVIOUS
<1>5. CASE file = NoFile
  <2>1. n = 0 /\ DOMAIN ks = {} /\ snapshotTime' = clock /\ since' = 0
    BY <1>2, <1>4, <1>5, RestartIs
  <2>2. \A w \in Int : f[0][w] = Blank
    BY DEF History
  <2>3. 1 .. 0 = {}
    OBVIOUS
  <2>4. KlinesFollow(f, 0, ks, 0, late)
    BY <2>1, <2>2, <2>3, BlankIs DEF KlinesFollow
  <2>5. KlinesFollow(f, Quoted("kline"), klines, since, late)'
    BY <1>1, <1>3, <1>4, <2>1, <2>4 DEF KlinesFollow
  <2>6. (~late => RedisFollows(f, Quoted("kline"), redis, redisCache, Floor))'
    <3>1. ASSUME ~late PROVE RedisFollows(f, 0, redis, {}, 0)
      <4>1. PICK k : k = Quoted("kline")
        OBVIOUS
      <4>2. RedisFollows(f, k, redis, redisCache, 0)
        BY <1>5, <3>1, <4>1 DEF KlinesHold, Floor
      <4>3. redis.maxId <= 0 => redis.maxId = 0
        BY <1>1
      <4>4. QED
        BY <4>2, <4>3 DEF RedisFollows
    <3>2. Floor' = 0
      BY <1>1, <1>5 DEF Floor
    <3>3. QED
      BY <1>1, <1>3, <2>1, <3>1, <3>2 DEF RedisFollows
  <2>7. SnapshotHolds(f)'
    BY <1>1, <1>5 DEF SnapshotHolds
  <2>8. QED
    BY <1>1, <1>4, <2>1, <2>5, <2>6, <2>7 DEF KlinesHold
<1>6. CASE file # NoFile
  <2>1. /\ n = file.maxId /\ ks = file.klines /\ snapshotTime' = file.at /\ since' = file.at
    BY <1>2, <1>4, <1>6, RestartIs
  <2>2. PICK at \in Nat : at = file.at
    BY <1>1, <1>6 DEF Typed, FileTyped
  <2>3. DOMAIN ks = {at} /\ n \in 0 .. Len(results)
    BY <1>6, <2>1, <2>2 DEF Typed, FileTyped
  <2>4. /\ Whole(ks[at]) /\ ks[at].count = f[n][at].count
        /\ late \/ ks[at] = f[n][at]
        /\ \A i \in 1 .. n : results[i].ts <= at
        /\ n <= redis.maxId /\ since <= at /\ snapshotTime = at
    BY <1>6, <2>1, <2>2 DEF KlinesHold, SnapshotHolds
  <2>5. ASSUME NEW w \in Int, w >= at, w # at
        PROVE  f[n][w].count = 0
    <3>1. at < w /\ at \in Int
      BY <2>5
    <3>2. \A i \in 1 .. n : ~(at < results[i].ts /\ results[i].ts <= w)
      <4>1. ASSUME NEW i \in 1 .. n PROVE ~(at < results[i].ts)
        <5>1. i \in 1 .. Len(results)
          BY <1>1, <2>3
        <5>2. results[i].ts \in Nat /\ results[i].ts <= at
          BY <2>4, <5>1, ResultIs
        <5>3. QED
          BY <5>2
      <4>2. QED
        BY <4>1
    <3>3. f[n][w] = Flat(f[n][at].close)
      BY <2>3, <3>1, <3>2, LaterFlat
    <3>4. QED
      BY <3>3 DEF Flat
  <2>6. KlinesFollow(f, n, ks, at, late)
    <3>1. at .. at = {at} /\ at >= at
      OBVIOUS
    <3>2. QED
      BY <2>3, <2>4, <2>5, <3>1 DEF KlinesFollow
  <2>7. KlinesFollow(f, Quoted("kline"), klines, since, late)'
    BY <1>1, <1>3, <1>4, <2>1, <2>2, <2>6 DEF KlinesFollow
  <2>8. (~late => RedisFollows(f, Quoted("kline"), redis, redisCache, Floor))'
    <3>1. since \in Nat
      BY <1>1 DEF Typed, CandleTypeOK
    <3>2. PICK from \in Nat : from = since
      BY <3>1
    <3>3. ASSUME ~late PROVE RedisFollows(f, n, redis, {}, at)
      <4>1. PICK k : k = Quoted("kline")
        OBVIOUS
      <4>2. RedisFollows(f, k, redis, redisCache, from)
        BY <1>6, <3>2, <3>3, <4>1 DEF KlinesHold, Floor
      <4>3. redis.maxId <= n => redis.maxId = n
        BY <1>1, <2>3, <2>4
      <4>4. \A w \in Windows : w >= at => w >= from
        <5>1. \A w \in Windows : w \in Int
          BY DEF Windows
        <5>2. from <= at
          BY <2>4, <3>2
        <5>3. QED
          BY <5>1, <5>2
      <4>5. QED
        BY <4>2, <4>3, <4>4 DEF RedisFollows
    <3>4. Floor' = at
      BY <1>1, <1>6, <2>1, <2>2 DEF Floor
    <3>5. QED
      BY <1>1, <1>3, <3>3, <3>4 DEF RedisFollows
  <2>9. SnapshotHolds(f)'
    <3>1. since' <= file.at
      BY <2>1, <2>2
    <3>2. QED
      BY <1>1, <1>6, <2>1, <3>1 DEF KlinesHold, SnapshotHolds
  <2>10. QED
    BY <1>1, <1>6, <2>7, <2>8, <2>9 DEF KlinesHold
<1>7. QED
  BY <1>5, <1>6

\* Every step but Receive, which may add a result.
LEMMA KlinesStep ==
  ASSUME Typed, Typed', NEW f, History(f), KlinesHold(f), [Next]_vars, ~Receive
  PROVE  KlinesHold(f)'
<1>1. CASE KlineUpdater
  BY <1>1, KlineUpdaterHolds
<1>2. CASE CheckKlines
  BY <1>2, CheckKlinesHolds
<1>3. CASE SaveTick
  BY <1>3, SaveTickHolds
<1>4. CASE Clear
  BY <1>4, ClearHolds
<1>5. CASE StartSnapshot
  BY <1>5, StartSnapshotHolds
<1>6. CASE takeSnapShot
  BY <1>6, TakeHolds
<1>7. CASE Crash
  BY <1>7, CrashHolds
<1>a. clock \in Nat
  BY DEF Typed, CandleTypeOK, Windows
<1>8. CASE MarketUpdater
  <2>1. /\ "market" \in hand /\ Done("market") /\ late' = (late \/ TooLate)
        /\ UNCHANGED <<clock, results, klines, redisCache, snapshotTime, snapping, redis, file, since>>
    BY <1>8 DEF MarketUpdater
  <2>2. Quoted("kline")' = Quoted("kline")
    BY <2>1, QuotedDone
  <2>3. ~snapping /\ clock <= clock'
    BY <1>a, <2>1 DEF KlinesHold
  <2>4. QED
    BY <2>1, <2>2, <2>3, KlinesApart
<1>9. CASE Tick \/ MarketTicker \/ UNCHANGED vars
  <2>1. UNCHANGED <<results, maxId, hand, klines, redisCache, redis, file, since, snapshotTime,
                    late, snapping>>
    BY <1>9 DEF Tick, MarketTicker, vars, quotes
  <2>2. clock <= clock'
    BY <1>a, <1>9 DEF Tick, MarketTicker, vars
  <2>3. Quoted("kline")' = Quoted("kline") /\ (snapping' => snapping /\ hand' = {} /\ maxId' = maxId)
    BY <2>1 DEF Quoted, KlinesHold
  <2>4. QED
    BY <2>1, <2>2, <2>3, KlinesApart
<1>10. QED
  BY <1>1, <1>2, <1>3, <1>4, <1>5, <1>6, <1>7, <1>8, <1>9 DEF Next

\* A result more is not yet in the klines.
LEMMA KlinesReceive ==
  ASSUME Typed, Typed', NEW f, History(f), KlinesHold(f), Receive,
         NEW g, \A n \in 0 .. Len(results) : g[n] = f[n]
  PROVE  KlinesHold(g)'
<1>1. /\ hand = {} /\ ~snapping /\ hand' = {"kline", "market"}
      /\ UNCHANGED <<clock, maxId, klines, redisCache, market, detail, snapshotTime,
                     snapping, redis, file, since, late>>
  BY DEF Receive, Idle
<1>2. \A i \in 1 .. Len(results) : results'[i] = results[i]
  <2>1. CASE results' = results
    BY <2>1
  <2>2. CASE results' # results
    <3>1. \E m : results' = Append(results, m)
      BY <2>2 DEF Receive
    <3>2. results \in Seq(Result)
      BY DEF Typed
    <3>3. QED
      BY <3>1, <3>2
  <2>3. QED
    BY <2>1, <2>2
<1>3. Quoted("kline") = maxId /\ Quoted("kline")' = maxId /\ Floor' = Floor
  BY <1>1 DEF Quoted, Floor
<1>4. PICK n \in 0 .. Len(results) : n = maxId
  BY DEF Typed, CandleTypeOK
<1>5. \A k \in 0 .. Len(results) : \A j \in 1 .. k : results'[j] = results[j]
  BY <1>2 DEF Typed
<1>6. KlinesFollow(f, n, klines, since, late) /\ (~late => RedisFollows(f, n, redis, redisCache, Floor))
  BY <1>3, <1>4 DEF KlinesHold
<1>7. KlinesFollow(g, Quoted("kline"), klines, since, late)'
  <2>1. g[n] = f[n] /\ \A j \in 1 .. n : results'[j] = results[j]
    BY <1>4, <1>5
  <2>2. QED
    BY <1>1, <1>3, <1>4, <1>6, <2>1 DEF KlinesFollow
<1>8. (~late => RedisFollows(g, Quoted("kline"), redis, redisCache, Floor))'
  <2>1. g[n] = f[n] /\ g[redis.maxId] = f[redis.maxId]
    BY <1>4 DEF Typed, CandleTypeOK
  <2>2. QED
    BY <1>1, <1>3, <1>4, <1>6, <2>1 DEF RedisFollows
<1>9. SnapshotHolds(g)'
  <2>1. ASSUME file # NoFile
        PROVE  g[file.maxId] = f[file.maxId] /\ \A j \in 1 .. file.maxId : results'[j] = results[j]
    BY <1>5, <2>1 DEF Typed, FileTyped
  <2>2. QED
    BY <1>1, <2>1 DEF KlinesHold, SnapshotHolds
<1>10. (file = NoFile => /\ since = 0 \/ since + DaySize <= clock + 1
                         /\ late \/ \A w \in DOMAIN klines : w >= since)'
  BY <1>1 DEF KlinesHold
<1>11. QED
  BY <1>1, <1>7, <1>8, <1>9, <1>10 DEF KlinesHold

\* Without klines they follow for no results.
LEMMA KlinesStart ==
  ASSUME Init, NEW f, History(f)
  PROVE  KlinesHold(f)
<1>1. Typed
  BY TypedInit
<1>2. /\ hand = {} /\ maxId = 0 /\ DOMAIN klines = {} /\ file = NoFile /\ since = 0
      /\ redis.maxId = 0 /\ redis.klines = [w \in Windows |-> Blank] /\ redisCache = {}
      /\ Len(results) = 0 /\ ~snapping
  BY DEF Init
<1>3. Quoted("kline") = 0 /\ Floor = 0
  BY <1>2 DEF Quoted, Floor
<1>4. (\A w \in Int : f[0][w] = Blank) /\ 1 .. 0 = {} /\ \A w \in Windows : w \in Int
  BY DEF History, Windows
<1>5. KlinesFollow(f, Quoted("kline"), klines, since, late)
  BY <1>2, <1>3, <1>4, BlankIs DEF KlinesFollow
<1>6. RedisFollows(f, Quoted("kline"), redis, redisCache, Floor)
  BY <1>2, <1>3, <1>4, BlankIs DEF RedisFollows
<1>7. QED
  BY <1>2, <1>5, <1>6 DEF KlinesHold, SnapshotHolds

-----------------------------------------------------------------------------
(* The inductive invariant *)

CInv == Typed /\ \E f : History(f) /\ MarketHolds(f) /\ KlinesHold(f)

\* The empty history, which the start follows.
LEMMA CInvInit ==
  ASSUME Init
  PROVE  CInv
<1>1. PICK f : History(f)
  BY HistoryStarts
<1>2. Typed /\ MarketHolds(f) /\ KlinesHold(f)
  BY <1>1, TypedInit, MarketStarts, KlinesStart
<1>3. QED
  BY <1>1, <1>2 DEF CInv

\* Every step goes on with a history, longer by a result or the same.
LEMMA CInvStep ==
  ASSUME CInv, [Next]_vars
  PROVE  CInv'
<1>1. Typed /\ Typed'
  BY TypedStep DEF CInv
<1>2. PICK f : History(f) /\ MarketHolds(f) /\ KlinesHold(f)
  BY DEF CInv
<1>3. CASE ~Receive
  <2>1. MarketHolds(f)' /\ results' = results
    BY <1>1, <1>2, <1>3, MarketStep
  <2>2. KlinesHold(f)'
    BY <1>1, <1>2, <1>3, KlinesStep
  <2>3. History(f)'
    BY <1>2, <2>1 DEF History
  <2>4. QED
    BY <1>1, <2>1, <2>2, <2>3 DEF CInv
<1>4. CASE Receive
  <2>1. \E g : History(g)' /\ \A n \in 0 .. Len(results) : g[n] = f[n]
    <3>1. CASE results' = results
      BY <1>2, <3>1 DEF History
    <3>2. CASE results' # results
      <4>1. PICK ts \in 0 .. clock, x \in Fills :
              results' = Append(results, [ts |-> ts, fills |-> x])
        BY <1>4, <3>2 DEF Receive
      <4>2. x \in Seq(Nat \ {0}) /\ ts \in Nat
        BY <1>1, CandleAssumption DEF Typed, CandleTypeOK, Windows
      <4>3. [ts |-> ts, fills |-> x] \in Result
        BY <4>2 DEF Result
      <4>4. QED
        BY <1>1, <1>2, <4>1, <4>3, HistoryGoesOn
    <3>3. QED
      BY <3>1, <3>2
  <2>2. PICK g : History(g)' /\ \A n \in 0 .. Len(results) : g[n] = f[n]
    BY <2>1
  <2>3. MarketHolds(g)' /\ KlinesHold(g)'
    BY <1>1, <1>2, <1>4, <2>2, MarketReceives, KlinesReceive
  <2>4. QED
    BY <1>1, <2>2, <2>3 DEF CInv
<1>5. QED
  BY <1>3, <1>4

-----------------------------------------------------------------------------
(* What it shows *)

\* A kline of the history shows the trades of its window.
LEMMA HistoryShows ==
  ASSUME Typed, NEW f, History(f), NEW n \in 0 .. Len(results), NEW w \in Int
  PROVE  KlineShows(f[n][w], w, Traders(1 .. n))
<1>1. PICK k : k = f[n][w]
  OBVIOUS
<1>2. PICK S : S = Traders(1 .. n)
  OBVIOUS
<1>3. k \in KlineRecord /\ Whole(k)
  BY <1>1 DEF History
<1>4. k.count = Trades(At(S, w)) /\ k.close = LastPrice(UpTo(S, w))
  BY <1>1, <1>2, CountIs, CloseIs
<1>5. k.low <= Min({k.open, k.close}) /\ Max({k.open, k.close}) <= k.high
  <2>1. k.open \in Nat /\ k.close \in Nat
    BY <1>3 DEF KlineRecord
  <2>2. QED
    BY <1>3, <2>1, OfTwo DEF Whole
<1>6. At(S, w) = {} => k = Flat(LastPrice(UpTo(S, w)))
  BY <1>1, <1>2, <1>4, FlatIs
<1>7. ASSUME At(S, w) # {}, InOrder(S)
      PROVE  /\ k.open = getStartPrice(results[Min(At(S, w))])
             /\ k.high = Max(UNION {Range(results[i].fills) : i \in At(S, w)})
             /\ k.low = Min(UNION {Range(results[i].fills) : i \in At(S, w)})
  <2>1. SpansTrades(k, At(S, w))
    BY <1>1, <1>2, <1>7, SpanIs
  <2>2. QED
    BY <2>1 DEF SpansTrades, PricesOf
<1>8. KlineShows(k, w, S)
  BY <1>4, <1>5, <1>6, <1>7 DEF KlineShows
<1>9. QED
  BY <1>1, <1>2, <1>8

\* Klines that follow show the results quoted.
LEMMA KlinesShow ==
  ASSUME Typed, NEW f, History(f), KlinesHold(f)
  PROVE  KlinesShowTrades
<1>1. PICK n \in 0 .. Len(results) : n = Quoted("kline")
  BY QuotedIs
<1>2. PICK S : S = Traders(QuotedBy("kline"))
  OBVIOUS
<1>3. S = Traders(1 .. n)
  BY <1>1, <1>2, QuotedIs
<1>4. KlinesFollow(f, n, klines, since, late)
  BY <1>1 DEF KlinesHold
<1>5. DOMAIN klines \subseteq 0 .. clock /\ clock \in Nat /\ since \in Nat
  BY DEF Typed, CandleTypeOK, Windows
<1>6. ASSUME ~late, NEW w \in DOMAIN klines, w >= since
      PROVE  w .. Max(DOMAIN klines) \subseteq DOMAIN klines
  <2>1. IsFiniteSet(DOMAIN klines) /\ DOMAIN klines \subseteq Int
    <3>1. IsFiniteSet(0 .. clock)
      BY <1>5, FS_Interval
    <3>2. QED
      BY <1>5, <3>1, FS_Subset
  <2>2. Max(DOMAIN klines) \in DOMAIN klines
    BY <1>6, <2>1, MaxIs
  <2>3. since <= w
    BY <1>5, <1>6
  <2>4. QED
    BY <1>4, <1>6, <2>2, <2>3 DEF KlinesFollow
<1>7. ASSUME NEW w \in DOMAIN klines, w >= since
      PROVE  KlineShows(klines[w], w, S)
  <2>1. w \in Int
    BY <1>5
  <2>2. KlineShows(f[n][w], w, S)
    BY <1>3, <2>1, HistoryShows
  <2>3. CASE ~late
    BY <1>4, <1>7, <2>2, <2>3 DEF KlinesFollow
  <2>4. CASE late
    <3>1. klines[w].count = f[n][w].count /\ Whole(klines[w])
      BY <1>4, <1>7 DEF KlinesFollow
    <3>2. klines[w].count = Trades(At(S, w))
      BY <2>1, <3>1, <1>3, CountIs
    <3>3. klines[w].open \in Nat /\ klines[w].close \in Nat
      BY <1>7 DEF Typed, CandleTypeOK, KlineRecord
    <3>4. /\ klines[w].low <= Min({klines[w].open, klines[w].close})
          /\ Max({klines[w].open, klines[w].close}) <= klines[w].high
      BY <3>1, <3>3, OfTwo DEF Whole
    <3>5. QED
      BY <2>4, <3>2, <3>4 DEF KlineShows
  <2>5. QED
    BY <2>3, <2>4
<1>8. QED
  BY <1>2, <1>6, <1>7 DEF KlinesShowTrades, NoGaps

\* Klines and buckets that follow the same history agree.
LEMMA BothAgree ==
  ASSUME Typed, NEW f, History(f), MarketHolds(f), KlinesHold(f)
  PROVE  MarketAgreesWithKlines
<1>1. SUFFICES ASSUME ~late, hand = {}, NEW w \in DOMAIN klines, NEW i \in Buckets,
                      w >= since, w = market.top - i
               PROVE  klines[w] = market.bucket[i]
  BY DEF MarketAgreesWithKlines
<1>2. Quoted("kline") = maxId /\ Quoted("market") = maxId
  BY <1>1, QuotedIs
<1>3. klines[w] = f[maxId][w]
  BY <1>1, <1>2 DEF KlinesHold, KlinesFollow
<1>4. market.bucket[i] = f[maxId][market.top - i]
  BY <1>1, <1>2 DEF MarketHolds, MarketFollows
<1>5. QED
  BY <1>1, <1>3, <1>4

\* Redis, when it follows, is in step.
LEMMA RedisShows ==
  ASSUME Typed, NEW f, History(f), KlinesHold(f)
  PROVE  RedisInStep
<1>1. SUFFICES ASSUME ~late, hand = {}, ~RedisAhead, NEW w \in DOMAIN klines \ redisCache,
                      w >= since, klines[w].count > 0
               PROVE  redis.klines[w] = klines[w]
  BY DEF RedisInStep
<1>2. Quoted("kline") = maxId
  BY <1>1, QuotedIs
<1>3. klines[w] = f[maxId][w]
  BY <1>1, <1>2 DEF KlinesHold, KlinesFollow
<1>4. w \in Windows /\ since \in Nat /\ redis.maxId <= maxId
  <2>1. w \in 0 .. clock /\ clock \in 0 .. MaxWindow /\ since \in 0 .. clock /\ MaxWindow \in Nat
    BY <1>1, CandleAssumption DEF Typed, CandleTypeOK, Windows
  <2>2. w \in Windows /\ since \in Nat
    BY <2>1 DEF Windows
  <2>3. redis.maxId \in Int /\ maxId \in Int
    BY DEF Typed, CandleTypeOK
  <2>4. redis.maxId <= maxId
    BY <1>1, <2>3 DEF RedisAhead
  <2>5. QED
    BY <2>2, <2>4
<1>5. w >= Floor
  BY <1>1, <1>4 DEF Floor, Windows
<1>6. f[maxId][w].count # 0
  BY <1>1, <1>3
<1>7. RedisFollows(f, maxId, redis, redisCache, Floor)
  BY <1>1, <1>2 DEF KlinesHold
<1>8. f[maxId][w] = f[redis.maxId][w]
  BY <1>1, <1>4, <1>5, <1>6, <1>7 DEF RedisFollows
<1>9. redis.klines[w] = f[redis.maxId][w]
  BY <1>4, <1>5, <1>6, <1>7, <1>8 DEF RedisFollows
<1>10. QED
  BY <1>3, <1>8, <1>9

\* Whatever follows a history has the properties.
LEMMA CInvShows ==
  ASSUME CInv
  PROVE  KlinesShowTrades /\ DayAddsUp /\ MarketAgreesWithKlines /\ RedisInStep
<1>1. Typed
  BY DEF CInv
<1>2. PICK f : History(f) /\ MarketHolds(f) /\ KlinesHold(f)
  BY DEF CInv
<1>3. QED
  BY <1>1, <1>2, KlinesShow, MarketShows, BothAgree, RedisShows

\* l2quote/kline.go:116: in every behaviour the klines show the results quoted so
\* far, each trade once in the window of its order, over every restart, and while
\* no result was late they have no gap.
THEOREM KlinesRight == Spec => []KlinesShowTrades
<1>1. Init => CInv
  BY CInvInit
<1>2. CInv /\ [Next]_vars => CInv'
  BY CInvStep
<1>3. CInv => KlinesShowTrades
  BY CInvShows
<1>4. QED
  BY <1>1, <1>2, <1>3, PTL DEF Spec

\* l2quote/market.go:1: in every behaviour the buckets hold the trades of their
\* windows and the summary adds up those of the day, whatever was restored.
THEOREM DayRight == Spec => []DayAddsUp
<1>1. Init => CInv
  BY CInvInit
<1>2. CInv /\ [Next]_vars => CInv'
  BY CInvStep
<1>3. CInv => DayAddsUp
  BY CInvShows
<1>4. QED
  BY <1>1, <1>2, <1>3, PTL DEF Spec

\* l2quote/l2quote.go:1: the goroutine of the klines and that of the market, which
\* read the clock for themselves, never show a window differently once both have
\* quoted a result.
THEOREM QuotesAgree == Spec => []MarketAgreesWithKlines
<1>1. Init => CInv
  BY CInvInit
<1>2. CInv /\ [Next]_vars => CInv'
  BY CInvStep
<1>3. CInv => MarketAgreesWithKlines
  BY CInvShows
<1>4. QED
  BY <1>1, <1>2, <1>3, PTL DEF Spec

\* l2quote/kline.go:329: no kline that changed is left unmarked, so what Redis has
\* of the others is what memory has, over every crash between the two.
THEOREM RedisRight == Spec => []RedisInStep
<1>1. Init => CInv
  BY CInvInit
<1>2. CInv /\ [Next]_vars => CInv'
  BY CInvStep
<1>3. CInv => RedisInStep
  BY CInvShows
<1>4. QED
  BY <1>1, <1>2, <1>3, PTL DEF Spec

=============================================================================
