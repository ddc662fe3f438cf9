---------------------------- MODULE WindowsProofs ----------------------------
(* The windows of every kind tile time, at every instant from 1970 on and for *)
(* every location with a fixed offset.  The kinds but the month turn out to   *)
(* cut time into pieces of one length, from some origin (the code says so     *)
(* only for the minutes); the months need the calendar: the years follow one  *)
(* another by the count of leap days, and the months fill a year.             *)
(*                                                                            *)
(* And consecutive windows take consecutive places of the Redis lists: the    *)
(* place is the window's number, counted from the beginning of the year or    *)
(* from 2022, however the code finds it.                                      *)
EXTENDS Windows, FiniteSetTheorems, WellFoundedInduction, TLAPS

\* The start of the piece an instant lies in: pieces of l seconds, one of
\* which starts z seconds before 0.
Cut(ts, l, z) == ((ts + z) \div l) * l - z

Length(k) ==
    CASE k \in MinuteKinds -> Minutes[k] * Minute
      [] k \in HourKinds   -> Hours[k] * Hour
      [] k = "1day"        -> Day
      [] k = "1week"       -> 7 * Day

Origin(k) ==
    CASE k \in MinuteKinds -> 0
      [] k \in HourKinds   -> Zone
      [] k = "1day"        -> Zone
      [] k = "1week"       -> Zone + 3 * Day

CutKinds == Kinds \ {"1mon"}

\* The windows of one length lie side by side and cover the time.
LEMMA CutTiles ==
  ASSUME NEW l \in Nat \ {0}, NEW z \in Int, NEW ts \in Int
  PROVE  LET start == Cut(ts, l, z)
         IN  /\ start \in Int /\ start <= ts /\ ts < start + l
             /\ Cut(start, l, z) = start
             /\ Cut(start + l - 1, l, z) = start
             /\ Cut(start + l, l, z) = start + l
<1> DEFINE q == (ts + z) \div l
           start == q * l - z
<1>1. q \in Int /\ ts + z = q * l + ((ts + z) % l) /\ (ts + z) % l \in 0 .. l - 1
  OBVIOUS
<1>2. Cut(ts, l, z) = start
  BY DEF Cut
<1> HIDE DEF q
<1>3. q * l \in Int /\ start \in Int /\ start <= ts /\ ts < start + l
  BY <1>1
<1>4. ASSUME NEW p \in Int, NEW r \in 0 .. l - 1 PROVE (p * l + r) \div l = p
  OBVIOUS
<1>5. Cut(start, l, z) = start
  <2>1. start + z = q * l + 0
    BY <1>1, <1>3
  <2>2. (start + z) \div l = q
    BY <1>1, <1>4, <2>1
  <2> QED
    BY <2>2 DEF Cut
<1>6. Cut(start + l - 1, l, z) = start
  <2>1. (start + l - 1) + z = q * l + (l - 1) /\ l - 1 \in 0 .. l - 1
    BY <1>1, <1>3
  <2>2. ((start + l - 1) + z) \div l = q
    BY <1>1, <1>4, <2>1
  <2> QED
    BY <2>2 DEF Cut
<1>7. Cut(start + l, l, z) = start + l
  <2>1. q + 1 \in Int /\ (q + 1) * l = q * l + l
    BY <1>1
  <2>2. (start + l) + z = (q + 1) * l + 0
    BY <1>1, <1>3, <2>1
  <2>3. ((start + l) + z) \div l = q + 1
    BY <1>4, <2>1, <2>2
  <2> QED
    BY <1>3, <2>1, <2>3 DEF Cut
<1> QED
  BY <1>2, <1>3, <1>5, <1>6, <1>7

\* The lengths in minutes.
LEMMA MinutesValue ==
  ASSUME NEW k \in MinuteKinds
  PROVE  Minutes[k] \in {1, 3, 5, 15, 30}
<1>1. CASE k = "1min"
  BY <1>1 DEF Minutes, MinuteKinds
<1>2. CASE k = "3min"
  BY <1>2 DEF Minutes, MinuteKinds
<1>3. CASE k = "5min"
  BY <1>3 DEF Minutes, MinuteKinds
<1>4. CASE k = "15min"
  BY <1>4 DEF Minutes, MinuteKinds
<1>5. CASE k = "30min"
  BY <1>5 DEF Minutes, MinuteKinds
<1> QED
  BY <1>1, <1>2, <1>3, <1>4, <1>5 DEF MinuteKinds

\* The lengths in hours.
LEMMA HoursValue ==
  ASSUME NEW k \in HourKinds
  PROVE  Hours[k] \in {1, 2, 4, 6, 8, 12}
<1>1. CASE k = "60min"
  BY <1>1 DEF Hours, HourKinds
<1>2. CASE k = "2hour"
  BY <1>2 DEF Hours, HourKinds
<1>3. CASE k = "4hour"
  BY <1>3 DEF Hours, HourKinds
<1>4. CASE k = "6hour"
  BY <1>4 DEF Hours, HourKinds
<1>5. CASE k = "8hour"
  BY <1>5 DEF Hours, HourKinds
<1>6. CASE k = "12hour"
  BY <1>6 DEF Hours, HourKinds
<1> QED
  BY <1>1, <1>2, <1>3, <1>4, <1>5, <1>6 DEF HourKinds

\* The kinds are told apart by their names.
LEMMA KindsApart ==
  /\ MinuteKinds \intersect HourKinds = {}
  /\ {"1day", "1week", "1mon", "1year"} \intersect (MinuteKinds \union HourKinds) = {}
BY DEF MinuteKinds, HourKinds

\* A length is a positive number of seconds, an origin a number.
LEMMA LengthType ==
  ASSUME NEW k \in CutKinds
  PROVE  Length(k) \in Nat \ {0} /\ Origin(k) \in Int
<1>0. Zone \in Int /\ Minute = 60 /\ Hour = 3600 /\ Day = 86400
  BY WindowsAssumption DEF Minute, Hour, Day
<1>1. CASE k \in MinuteKinds
  <2>1. Length(k) = Minutes[k] * Minute /\ Origin(k) = 0
    BY <1>1, KindsApart DEF Length, Origin
  <2> QED
    BY <1>0, <1>1, <2>1, MinutesValue
<1>2. CASE k \in HourKinds
  <2>1. Length(k) = Hours[k] * Hour /\ Origin(k) = Zone
    BY <1>2, KindsApart DEF Length, Origin
  <2> QED
    BY <1>0, <1>2, <2>1, HoursValue
<1>3. CASE k = "1day"
  <2>1. Length(k) = Day /\ Origin(k) = Zone
    BY <1>3, KindsApart DEF Length, Origin
  <2> QED
    BY <1>0, <2>1
<1>4. CASE k = "1week"
  <2>1. Length(k) = 7 * Day /\ Origin(k) = Zone + 3 * Day
    BY <1>4, KindsApart DEF Length, Origin
  <2> QED
    BY <1>0, <2>1
<1> QED
  BY <1>1, <1>2, <1>3, <1>4 DEF CutKinds, Kinds

\* A day's hours, in windows of h of them, are cut by division too.
LEMMA HoursOfDay ==
  ASSUME NEW k \in HourKinds, NEW ts \in Int
  PROVE  /\ Date(DayOf(ts), (HourOf(ts) \div Hours[k]) * Hours[k])
                = Cut(ts, Hours[k] * Hour, Zone)
         /\ DayOf(ts) \in Int /\ HourOf(ts) \in 0 .. 23
<1>1. Zone \in Int
  BY WindowsAssumption
<1>2. DayOf(ts) \in Int /\ HourOf(ts) \in 0 .. 23
  BY <1>1 DEF DayOf, HourOf, Day, Hour, Minute
<1>3. Hours[k] \in {1, 2, 4, 6, 8, 12} /\ Hour = 3600 /\ Day = 86400
  BY HoursValue DEF Hour, Day, Minute
<1>4. CASE Hours[k] = 1
  BY <1>1, <1>3, <1>4 DEF Date, DayOf, HourOf, Cut
<1>5. CASE Hours[k] = 2
  BY <1>1, <1>3, <1>5 DEF Date, DayOf, HourOf, Cut
<1>6. CASE Hours[k] = 4
  BY <1>1, <1>3, <1>6 DEF Date, DayOf, HourOf, Cut
<1>7. CASE Hours[k] = 6
  BY <1>1, <1>3, <1>7 DEF Date, DayOf, HourOf, Cut
<1>8. CASE Hours[k] = 8
  BY <1>1, <1>3, <1>8 DEF Date, DayOf, HourOf, Cut
<1>9. CASE Hours[k] = 12
  BY <1>1, <1>3, <1>9 DEF Date, DayOf, HourOf, Cut
<1> QED
  BY <1>2, <1>3, <1>4, <1>5, <1>6, <1>7, <1>8, <1>9

\* The current window is the one its length cuts out.
LEMMA CurIsCut ==
  ASSUME NEW k \in CutKinds, NEW ts \in Int
  PROVE  CurWindowTime(ts, k) = Cut(ts, Length(k), Origin(k))
<1>0. Zone \in Int /\ Minute = 60 /\ Hour = 3600 /\ Day = 86400
  BY WindowsAssumption DEF Minute, Hour, Day
<1>1. CASE k \in MinuteKinds
  <2>1. CurWindowTime(ts, k) = (ts \div (Minutes[k] * Minute)) * Minutes[k] * Minute
    BY <1>1, KindsApart DEF CurWindowTime
  <2>2. Length(k) = Minutes[k] * Minute /\ Origin(k) = 0
    BY <1>1, KindsApart DEF Length, Origin
  <2>3. Minutes[k] \in {1, 3, 5, 15, 30}
    BY <1>1, MinutesValue
  <2> QED
    BY <1>0, <2>1, <2>2, <2>3 DEF Cut
<1>2. CASE k \in HourKinds
  <2>1. CurWindowTime(ts, k) = Date(DayOf(ts), (HourOf(ts) \div Hours[k]) * Hours[k])
    BY <1>2, KindsApart DEF CurWindowTime
  <2>2. Length(k) = Hours[k] * Hour /\ Origin(k) = Zone
    BY <1>2, KindsApart DEF Length, Origin
  <2> QED
    BY <1>2, <2>1, <2>2, HoursOfDay
<1>3. CASE k = "1day"
  <2>1. CurWindowTime(ts, k) = Date(DayOf(ts), 0)
    BY <1>3, KindsApart DEF CurWindowTime
  <2>2. Length(k) = Day /\ Origin(k) = Zone
    BY <1>3, KindsApart DEF Length, Origin
  <2> QED
    BY <1>0, <2>1, <2>2 DEF Date, DayOf, Cut
<1>4. CASE k = "1week"
  <2>1. CurWindowTime(ts, k) = Date(Monday(DayOf(ts)), 0)
    BY <1>4, KindsApart DEF CurWindowTime
  <2>2. Length(k) = 7 * Day /\ Origin(k) = Zone + 3 * Day
    BY <1>4, KindsApart DEF Length, Origin
  <2> QED
    BY <1>0, <2>1, <2>2 DEF Date, DayOf, Cut, Monday, Weekday
<1> QED
  BY <1>1, <1>2, <1>3, <1>4 DEF CutKinds, Kinds

\* The next window starts where this one ends.
LEMMA NextIsCut ==
  ASSUME NEW k \in CutKinds, NEW ts \in Int
  PROVE  NextKlineTimeWindow(ts, k) = CurWindowTime(ts, k) + Length(k)
<1> DEFINE start == CurWindowTime(ts, k)
<1>0. Zone \in Int /\ Minute = 60 /\ Hour = 3600 /\ Day = 86400
  BY WindowsAssumption DEF Minute, Hour, Day
<1>1. /\ start = Cut(ts, Length(k), Origin(k))
      /\ Length(k) \in Nat \ {0} /\ Origin(k) \in Int
  BY CurIsCut, LengthType
<1>2. start \in Int /\ Cut(start, Length(k), Origin(k)) = start
  BY <1>1, CutTiles
<1>3. CASE k \in MinuteKinds
  <2>1. NextKlineTimeWindow(ts, k) = start + Minutes[k] * Minute
    BY <1>3, KindsApart DEF NextKlineTimeWindow, HourKinds
  <2>2. Length(k) = Minutes[k] * Minute
    BY <1>3, KindsApart DEF Length
  <2> QED
    BY <2>1, <2>2
<1>4. CASE k = "60min"
  <2>1. k \in HourKinds /\ k \notin MinuteKinds
    BY <1>4 DEF HourKinds, MinuteKinds
  <2>2. NextKlineTimeWindow(ts, k) = start + Hour
    BY <1>4, <2>1, KindsApart DEF NextKlineTimeWindow
  <2>3. Length(k) = Hours[k] * Hour /\ Hours[k] = 1
    BY <1>4, <2>1 DEF Length, Hours
  <2> QED
    BY <1>0, <2>2, <2>3
<1>5. CASE k \in HourKinds /\ k # "60min"
  <2> DEFINE day == DayOf(start)
             piece == HourOf(start) \div Hours[k]
  <2>1. NextKlineTimeWindow(ts, k) = Date(day, (piece + 1) * Hours[k])
    BY <1>5, KindsApart DEF NextKlineTimeWindow
  <2>2. Length(k) = Hours[k] * Hour /\ Origin(k) = Zone
    BY <1>5, KindsApart DEF Length, Origin
  <2>3. Hours[k] \in {1, 2, 4, 6, 8, 12}
    BY <1>5, HoursValue
  <2>4. Date(day, piece * Hours[k]) = start /\ day \in Int /\ HourOf(start) \in 0 .. 23
    BY <1>2, <1>5, <2>2, HoursOfDay
  <2>5. piece \in Int
    BY <2>3, <2>4
  <2> HIDE DEF day, piece
  <2>6. (piece + 1) * Hours[k] = piece * Hours[k] + Hours[k]
    BY <2>3, <2>5
  <2>7. Date(day, (piece + 1) * Hours[k]) = Date(day, piece * Hours[k]) + Hours[k] * Hour
    <3>1. piece * Hours[k] \in Int /\ Hours[k] \in Int
      BY <2>3, <2>5
    <3> QED
      BY <1>0, <2>4, <2>6, <3>1 DEF Date
  <2> QED
    BY <2>1, <2>2, <2>4, <2>7
<1>6. CASE k = "1day"
  <2>1. NextKlineTimeWindow(ts, k) = Date(DayOf(start) + 1, 0)
    BY <1>6, KindsApart DEF NextKlineTimeWindow, HourKinds
  <2>2. Length(k) = Day /\ Origin(k) = Zone
    BY <1>6, KindsApart DEF Length, Origin
  <2>3. start = Date(DayOf(start), 0)
    BY <1>0, <1>2, <2>2 DEF Cut, Date, DayOf
  <2>4. DayOf(start) \in Int
    BY <1>0, <1>2 DEF DayOf
  <2>5. Date(DayOf(start) + 1, 0) = Date(DayOf(start), 0) + Day
    BY <1>0, <2>4 DEF Date
  <2> QED
    BY <2>1, <2>2, <2>3, <2>5
<1>7. CASE k = "1week"
  <2>1. NextKlineTimeWindow(ts, k) = Date(DayOf(start) + 7 - Weekday(DayOf(start)), 0)
    BY <1>7, KindsApart DEF NextKlineTimeWindow, HourKinds
  <2>2. Length(k) = 7 * Day /\ Origin(k) = Zone + 3 * Day
    BY <1>7, KindsApart DEF Length, Origin
  <2>3. start = Date(DayOf(start), 0) /\ Weekday(DayOf(start)) = 0
    BY <1>0, <1>2, <2>2 DEF Cut, Date, DayOf, Weekday
  <2>4. DayOf(start) \in Int
    BY <1>0, <1>2 DEF DayOf
  <2>5. Date(DayOf(start) + 7, 0) = Date(DayOf(start), 0) + 7 * Day
    BY <1>0, <2>4 DEF Date
  <2>6. DayOf(start) + 7 - Weekday(DayOf(start)) = DayOf(start) + 7
    BY <2>3, <2>4
  <2> QED
    BY <2>1, <2>2, <2>3, <2>5, <2>6
<1> QED
  BY <1>3, <1>4, <1>5, <1>6, <1>7 DEF CutKinds, Kinds

-----------------------------------------------------------------------------
(* Years *)

\* A set of numbers has a least one.
LEMMA LeastNumber ==
  ASSUME NEW S, S \subseteq Nat, S # {}
  PROVE  \E n \in S : \A k \in S : n <= k
<1> DEFINE T == {0 .. k : k \in S}
           R == StrictSubsetOrdering(Nat)
<1>1. T \subseteq FiniteSubsetsOf(Nat)
  <2>1. \A k \in S : 0 .. k \subseteq Nat /\ IsFiniteSet(0 .. k)
    BY FS_Interval
  <2>2. QED
    BY <2>1 DEF FiniteSubsetsOf
<1>2. IsWellFoundedOn(R, FiniteSubsetsOf(Nat))
  BY FS_StrictSubsetOrderingWellFounded
<1>3. T # {}
  OBVIOUS
<1>4. PICK U \in T : \A V \in T : ~(<<V, U>> \in R)
  <2> HIDE DEF T, R
  <2>1. QED
    BY <1>1, <1>2, <1>3, WFMin
<1>5. PICK n \in S : U = 0 .. n
  OBVIOUS
<1>6. ASSUME NEW k \in S, ~(n <= k)
      PROVE  FALSE
  <2>1. 0 .. k \subseteq 0 .. n /\ n \in 0 .. n /\ n \notin 0 .. k
    BY <1>6
  <2>2. 0 .. k \in T /\ 0 .. k \subseteq Nat /\ U \subseteq Nat
    BY <1>5
  <2>3. 0 .. k # U
    BY <1>5, <2>1
  <2>4. <<0 .. k, U>> \in R
    BY <1>5, <2>1, <2>2, <2>3 DEF StrictSubsetOrdering
  <2>5. QED
    BY <1>4, <2>2, <2>4
<1>7. QED
  BY <1>6

\* A year ends where the next one begins, after 366 days if it is a leap year.
LEMMA YearLength ==
  ASSUME NEW y \in Int
  PROVE  /\ NewYear(y) \in Int
         /\ NewYear(y + 1) = NewYear(y) + (IF isLeapYear(y) THEN 366 ELSE 365)
<1>1. /\ y \div 4 = (y - 1) \div 4 + (IF y % 4 = 0 THEN 1 ELSE 0)
      /\ (y - 1) \div 4 \in Int
  OBVIOUS
<1>2. /\ y \div 100 = (y - 1) \div 100 + (IF y % 100 = 0 THEN 1 ELSE 0)
      /\ (y - 1) \div 100 \in Int
  OBVIOUS
<1>3. /\ y \div 400 = (y - 1) \div 400 + (IF y % 400 = 0 THEN 1 ELSE 0)
      /\ (y - 1) \div 400 \in Int
  OBVIOUS
<1>4. (y % 400 = 0 => y % 100 = 0) /\ (y % 100 = 0 => y % 4 = 0)
  OBVIOUS
<1>5. (y + 1) - 1 = y
  OBVIOUS
<1>6. NewYear(y) = 365 * (y - 1970) + (y - 1) \div 4 - (y - 1) \div 100 + (y - 1) \div 400 - 477
  BY DEF NewYear
<1>7. NewYear(y + 1) = 365 * (y - 1969) + y \div 4 - y \div 100 + y \div 400 - 477
  BY <1>5 DEF NewYear
<1>8. QED
  BY <1>1, <1>2, <1>3, <1>4, <1>6, <1>7 DEF isLeapYear

\* Years come one after the other.
LEMMA YearsGrow ==
  ASSUME NEW y \in Int, NEW z \in Int, y <= z
  PROVE  NewYear(y) + 365 * (z - y) <= NewYear(z)
<1> DEFINE a(x) == (x - 1) \div 4
           b(x) == (x - 1) \div 100
           c(x) == (x - 1) \div 400
<1>1. /\ a(y) \in Int /\ b(y) \in Int /\ c(y) \in Int
      /\ a(z) \in Int /\ b(z) \in Int /\ c(z) \in Int
  OBVIOUS
<1>2. a(z) - b(z) >= a(y) - b(y)
  <2>1. 25 * b(y) <= a(y) /\ a(y) <= 25 * b(y) + 24
    OBVIOUS
  <2>2. 25 * b(z) <= a(z) /\ a(z) <= 25 * b(z) + 24
    OBVIOUS
  <2>3. a(y) <= a(z) /\ b(y) <= b(z)
    OBVIOUS
  <2>4. QED
    BY <1>1, <2>1, <2>2, <2>3
<1>3. c(z) >= c(y)
  OBVIOUS
<1>4. /\ NewYear(y) = 365 * (y - 1970) + a(y) - b(y) + c(y) - 477
      /\ NewYear(z) = 365 * (z - 1970) + a(z) - b(z) + c(z) - 477
  BY DEF NewYear
<1> HIDE DEF a, b, c
<1>5. QED
  BY <1>1, <1>2, <1>3, <1>4

\* In n years from 1970 on there are no more than n leap days.
LEMMA YearBounds ==
  ASSUME NEW n \in Nat
  PROVE  365 * n <= NewYear(1970 + n) /\ NewYear(1970 + n) <= 366 * n
<1> DEFINE a == (1969 + n) \div 4
           b == (1969 + n) \div 100
           c == (1969 + n) \div 400
<1>1. a \in Int /\ b \in Int /\ c \in Int
  OBVIOUS
<1>2. /\ 4 * a <= 1969 + n /\ 1969 + n <= 4 * a + 3
      /\ 100 * b <= 1969 + n /\ 1969 + n <= 100 * b + 99
      /\ 400 * c <= 1969 + n /\ 1969 + n <= 400 * c + 399
  OBVIOUS
<1>3. NewYear(1970 + n) = 365 * n + a - b + c - 477
  BY DEF NewYear
<1>4. NewYear(1970) = 0
  BY DEF NewYear
<1>5. 365 * n <= NewYear(1970 + n)
  BY <1>4, YearsGrow
<1> HIDE DEF a, b, c
<1>6. NewYear(1970 + n) <= 366 * n
  BY <1>1, <1>2, <1>3
<1>7. QED
  BY <1>5, <1>6

\* A day from 1970 on lies in one year, the one YearOf finds.
LEMMA YearIs ==
  ASSUME NEW day \in Nat, NEW y \in Int, NewYear(y) <= day, day < NewYear(y + 1)
  PROVE  YearOf(day) = y /\ y >= 1970
<1>1. NewYear(1970) = 0
  BY DEF NewYear
<1>2. y >= 1970
  <2>1. SUFFICES ASSUME y + 1 <= 1970 PROVE FALSE
    OBVIOUS
  <2>2. NewYear(y + 1) + 365 * (1970 - (y + 1)) <= 0
    BY <1>1, <2>1, YearsGrow
  <2>3. NewYear(y + 1) \in Int
    BY YearLength
  <2>4. QED
    BY <2>1, <2>2, <2>3
<1> DEFINE n == y - 1970
<1>3. /\ n \in Nat /\ y = 1970 + n /\ y + 1 = 1970 + (n + 1)
      /\ NewYear(y) \in Int /\ NewYear(y + 1) \in Int
  BY <1>2, YearLength
<1>4. 365 * n <= day /\ day < 366 * (n + 1)
  <2>1. 365 * n <= NewYear(y)
    BY <1>3, YearBounds
  <2>2. NewYear(y + 1) <= 366 * (n + 1)
    BY <1>3, YearBounds
  <2>3. QED
    BY <1>3, <2>1, <2>2
<1>5. y \in 1970 + day \div 366 .. 1970 + day \div 365
  <2>1. n <= day \div 365 /\ day \div 366 <= n
    BY <1>3, <1>4
  <2>2. QED
    BY <1>3, <2>1
<1>6. ASSUME NEW x \in Int, NewYear(x) <= day, day < NewYear(x + 1)
      PROVE  x = y
  <2>1. NewYear(x) \in Int /\ NewYear(x + 1) \in Int
    BY YearLength
  <2>2. ~(x + 1 <= y)
    <3>1. x + 1 <= y => NewYear(x + 1) + 365 * (y - (x + 1)) <= NewYear(y)
      BY YearsGrow
    <3>2. QED
      BY <1>3, <1>6, <2>1, <3>1
  <2>3. ~(y + 1 <= x)
    <3>1. y + 1 <= x => NewYear(y + 1) + 365 * (x - (y + 1)) <= NewYear(x)
      BY YearsGrow
    <3>2. QED
      BY <1>3, <1>6, <2>1, <3>1
  <2>4. QED
    BY <2>2, <2>3
<1>7. YearOf(day) = y
  <2>1. \A x \in 1970 + day \div 366 .. 1970 + day \div 365 : x \in Int
    OBVIOUS
  <2> DEFINE P(x) == NewYear(x) <= day /\ day < NewYear(x + 1)
             I == 1970 + day \div 366 .. 1970 + day \div 365
  <2>2. \A x \in I : P(x) <=> x = y
    BY <1>6, <2>1
  <2>3. y \in I
    BY <1>5
  <2>4. YearOf(day) = CHOOSE x \in I : P(x)
    BY DEF YearOf
  <2> HIDE DEF P, I
  <2>5. QED
    BY <2>2, <2>3, <2>4
<1>8. QED
  BY <1>2, <1>7

\* There is one for each day.
LEMMA YearFound ==
  ASSUME NEW day \in Nat
  PROVE  LET y == YearOf(day)
         IN  y \in Nat /\ y >= 1970 /\ NewYear(y) <= day /\ day < NewYear(y + 1)
<1> DEFINE S == {n \in Nat : day < NewYear(1970 + n + 1)}
<1>1. day \in S
  <2>1. 365 * (day + 1) <= NewYear(1970 + (day + 1)) /\ NewYear(1970 + (day + 1)) \in Int
    BY YearBounds, YearLength
  <2>2. 1970 + (day + 1) = 1970 + day + 1
    OBVIOUS
  <2>3. QED
    BY <2>1, <2>2
<1>2. PICK n \in S : \A k \in S : n <= k
  <2>1. S \subseteq Nat /\ S # {}
    BY <1>1
  <2> HIDE DEF S
  <2>2. QED
    BY <2>1, LeastNumber
<1>3. n \in Nat /\ day < NewYear(1970 + n + 1) /\ NewYear(1970 + n) \in Int
  BY <1>2, YearLength
<1>4. NewYear(1970 + n) <= day
  <2>1. CASE n = 0
    <3>1. NewYear(1970) = 0
      BY DEF NewYear
    <3>2. QED
      BY <2>1, <3>1
  <2>2. CASE n # 0
    <3>1. n - 1 \in Nat /\ n - 1 \notin S
      BY <1>2, <1>3, <2>2
    <3>2. 1970 + (n - 1) + 1 = 1970 + n
      BY <1>3
    <3>3. QED
      BY <1>3, <3>1, <3>2
  <2>3. QED
    BY <2>1, <2>2
<1>5. YearOf(day) = 1970 + n
  BY <1>3, <1>4, YearIs
<1>6. QED
  BY <1>3, <1>4, <1>5

-----------------------------------------------------------------------------
(* Months *)

\* The months of a year come one after the other and fill it.
LEMMA MonthsFill ==
  ASSUME NEW y \in Int
  PROVE  /\ \A m \in 1 .. 13 : FirstOf(y, m) \in Int
         /\ \A m \in 1 .. 12 : FirstOf(y, m) + 28 <= FirstOf(y, m + 1)
         /\ FirstOf(y, 1) = NewYear(y) /\ FirstOf(y, 13) = NewYear(y + 1)
<1>1. /\ NewYear(y) \in Int
      /\ NewYear(y + 1) = NewYear(y) + (IF isLeapYear(y) THEN 366 ELSE 365)
  BY YearLength
<1>2. /\ daysBefore[1] = 0 /\ daysBefore[2] = 31 /\ daysBefore[3] = 59
      /\ daysBefore[4] = 90 /\ daysBefore[5] = 120 /\ daysBefore[6] = 151
      /\ daysBefore[7] = 181 /\ daysBefore[8] = 212 /\ daysBefore[9] = 243
      /\ daysBefore[10] = 273 /\ daysBefore[11] = 304 /\ daysBefore[12] = 334
      /\ daysBefore[13] = 365
  BY DEF daysBefore
<1> DEFINE leap == IF isLeapYear(y) THEN 1 ELSE 0
<1>3. leap \in {0, 1} /\ NewYear(y + 1) = NewYear(y) + 365 + leap
  BY <1>1
<1>4. \A m : FirstOf(y, m) = NewYear(y) + daysBefore[m] + (IF m > 2 THEN leap ELSE 0)
  BY DEF FirstOf
<1> HIDE DEF leap
<1>5. \A m \in 1 .. 12 : m \in {1, 2, 3, 4, 5, 6, 7, 8, 9, 10, 11, 12}
  OBVIOUS
<1>6. \A m \in 1 .. 13 : FirstOf(y, m) \in Int
  <2>1. \A m \in 1 .. 13 : m \in 1 .. 12 \/ m = 13
    OBVIOUS
  <2>2. \A m \in 1 .. 13 : daysBefore[m] \in Int
    BY <1>2, <1>5, <2>1
  <2>3. QED
    BY <1>1, <1>3, <1>4, <2>2
<1>7. \A m \in 1 .. 12 : FirstOf(y, m) + 28 <= FirstOf(y, m + 1)
  <2>1. \A m \in 1 .. 12 : daysBefore[m] + 28 <= daysBefore[m + 1]
    BY <1>2, <1>5
  <2>2. \A m \in 1 .. 12 : daysBefore[m] \in Int /\ daysBefore[m + 1] \in Int
    BY <1>2, <1>5
  <2>3. QED
    BY <1>1, <1>3, <1>4, <2>1, <2>2
<1>8. QED
  BY <1>1, <1>2, <1>3, <1>4, <1>6, <1>7

\* So later months begin later.
LEMMA MonthsGrow ==
  ASSUME NEW y \in Int, NEW m \in 1 .. 13, NEW n \in 1 .. 13, m <= n
  PROVE  FirstOf(y, m) <= FirstOf(y, n)
<1> DEFINE S == {k \in Nat : m + k <= 13 /\ ~(FirstOf(y, m) <= FirstOf(y, m + k))}
<1>1. CASE S = {}
  <2>1. n - m \in Nat /\ m + (n - m) = n
    OBVIOUS
  <2>2. n - m \notin S
    BY <1>1
  <2>3. QED
    BY <2>1, <2>2
<1>2. CASE S # {}
  <2>1. PICK k \in S : \A j \in S : k <= j
    <3>1. S \subseteq Nat
      OBVIOUS
    <3> HIDE DEF S
    <3>2. QED
      BY <1>2, <3>1, LeastNumber
  <2>2. k \in Nat /\ m + k <= 13 /\ ~(FirstOf(y, m) <= FirstOf(y, m + k))
    BY <2>1
  <2>3. k # 0
    <3>1. k = 0 => m + k = m
      OBVIOUS
    <3>2. FirstOf(y, m) \in Int
      BY MonthsFill
    <3>3. k = 0 => FirstOf(y, m + k) = FirstOf(y, m)
      BY <3>1, Zenon
    <3>4. FirstOf(y, m) <= FirstOf(y, m)
      BY <3>2
    <3>5. QED
      BY <2>2, <3>3, <3>4
  <2>4. k - 1 \in Nat /\ k - 1 \notin S
    BY <2>1, <2>2, <2>3
  <2>5. PICK j \in 1 .. 12 : j = m + (k - 1)
    BY <2>2, <2>3
  <2>6. j + 1 = m + k /\ j \in 1 .. 13 /\ j + 1 \in 1 .. 13
    BY <2>2, <2>5
  <2>7. FirstOf(y, j) + 28 <= FirstOf(y, j + 1) /\ FirstOf(y, j) \in Int
        /\ FirstOf(y, j + 1) \in Int /\ FirstOf(y, m) \in Int
    BY <2>5, <2>6, MonthsFill
  <2>8. FirstOf(y, m) <= FirstOf(y, j)
    BY <2>2, <2>4, <2>5
  <2>9. FirstOf(y, m) <= FirstOf(y, j + 1)
    BY <2>7, <2>8
  <2>10. QED
    BY <2>2, <2>6, <2>9
<1>3. QED
  BY <1>1, <1>2

\* A day of a month lies in that year and month only.
LEMMA MonthIs ==
  ASSUME NEW day \in Nat, NEW y \in Int, NEW m \in 1 .. 12,
         FirstOf(y, m) <= day, day < FirstOf(y, m + 1)
  PROVE  YearOf(day) = y /\ MonthOf(day) = m
<1>1. \A k \in 1 .. 12 : k \in 1 .. 13 /\ k + 1 \in 1 .. 13
  OBVIOUS
<1>2. \A k \in 1 .. 12 : FirstOf(y, k) \in Int /\ FirstOf(y, k + 1) \in Int
  BY <1>1, MonthsFill
<1>3. NewYear(y) <= day /\ day < NewYear(y + 1)
  <2>1. FirstOf(y, 1) <= FirstOf(y, m) /\ FirstOf(y, m + 1) <= FirstOf(y, 13)
    BY <1>1, MonthsGrow
  <2>2. FirstOf(y, 1) = NewYear(y) /\ FirstOf(y, 13) = NewYear(y + 1)
    BY MonthsFill
  <2>3. NewYear(y) \in Int /\ NewYear(y + 1) \in Int
    BY YearLength
  <2>4. QED
    BY <1>2, <2>1, <2>2, <2>3
<1>4. YearOf(day) = y
  BY <1>3, YearIs
<1>5. ASSUME NEW k \in 1 .. 12, FirstOf(y, k) <= day, day < FirstOf(y, k + 1)
      PROVE  k = m
  <2>1. CASE k < m
    <3>1. k + 1 <= m
      BY <2>1
    <3>2. FirstOf(y, k + 1) <= FirstOf(y, m)
      BY <1>1, <3>1, MonthsGrow
    <3>3. QED
      BY <1>2, <1>5, <3>2
  <2>2. CASE m < k
    <3>1. m + 1 <= k
      BY <2>2
    <3>2. FirstOf(y, m + 1) <= FirstOf(y, k)
      BY <1>1, <3>1, MonthsGrow
    <3>3. QED
      BY <1>2, <1>5, <3>2
  <2>3. QED
    BY <2>1, <2>2
<1> DEFINE P(k) == FirstOf(y, k) <= day /\ day < FirstOf(y, k + 1)
<1>6. MonthOf(day) = CHOOSE k \in 1 .. 12 : P(k)
  BY <1>4 DEF MonthOf
<1>7. \A k \in 1 .. 12 : P(k) <=> k = m
  BY <1>5
<1> HIDE DEF P
<1>8. MonthOf(day) = m
  BY <1>6, <1>7
<1>9. QED
  BY <1>4, <1>8

\* Every day from 1970 on lies in one.
LEMMA MonthFound ==
  ASSUME NEW day \in Nat
  PROVE  LET y == YearOf(day)
             m == MonthOf(day)
         IN  m \in 1 .. 12 /\ FirstOf(y, m) <= day /\ day < FirstOf(y, m + 1)
<1> DEFINE y == YearOf(day)
<1>1. y \in Int /\ NewYear(y) <= day /\ day < NewYear(y + 1)
  BY YearFound
<1> HIDE DEF y
<1> DEFINE S == {k \in Nat : k \in 1 .. 12 /\ day < FirstOf(y, k + 1)}
<1>2. 12 \in S
  <2>1. FirstOf(y, 13) = NewYear(y + 1) /\ 12 + 1 = 13
    BY <1>1, MonthsFill
  <2>2. QED
    BY <1>1, <2>1
<1>3. PICK m \in S : \A k \in S : m <= k
  <2>1. S \subseteq Nat /\ S # {}
    BY <1>2
  <2> HIDE DEF S
  <2>2. QED
    BY <2>1, LeastNumber
<1>4. m \in 1 .. 12 /\ day < FirstOf(y, m + 1)
  BY <1>3
<1>5. FirstOf(y, m) <= day
  <2>1. CASE m = 1
    BY <1>1, <2>1, MonthsFill
  <2>2. CASE m # 1
    <3>1. m - 1 \in Nat /\ m - 1 \in 1 .. 12 /\ (m - 1) + 1 = m /\ m - 1 \notin S
      BY <1>3, <1>4, <2>2
    <3>2. FirstOf(y, m) \in Int
      <4>1. m \in 1 .. 13
        BY <1>4
      <4>2. QED
        BY <1>1, <4>1, MonthsFill
    <3>3. QED
      BY <3>1, <3>2
  <2>3. QED
    BY <2>1, <2>2
<1>6. MonthOf(day) = m
  BY <1>1, <1>4, <1>5, MonthIs
<1>7. QED
  BY <1>4, <1>5, <1>6 DEF y

-----------------------------------------------------------------------------
(* Windows and instants *)

\* Within a month the windows are those of the month.
LEMMA MonthWindow ==
  ASSUME NEW y \in Int, NEW m \in 1 .. 12, NEW ts \in Int, 0 <= FirstOf(y, m),
         FirstOf(y, m) * Day <= ts + Zone, ts + Zone < FirstOf(y, m + 1) * Day
  PROVE  /\ CurWindowTime(ts, "1mon") = Date(FirstOf(y, m), 0)
         /\ NextKlineTimeWindow(ts, "1mon") = Date(FirstOf(y, m + 1), 0)
         /\ YearOf(DayOf(ts)) = y /\ MonthOf(DayOf(ts)) = m
<1> DEFINE f == FirstOf(y, m)
           g == FirstOf(y, m + 1)
<1>0. Zone \in Int /\ Day = 86400 /\ Hour = 3600
  BY WindowsAssumption DEF Minute, Hour, Day
<1>1. f \in Nat /\ g \in Int /\ f < g
  <2>1. m \in 1 .. 13 /\ m + 1 \in 1 .. 13
    OBVIOUS
  <2>2. f \in Int /\ g \in Int /\ f + 28 <= g
    BY <2>1, MonthsFill
  <2>3. QED
    BY <2>2
<1> HIDE DEF f, g
<1>2. ASSUME NEW t \in Int, f * Day <= t + Zone, t + Zone < g * Day
      PROVE  /\ YearOf(DayOf(t)) = y /\ MonthOf(DayOf(t)) = m
             /\ CurWindowTime(t, "1mon") = Date(f, 0)
  <2>1. DayOf(t) \in Nat /\ f <= DayOf(t) /\ DayOf(t) < g
    BY <1>0, <1>1, <1>2 DEF DayOf
  <2>2. YearOf(DayOf(t)) = y /\ MonthOf(DayOf(t)) = m
    BY <2>1, MonthIs DEF f, g
  <2>3. CurWindowTime(t, "1mon") = Date(FirstOf(YearOf(DayOf(t)), MonthOf(DayOf(t))), 0)
    BY KindsApart DEF CurWindowTime
  <2>4. QED
    BY <2>2, <2>3 DEF f
<1>3. CurWindowTime(ts, "1mon") = Date(f, 0) /\ YearOf(DayOf(ts)) = y /\ MonthOf(DayOf(ts)) = m
  BY <1>2 DEF f, g
<1>4. Date(f, 0) \in Int /\ f * Day <= Date(f, 0) + Zone /\ Date(f, 0) + Zone < g * Day
  BY <1>0, <1>1 DEF Date
<1>5. YearOf(DayOf(Date(f, 0))) = y /\ MonthOf(DayOf(Date(f, 0))) = m
  BY <1>2, <1>4
<1>6. NextKlineTimeWindow(ts, "1mon") =
        LET day == DayOf(CurWindowTime(ts, "1mon"))
        IN  Date(FirstOf(YearOf(day), MonthOf(day) + 1), 0)
  BY KindsApart DEF NextKlineTimeWindow, HourKinds
<1>7. NextKlineTimeWindow(ts, "1mon") = Date(g, 0)
  BY <1>3, <1>5, <1>6 DEF g
<1>8. QED
  BY <1>3, <1>7 DEF f, g

\* The month of an instant and the one after it.
LEMMA MonthsNext ==
  ASSUME NEW ts \in Int, ts + Zone >= 0
  PROVE  \E y, z \in Int : \E m, n \in 1 .. 12 :
           /\ 0 <= FirstOf(y, m) /\ FirstOf(y, m) < FirstOf(y, m + 1)
           /\ FirstOf(y, m) * Day <= ts + Zone /\ ts + Zone < FirstOf(y, m + 1) * Day
           /\ FirstOf(z, n) = FirstOf(y, m + 1) /\ FirstOf(z, n) < FirstOf(z, n + 1)
           /\ z * 12 + n = y * 12 + m + 1
           /\ FirstOf(y, m) \in Int /\ FirstOf(y, m + 1) \in Int /\ FirstOf(z, n + 1) \in Int
<1> DEFINE day == DayOf(ts)
           y == YearOf(day)
           m == MonthOf(day)
<1>0. Zone \in Int /\ Day = 86400
  BY WindowsAssumption DEF Minute, Hour, Day
<1>1. day \in Nat /\ day * Day <= ts + Zone /\ ts + Zone < (day + 1) * Day
  BY <1>0 DEF DayOf
<1> HIDE DEF day
<1>2. y \in Nat /\ y >= 1970 /\ NewYear(y) <= day
  BY <1>1, YearFound
<1>3. m \in 1 .. 12 /\ FirstOf(y, m) <= day /\ day < FirstOf(y, m + 1)
  BY <1>1, MonthFound
<1> HIDE DEF y, m
<1>4. ASSUME NEW x \in Int, NEW k \in 1 .. 12
      PROVE  /\ FirstOf(x, k) \in Int /\ FirstOf(x, k + 1) \in Int
             /\ FirstOf(x, k) < FirstOf(x, k + 1)
  <2>1. k \in 1 .. 13 /\ k + 1 \in 1 .. 13
    OBVIOUS
  <2>2. FirstOf(x, k) \in Int /\ FirstOf(x, k + 1) \in Int /\ FirstOf(x, k) + 28 <= FirstOf(x, k + 1)
    BY <2>1, MonthsFill
  <2>3. QED
    BY <2>2
<1>5. y \in Int /\ FirstOf(y, m) \in Int /\ FirstOf(y, m + 1) \in Int
      /\ FirstOf(y, m) < FirstOf(y, m + 1)
  <2>1. y \in Int
    BY <1>2
  <2>2. m \in 1 .. 12
    BY <1>3
  <2>3. QED
    BY <1>4, <2>1, <2>2, Zenon
<1>6. 0 <= FirstOf(y, m)
  <2>1. NewYear(1970) = 0 /\ NewYear(y) \in Int
    BY <1>2, YearLength DEF NewYear
  <2>2. NewYear(1970) + 365 * (y - 1970) <= NewYear(y)
    BY <1>2, YearsGrow
  <2>3. 1 \in 1 .. 13 /\ m \in 1 .. 13 /\ 1 <= m
    BY <1>3
  <2>4. FirstOf(y, 1) = NewYear(y) /\ FirstOf(y, 1) <= FirstOf(y, m)
    BY <1>5, <2>3, MonthsFill, MonthsGrow
  <2>5. QED
    BY <1>2, <1>5, <2>1, <2>2, <2>4
<1>7. FirstOf(y, m) * Day <= ts + Zone /\ ts + Zone < FirstOf(y, m + 1) * Day
  BY <1>0, <1>1, <1>3, <1>5
<1>8. CASE m < 12
  <2>1. m + 1 \in 1 .. 12 /\ y * 12 + (m + 1) = y * 12 + m + 1
    BY <1>3, <1>5, <1>8
  <2>2. FirstOf(y, m + 1) < FirstOf(y, (m + 1) + 1) /\ FirstOf(y, (m + 1) + 1) \in Int
    BY <1>4, <1>5, <2>1
  <2>3. QED
    BY <1>3, <1>5, <1>6, <1>7, <2>1, <2>2
<1>9. CASE m = 12
  <2>1. y + 1 \in Int /\ 1 \in 1 .. 12 /\ (y + 1) * 12 + 1 = y * 12 + m + 1 /\ m + 1 = 13
    BY <1>5, <1>9
  <2>2. FirstOf(y + 1, 1) = FirstOf(y, m + 1)
    <3>1. FirstOf(y, 13) = NewYear(y + 1) /\ FirstOf(y + 1, 1) = NewYear(y + 1)
      BY <1>5, <2>1, MonthsFill
    <3>2. QED
      BY <2>1, <3>1
  <2>3. FirstOf(y + 1, 1) < FirstOf(y + 1, 1 + 1) /\ FirstOf(y + 1, 1 + 1) \in Int
    BY <1>4, <2>1
  <2>4. QED
    BY <1>3, <1>5, <1>6, <1>7, <2>1, <2>2, <2>3
<1>10. QED
  BY <1>3, <1>8, <1>9

\* The windows of every kind lie side by side and cover the time.
LEMMA Tiles ==
  ASSUME NEW k \in Kinds, NEW ts \in Int, ts + Zone >= 0
  PROVE  LET start == CurWindowTime(ts, k)
             next == NextKlineTimeWindow(ts, k)
         IN  /\ start \in Int /\ next \in Int
             /\ start <= ts /\ ts < next
             /\ CurWindowTime(start, k) = start
             /\ CurWindowTime(next - 1, k) = start
             /\ CurWindowTime(next, k) = next
             /\ NextKlineTimeWindow(start, k) = next
<1> DEFINE start == CurWindowTime(ts, k)
           next == NextKlineTimeWindow(ts, k)
<1>1. CASE k # "1mon"
  <2> DEFINE l == Length(k)
             z == Origin(k)
  <2>1. k \in CutKinds
    BY <1>1 DEF CutKinds
  <2>2. l \in Nat \ {0} /\ z \in Int
    BY <2>1, LengthType
  <2>3. \A t \in Int : CurWindowTime(t, k) = Cut(t, l, z)
    BY <2>1, CurIsCut
  <2>4. \A t \in Int : NextKlineTimeWindow(t, k) = CurWindowTime(t, k) + l
    BY <2>1, NextIsCut
  <2> HIDE DEF l, z
  <2>5. start = Cut(ts, l, z)
    BY <2>3
  <2>6. next = start + l
    BY <2>4
  <2> HIDE DEF start, next
  <2>7. /\ start \in Int /\ start <= ts /\ ts < start + l
        /\ Cut(start, l, z) = start
        /\ Cut(start + l - 1, l, z) = start
        /\ Cut(start + l, l, z) = start + l
    BY <2>2, <2>5, CutTiles
  <2>8. start + l - 1 \in Int /\ start + l \in Int
    BY <2>2, <2>7
  <2>9. CurWindowTime(start, k) = start
    BY <2>3, <2>7
  <2>10. CurWindowTime(start + l - 1, k) = start
    BY <2>3, <2>7, <2>8
  <2>11. CurWindowTime(start + l, k) = start + l
    BY <2>3, <2>7, <2>8
  <2>12. NextKlineTimeWindow(start, k) = start + l
    BY <2>4, <2>7, <2>9
  <2>13. start <= ts /\ ts < next
    BY <2>6, <2>7
  <2>14. CurWindowTime(next - 1, k) = start
    <3>1. next - 1 = start + l - 1
      BY <2>2, <2>6, <2>7
    <3> QED
      BY <2>10, <3>1
  <2>15. CurWindowTime(next, k) = next /\ NextKlineTimeWindow(start, k) = next
    BY <2>6, <2>11, <2>12
  <2>16. next \in Int
    BY <2>6, <2>8
  <2> QED
    BY <2>7, <2>9, <2>13, <2>14, <2>15, <2>16 DEF start, next
<1>2. CASE k = "1mon"
  <2>0. Zone \in Int /\ Day = 86400 /\ Hour = 3600
    BY WindowsAssumption DEF Minute, Hour, Day
  <2>1. PICK y \in Int, z \in Int, m \in 1 .. 12, n \in 1 .. 12 :
          /\ 0 <= FirstOf(y, m) /\ FirstOf(y, m) < FirstOf(y, m + 1)
          /\ FirstOf(y, m) * Day <= ts + Zone /\ ts + Zone < FirstOf(y, m + 1) * Day
          /\ FirstOf(z, n) = FirstOf(y, m + 1) /\ FirstOf(z, n) < FirstOf(z, n + 1)
          /\ z * 12 + n = y * 12 + m + 1
          /\ FirstOf(y, m) \in Int /\ FirstOf(y, m + 1) \in Int /\ FirstOf(z, n + 1) \in Int
    BY MonthsNext
  <2>2. start = Date(FirstOf(y, m), 0) /\ next = Date(FirstOf(y, m + 1), 0)
    BY <1>2, <2>1, MonthWindow
  <2> HIDE DEF start, next
  <2> DEFINE f == FirstOf(y, m)
             g == FirstOf(y, m + 1)
  <2>3. f \in Int /\ g \in Int /\ 0 <= f /\ f < g
    BY <2>1
  <2>4. start = f * Day - Zone /\ next = g * Day - Zone
    BY <2>0, <2>2, <2>3 DEF Date
  <2>5. f * Day <= ts + Zone /\ ts + Zone < g * Day
    BY <2>1
  <2> HIDE DEF f, g
  <2>6. /\ start \in Int /\ next \in Int /\ start <= ts /\ ts < next
        /\ f * Day <= start + Zone /\ start + Zone < g * Day
        /\ next - 1 \in Int
        /\ f * Day <= (next - 1) + Zone /\ (next - 1) + Zone < g * Day
    BY <2>0, <2>3, <2>4, <2>5
  <2>7. CurWindowTime(start, k) = start /\ NextKlineTimeWindow(start, k) = next
    BY <1>2, <2>1, <2>2, <2>6, MonthWindow DEF f, g
  <2>8. CurWindowTime(next - 1, k) = start
    BY <1>2, <2>1, <2>2, <2>6, MonthWindow DEF f, g
  <2>9. CurWindowTime(next, k) = next
    <3>1. /\ FirstOf(z, n) * Day <= next + Zone /\ next + Zone < FirstOf(z, n + 1) * Day
          /\ 0 <= FirstOf(z, n) /\ next = Date(FirstOf(z, n), 0)
      BY <2>0, <2>1, <2>2, <2>3, <2>4 DEF g
    <3>2. CurWindowTime(next, "1mon") = Date(FirstOf(z, n), 0)
      BY <2>6, <3>1, MonthWindow
    <3>3. QED
      BY <1>2, <3>1, <3>2
  <2>10. QED
    BY <2>6, <2>7, <2>8, <2>9 DEF start, next
<1>3. QED
  BY <1>1, <1>2

\* A walk goes from window to window.
WindowInv == kind \in Kinds /\ now \in Int /\ now + Zone >= 0

\* The invariant holds at the beginning.
LEMMA WindowInit == Init => WindowInv
BY WindowsAssumption DEF Init, WindowInv

\* Every step keeps it.
LEMMA WindowNext == WindowInv /\ [Next]_vars => WindowInv'
<1> SUFFICES ASSUME WindowInv, [Next]_vars
             PROVE  WindowInv'
  OBVIOUS
<1>1. CASE UNCHANGED vars
  BY <1>1 DEF vars, WindowInv
<1>2. CASE Walk
  <2>1. kind' = kind /\ kind \in Kinds /\ now \in Int /\ now + Zone >= 0
        /\ now' = NextKlineTimeWindow(now, kind)
    BY <1>2 DEF Walk, WindowInv
  <2>2. now' \in Int /\ now < now'
    BY <2>1, Tiles
  <2>3. now' + Zone >= 0
    BY <2>1, <2>2, WindowsAssumption
  <2> QED
    BY <2>1, <2>2, <2>3 DEF WindowInv
<1> QED
  BY <1>1, <1>2 DEF Next

\* At every instant, the window of any kind holds the instant and ends where
\* the next one starts, for every location with a fixed offset: the two ends,
\* which CurWindowTime and NextKlineTimeWindow compute apart, fit.
THEOREM WindowsTileTime == Spec => []WindowsTile
<1>1. WindowInv => WindowsTile
  BY Tiles DEF WindowInv, WindowsTile
<1> QED
  BY <1>1, WindowInit, WindowNext, PTL DEF Spec

-----------------------------------------------------------------------------
(* The lists of a year *)

YearlyKinds == MinuteKinds \union HourKinds \union {"1day"}

\* Division undoes multiplication.
LEMMA Quotient ==
  ASSUME NEW l \in Nat \ {0}, NEW p \in Int
  PROVE  (p * l) \div l = p
<1>1. ASSUME NEW r \in 0 .. l - 1 PROVE (p * l + r) \div l = p
  OBVIOUS
<1>2. p * l \in Int /\ 0 \in 0 .. l - 1
  OBVIOUS
<1>3. p * l + 0 = p * l
  BY <1>2
<1>4. QED
  BY <1>1, <1>2, <1>3

\* Seconds since the beginning of a year, and of it, are whole windows.
LEMMA WindowsSince ==
  ASSUME NEW l \in Nat \ {0}, NEW c \in Nat \ {0}, NEW q \in Int, NEW a \in Int
  PROVE  (q * l - a * (c * l)) \div l = q - a * c
<1>1. q * l - a * (c * l) = (q - a * c) * l
  OBVIOUS
<1>2. q - a * c \in Int
  OBVIOUS
<1>3. QED
  BY <1>1, <1>2, Quotient

\* Days and hours of the day count the same windows of some hours.
LEMMA HoursPlace ==
  ASSUME NEW k \in HourKinds, NEW q \in Nat, NEW a \in Int, NEW t \in Int,
         t + Zone = q * (Hours[k] * 3600)
  PROVE  (DayOf(t) - a) * (24 \div Hours[k]) + HourOf(t) \div Hours[k] = q - a * (24 \div Hours[k])
<1>1. PICK h \in {1, 2, 4, 6, 8, 12} : h = Hours[k]
  BY HoursValue
<1>2. PICK w \in Nat : w = t + Zone /\ w = q * (h * 3600)
  BY <1>1
<1>3. DayOf(t) = w \div 86400 /\ HourOf(t) = (w % 86400) \div 3600
  BY <1>2 DEF DayOf, HourOf, Day, Hour, Minute
<1>4. ASSUME NEW v \in Nat, v = q * (h * 3600)
      PROVE  (v \div 86400 - a) * (24 \div h) + ((v % 86400) \div 3600) \div h
               = q - a * (24 \div h)
  <2>1. CASE h = 1
    <3>1. v = q * 3600
      BY <1>4, <2>1
    <3>2. (v \div 86400 - a) * 24 + ((v % 86400) \div 3600) \div 1 = q - a * 24
      BY <3>1
    <3>3. 24 \div 1 = 24
      OBVIOUS
    <3>4. QED
      BY <2>1, <3>2, <3>3
  <2>2. CASE h = 2
    <3>1. v = q * 7200
      BY <1>4, <2>2
    <3>2. (v \div 86400 - a) * 12 + ((v % 86400) \div 3600) \div 2 = q - a * 12
      BY <3>1
    <3>3. 24 \div 2 = 12
      OBVIOUS
    <3>4. QED
      BY <2>2, <3>2, <3>3
  <2>3. CASE h = 4
    <3>1. v = q * 14400
      BY <1>4, <2>3
    <3>2. (v \div 86400 - a) * 6 + ((v % 86400) \div 3600) \div 4 = q - a * 6
      BY <3>1
    <3>3. 24 \div 4 = 6
      OBVIOUS
    <3>4. QED
      BY <2>3, <3>2, <3>3
  <2>4. CASE h = 6
    <3>1. v = q * 21600
      BY <1>4, <2>4
    <3>2. (v \div 86400 - a) * 4 + ((v % 86400) \div 3600) \div 6 = q - a * 4
      BY <3>1
    <3>3. 24 \div 6 = 4
      OBVIOUS
    <3>4. QED
      BY <2>4, <3>2, <3>3
  <2>5. CASE h = 8
    <3>1. v = q * 28800
      BY <1>4, <2>5
    <3>2. (v \div 86400 - a) * 3 + ((v % 86400) \div 3600) \div 8 = q - a * 3
      BY <3>1
    <3>3. 24 \div 8 = 3
      OBVIOUS
    <3>4. QED
      BY <2>5, <3>2, <3>3
  <2>6. CASE h = 12
    <3>1. v = q * 43200
      BY <1>4, <2>6
    <3>2. (v \div 86400 - a) * 2 + ((v % 86400) \div 3600) \div 12 = q - a * 2
      BY <3>1
    <3>3. 24 \div 12 = 2
      OBVIOUS
    <3>4. QED
      BY <2>6, <3>2, <3>3
  <2>7. QED
    BY <2>1, <2>2, <2>3, <2>4, <2>5, <2>6
<1>5. QED
  BY <1>1, <1>2, <1>3, <1>4

\* Windows of a kind in a day.
PerDay(k) == Day \div Length(k)

\* The windows of these kinds divide the day.
LEMMA WindowsOfDay ==
  ASSUME NEW k \in YearlyKinds
  PROVE  /\ Length(k) \in Nat \ {0} /\ PerDay(k) \in Nat \ {0} /\ PerDay(k) * Length(k) = Day
         /\ k \in MinuteKinds => Origin(k) = 0 /\ (1800 \div Length(k)) * Length(k) = 1800
         /\ k \notin MinuteKinds => Origin(k) = Zone
         /\ k \in HourKinds => Length(k) = Hours[k] * 3600 /\ PerDay(k) = 24 \div Hours[k]
         /\ k = "1day" => Length(k) = 86400 /\ PerDay(k) = 1
<1>0. Minute = 60 /\ Hour = 3600 /\ Day = 86400
  BY DEF Minute, Hour, Day
<1>1. CASE k \in MinuteKinds
  <2>1. Length(k) = Minutes[k] * 60 /\ Origin(k) = 0
    BY <1>0, <1>1, KindsApart DEF Length, Origin
  <2>2. k \notin HourKinds /\ k # "1day"
    BY <1>1, KindsApart
  <2>3. PICK m \in {1, 3, 5, 15, 30} : m = Minutes[k]
    BY <1>1, MinutesValue
  <2>4. /\ m * 60 \in Nat \ {0} /\ 86400 \div (m * 60) \in Nat \ {0}
        /\ (86400 \div (m * 60)) * (m * 60) = 86400 /\ (1800 \div (m * 60)) * (m * 60) = 1800
    OBVIOUS
  <2>5. Length(k) = m * 60 /\ PerDay(k) = 86400 \div (m * 60)
    BY <1>0, <2>1, <2>3 DEF PerDay
  <2>6. QED
    BY <1>0, <1>1, <2>1, <2>2, <2>4, <2>5
<1>2. CASE k \in HourKinds
  <2>1. Length(k) = Hours[k] * 3600 /\ Origin(k) = Zone
    BY <1>0, <1>2, KindsApart DEF Length, Origin
  <2>2. k \notin MinuteKinds /\ k # "1day"
    BY <1>2, KindsApart
  <2>3. PICK h \in {1, 2, 4, 6, 8, 12} : h = Hours[k]
    BY <1>2, HoursValue
  <2>4. /\ h * 3600 \in Nat \ {0} /\ 24 \div h \in Nat \ {0}
        /\ 86400 \div (h * 3600) = 24 \div h /\ (24 \div h) * (h * 3600) = 86400
    OBVIOUS
  <2>5. Length(k) = h * 3600 /\ PerDay(k) = 24 \div h
    BY <1>0, <2>1, <2>3, <2>4 DEF PerDay
  <2>6. QED
    BY <1>0, <1>2, <2>1, <2>2, <2>3, <2>4, <2>5
<1>3. CASE k = "1day"
  <2>1. Length(k) = 86400 /\ Origin(k) = Zone /\ k \notin MinuteKinds /\ k \notin HourKinds
    BY <1>0, <1>3, KindsApart DEF Length, Origin
  <2>2. 86400 \div 86400 = 1
    OBVIOUS
  <2>3. PerDay(k) = 1
    BY <1>0, <2>1, <2>2 DEF PerDay
  <2>4. QED
    BY <1>0, <1>3, <2>1, <2>3
<1>4. k \in MinuteKinds \/ k \in HourKinds \/ k = "1day"
  BY DEF YearlyKinds
<1>5. QED
  BY <1>1, <1>2, <1>3, <1>4

\* Local midnight starts a window of these kinds: windows are numbered from
\* the midnight of day 0.
LEMMA YearlyCut ==
  ASSUME NEW k \in YearlyKinds, NEW ts \in Int, ts + Zone >= 0
  PROVE  \E q \in Nat :
           /\ CurWindowTime(ts, k) = q * Length(k) - Zone
           /\ NextKlineTimeWindow(ts, k) = (q + 1) * Length(k) - Zone
<1>0. Zone \in Int /\ Zone % 1800 = 0
  BY WindowsAssumption DEF Minute
<1> DEFINE l == Length(k)
<1>1. /\ l \in Nat \ {0}
      /\ k \in MinuteKinds => Origin(k) = 0 /\ (1800 \div l) * l = 1800
      /\ k \notin MinuteKinds => Origin(k) = Zone
  BY WindowsOfDay
<1>2. /\ CurWindowTime(ts, k) = Cut(ts, l, Origin(k))
      /\ NextKlineTimeWindow(ts, k) = CurWindowTime(ts, k) + l
  <2>1. k \in CutKinds
    BY KindsApart DEF YearlyKinds, CutKinds, Kinds
  <2>2. QED
    BY <2>1, CurIsCut, NextIsCut
<1> HIDE DEF l
<1>3. \E q \in Nat : Cut(ts, l, Origin(k)) = q * l - Zone
  <2>1. CASE k \in MinuteKinds
    <3> DEFINE r == 1800 \div l
    <3>1. r * l = 1800 /\ r \in Int /\ Origin(k) = 0
      BY <1>1, <2>1
    <3> HIDE DEF r
    <3> DEFINE z == Zone \div 1800
               p == ts \div l
    <3>2. Zone = 1800 * z /\ z \in Int
      BY <1>0
    <3>3. p \in Int /\ p * l <= ts /\ ts < p * l + l
      <4>1. ts = p * l + (ts % l) /\ ts % l \in 0 .. l - 1 /\ p \in Int
        BY <1>1
      <4> HIDE DEF p
      <4>2. p * l \in Int
        BY <1>1, <4>1
      <4>3. QED
        BY <1>1, <4>1, <4>2
    <3>4. Cut(ts, l, Origin(k)) = p * l
      <4>1. Cut(ts, l, Origin(k)) = ((ts + 0) \div l) * l - 0
        BY <3>1 DEF Cut
      <4>2. ts + 0 = ts
        OBVIOUS
      <4>3. Cut(ts, l, Origin(k)) = p * l - 0
        BY <4>1, <4>2
      <4> HIDE DEF p
      <4>4. p * l \in Int
        BY <1>1, <3>3
      <4>5. QED
        BY <4>3, <4>4
    <3> HIDE DEF p, z
    <3>5. r * z \in Int /\ p + r * z \in Int /\ (p + r * z) * l = p * l + Zone
      <4>1. (p + r * z) * l = p * l + z * (r * l)
        BY <1>1, <3>1, <3>2, <3>3
      <4>2. p * l \in Int /\ r * z \in Int
        BY <1>1, <3>1, <3>2, <3>3
      <4>3. QED
        BY <3>1, <3>2, <3>3, <4>1, <4>2
    <3> DEFINE q == p + r * z
    <3>6. q \in Int /\ q * l = p * l + Zone
      BY <3>5
    <3> HIDE DEF q
    <3>7. q >= 0
      <4>1. p * l \in Int
        BY <1>1, <3>3
      <4>2. q * l + l > 0
        BY <1>0, <1>1, <3>3, <3>6, <4>1
      <4>3. (q + 1) * l > 0
        BY <1>1, <3>6, <4>2
      <4>4. q + 1 > 0
        BY <1>1, <3>6, <4>3
      <4>5. QED
        BY <3>6, <4>4
    <3>8. p * l = q * l - Zone
      BY <1>0, <1>1, <3>3, <3>6
    <3>9. QED
      BY <3>4, <3>6, <3>7, <3>8
  <2>2. CASE k \notin MinuteKinds
    <3>1. ts + Zone \in Nat
      BY <1>0
    <3>2. (ts + Zone) \div l \in Nat
      BY <1>1, <3>1
    <3>3. QED
      BY <1>1, <2>2, <3>2 DEF Cut
  <2>3. QED
    BY <2>1, <2>2
<1>4. PICK q \in Nat : Cut(ts, l, Origin(k)) = q * l - Zone
  BY <1>3
<1>5. (q + 1) * l - Zone = (q * l - Zone) + l
  BY <1>0, <1>1
<1>6. QED
  BY <1>1, <1>2, <1>4, <1>5 DEF l

\* How the place of a window is found: the minutes and the single hour by the
\* seconds since the beginning of the year, the others by the day of the year.
LEMMA YearlyPlace ==
  ASSUME NEW k \in YearlyKinds, NEW t
  PROVE  /\ k \in MinuteKinds =>
              Slot(t, k) = YearlyList(t, (t - CurWindowTime(t, "1year")) \div Length(k), Length(k))
         /\ k \in HourKinds =>
              \/ Slot(t, k) =
                   YearlyList(t, (t - CurWindowTime(t, "1year")) \div Length(k), Length(k))
              \/ Slot(t, k) =
                   YearlyList(t, PlaceOfDay(DayOf(t)) * (24 \div Hours[k]) + HourOf(t) \div Hours[k],
                              Length(k))
         /\ k = "1day" => Slot(t, k) = YearlyList(t, PlaceOfDay(DayOf(t)), Length(k))
<1>1. CASE k \in MinuteKinds
  <2>1. k \notin HourKinds /\ k # "1day" /\ k # "60min"
    BY <1>1, KindsApart DEF HourKinds
  <2>2. Length(k) = Minutes[k] * Minute
    BY <1>1, <2>1, KindsApart DEF Length
  <2>3. Slot(t, k) = YearlyList(t, (t - CurWindowTime(t, "1year")) \div (Minutes[k] * Minute),
                               Minutes[k] * Minute)
    BY <1>1, <2>1, KindsApart DEF Slot
  <2>4. QED
    BY <1>1, <2>1, <2>2, <2>3
<1>2. CASE k = "60min"
  <2>1. k \in HourKinds /\ k \notin MinuteKinds /\ k # "1day"
    BY <1>2 DEF HourKinds, MinuteKinds
  <2>2. Slot(t, k) = YearlyList(t, (t - CurWindowTime(t, "1year")) \div Hour, Hour)
    BY <1>2, <2>1, KindsApart DEF Slot
  <2>3. Length(k) = Hours[k] * Hour /\ Hours[k] = 1
    BY <1>2, <2>1 DEF Length, Hours
  <2>4. Length(k) = Hour
    BY <2>3 DEF Hour, Minute
  <2>5. QED
    BY <2>1, <2>2, <2>4
<1>3. CASE k \in HourKinds /\ k # "60min"
  <2>1. k \notin MinuteKinds /\ k # "1day"
    BY <1>3, KindsApart
  <2>2. Length(k) = Hours[k] * Hour
    BY <1>3, <2>1, KindsApart DEF Length
  <2>3. Slot(t, k) =
          YearlyList(t, PlaceOfDay(DayOf(t)) * (24 \div Hours[k]) + HourOf(t) \div Hours[k],
                     Hours[k] * Hour)
    BY <1>3, <2>1, KindsApart DEF Slot
  <2>4. QED
    BY <1>3, <2>1, <2>2, <2>3
<1>4. CASE k = "1day"
  <2>1. k \notin MinuteKinds /\ k \notin HourKinds
    BY <1>4, KindsApart
  <2>2. k # "60min"
    BY <1>4
  <2>3. QED
    BY <1>4, <2>1, <2>2 DEF Slot, Length
<1>5. k \in MinuteKinds \/ k \in HourKinds \/ k = "1day"
  BY DEF YearlyKinds
<1>6. QED
  BY <1>1, <1>2, <1>3, <1>4, <1>5, Zenon

\* Where window q of a kind is kept, if it lies in year y: its place is its
\* number since the beginning of the year.
LEMMA YearlySlot ==
  ASSUME NEW k \in YearlyKinds, NEW q \in Nat, NEW y \in Int,
         NewYear(y) * PerDay(k) <= q, q < NewYear(y + 1) * PerDay(k)
  PROVE  LET slot == Slot(q * Length(k) - Zone, k)
         IN  /\ slot.table = Date(NewYear(y), 0)
             /\ slot.off = q - NewYear(y) * PerDay(k)
             /\ slot.len = (NewYear(y + 1) - NewYear(y)) * PerDay(k)
<1> DEFINE l == Length(k)
           c == PerDay(k)
           a == NewYear(y)
           b == NewYear(y + 1)
<1>0. /\ Zone \in Int /\ Minute = 60 /\ Hour = 3600 /\ Day = 86400
      /\ a \in Int /\ b \in Int /\ l \in Nat \ {0} /\ c \in Nat \ {0} /\ c * l = Day
  BY WindowsAssumption, YearLength, WindowsOfDay DEF Minute, Hour, Day
<1>1. a * c <= q /\ q < b * c
  OBVIOUS
<1> HIDE DEF l, c, a, b
<1>2. PICK t \in Int : t = q * l - Zone /\ t + Zone = q * l
  BY <1>0
<1>3. PICK day \in Int : day = DayOf(t) /\ day = (q * l) \div Day
  <2>1. q * l \in Int
    BY <1>0
  <2>2. (q * l) \div Day \in Int
    BY <1>0, <2>1
  <2>3. QED
    BY <1>2, <2>2 DEF DayOf
<1>4. day \in Nat /\ a <= day /\ day < b
  <2>1. (a * c) * l <= q * l /\ q * l < (b * c) * l
    <3>1. a * c \in Int /\ b * c \in Int
      BY <1>0
    <3>2. QED
      BY <1>0, <1>1, <3>1
  <2>2. (a * c) * l = a * Day /\ (b * c) * l = b * Day
    BY <1>0
  <2>3. q * l \in Nat
    BY <1>0
  <2>4. a * 86400 <= q * l /\ q * l < b * 86400 /\ day = (q * l) \div 86400
    BY <1>0, <1>3, <2>1, <2>2
  <2>5. QED
    BY <1>0, <2>3, <2>4
<1>5. YearOf(day) = y
  BY <1>4, YearIs DEF a, b
<1>6. PlaceOfDay(DayOf(t)) = day - a
  <2>1. PlaceOfDay(DayOf(t)) = (day - a + 1) - 1
    BY <1>3, <1>5 DEF PlaceOfDay, YearDay, a
  <2>2. QED
    BY <1>0, <1>3, <2>1
<1>7. Date(a, 0) = a * Day - Zone /\ CurWindowTime(t, "1year") = Date(a, 0)
  <2>1. CurWindowTime(t, "1year") = Date(NewYear(YearOf(DayOf(t))), 0)
    BY KindsApart DEF CurWindowTime
  <2>2. QED
    BY <1>0, <1>3, <1>5, <2>1 DEF Date, a
<1>8. (t - CurWindowTime(t, "1year")) \div l = q - a * c
  <2>1. t - CurWindowTime(t, "1year") = q * l - a * (c * l)
    BY <1>0, <1>2, <1>7
  <2>2. QED
    BY <1>0, <2>1, WindowsSince
<1>9. ((b - a) * Day) \div l = (b - a) * c
  <2>1. (b - a) * Day = ((b - a) * c) * l /\ (b - a) * c \in Int
    BY <1>0
  <2>2. QED
    BY <1>0, <2>1, Quotient
<1>10. ASSUME NEW off
       PROVE  LET list == YearlyList(t, off, l)
              IN  list.table = Date(a, 0) /\ list.off = off /\ list.len = (b - a) * c
  BY <1>3, <1>5, <1>9 DEF YearlyList, a, b
<1>11. Slot(t, k) = YearlyList(t, q - a * c, l)
  <2>1. CASE Slot(t, k) = YearlyList(t, (t - CurWindowTime(t, "1year")) \div l, l)
    BY <1>8, <2>1
  <2>2. CASE /\ k \in HourKinds
             /\ Slot(t, k) = YearlyList(t,
                  PlaceOfDay(DayOf(t)) * (24 \div Hours[k]) + HourOf(t) \div Hours[k], l)
    <3>1. l = Hours[k] * 3600 /\ c = 24 \div Hours[k]
      BY <2>2, WindowsOfDay DEF l, c
    <3>2. (DayOf(t) - a) * (24 \div Hours[k]) + HourOf(t) \div Hours[k]
            = q - a * (24 \div Hours[k])
      BY <1>0, <1>2, <2>2, <3>1, HoursPlace
    <3>3. QED
      BY <1>3, <1>6, <2>2, <3>1, <3>2
  <2>3. CASE k = "1day" /\ Slot(t, k) = YearlyList(t, PlaceOfDay(DayOf(t)), l)
    <3>1. l = 86400 /\ c = 1
      BY <2>3, WindowsOfDay DEF l, c
    <3>2. day = q
      BY <1>0, <1>3, <3>1
    <3>3. day - a = q - a * c
      BY <1>0, <3>1, <3>2
    <3>4. QED
      BY <1>6, <2>3, <3>3
  <2>4. QED
    BY <2>1, <2>2, <2>3, YearlyPlace DEF YearlyKinds, l
<1>12. QED
  BY <1>2, <1>10, <1>11 DEF a, b, c, l

\* Every window lies in one year.
LEMMA YearlyYear ==
  ASSUME NEW c \in Nat \ {0}, NEW q \in Nat
  PROVE  \E y \in Int : NewYear(y) * c <= q /\ q < NewYear(y + 1) * c
<1>1. PICK day \in Nat : day * c <= q /\ q < day * c + c
  <2>1. q = (q \div c) * c + (q % c) /\ q % c \in 0 .. c - 1 /\ q \div c \in Nat
    OBVIOUS
  <2>2. (q \div c) * c \in Int
    BY <2>1
  <2>3. (q \div c) * c <= q /\ q < (q \div c) * c + c
    BY <2>1, <2>2
  <2>4. QED
    BY <2>1, <2>3
<1>2. PICK y \in Int : NewYear(y) <= day /\ day < NewYear(y + 1)
  <2>1. YearOf(day) \in Int
    BY YearFound
  <2>2. QED
    BY <2>1, YearFound
<1>3. PICK a, b \in Int : a = NewYear(y) /\ b = NewYear(y + 1) /\ a <= day /\ day < b
  BY <1>2, YearLength
<1>4. a * c <= day * c /\ (day + 1) * c <= b * c
  BY <1>3
<1>5. a * c \in Int /\ b * c \in Int /\ day * c \in Int /\ (day + 1) * c = day * c + c
  BY <1>3
<1>6. a * c <= q /\ q < b * c
  BY <1>1, <1>4, <1>5
<1>7. QED
  BY <1>3, <1>6

\* The place of such a window is one of its list.
LEMMA YearlyFits ==
  ASSUME NEW k \in YearlyKinds, NEW ts \in Int, ts + Zone >= 0
  PROVE  LET slot == Slot(CurWindowTime(ts, k), k)
         IN  0 <= slot.off /\ slot.off < slot.len
<1>1. PICK q \in Nat : CurWindowTime(ts, k) = q * Length(k) - Zone
  BY YearlyCut
<1>2. PICK c \in Nat \ {0} : c = PerDay(k)
  BY WindowsOfDay
<1>3. PICK y \in Int : NewYear(y) * c <= q /\ q < NewYear(y + 1) * c
  BY YearlyYear
<1>4. PICK a, b \in Int : a = NewYear(y) /\ b = NewYear(y + 1)
  BY YearLength
<1>5. LET slot == Slot(q * Length(k) - Zone, k)
      IN  slot.off = q - a * c /\ slot.len = (b - a) * c
  BY <1>2, <1>3, <1>4, YearlySlot
<1>6. a * c \in Int /\ b * c \in Int /\ (b - a) * c = b * c - a * c
  BY <1>4
<1>7. 0 <= q - a * c /\ q - a * c < (b - a) * c
  BY <1>3, <1>4, <1>6
<1>8. QED
  BY <1>1, <1>5, <1>7

\* These kinds go from place to place, and from the last place of a year to
\* the first one of the next.
LEMMA YearlyFollows ==
  ASSUME NEW k \in YearlyKinds, NEW ts \in Int, ts + Zone >= 0
  PROVE  Follows(Slot(NextKlineTimeWindow(ts, k), k), Slot(CurWindowTime(ts, k), k))
<1>1. PICK q \in Nat : /\ CurWindowTime(ts, k) = q * Length(k) - Zone
                       /\ NextKlineTimeWindow(ts, k) = (q + 1) * Length(k) - Zone
  BY YearlyCut
<1>2. PICK c \in Nat \ {0} : c = PerDay(k)
  BY WindowsOfDay
<1>3. PICK y \in Int : NewYear(y) * c <= q /\ q < NewYear(y + 1) * c
  BY YearlyYear
<1>4. PICK z \in Int : z = y + 1
  OBVIOUS
<1>5. PICK a, b, d \in Int : /\ a = NewYear(y) /\ b = NewYear(z) /\ d = NewYear(z + 1)
                             /\ a < b /\ b < d
  <2>1. NewYear(y) \in Int /\ NewYear(z) \in Int /\ NewYear(y) < NewYear(z)
    BY <1>4, YearLength
  <2>2. NewYear(z + 1) \in Int /\ NewYear(z) < NewYear(z + 1)
    BY <2>1, YearLength
  <2>3. QED
    BY <2>1, <2>2
<1>6. /\ a * c \in Int /\ b * c \in Int /\ d * c \in Int /\ (b - a) * c = b * c - a * c
      /\ a * c <= q /\ q < b * c /\ b * c < d * c
  <2>1. b * c < d * c
    BY <1>5
  <2>2. a * c \in Int /\ b * c \in Int /\ d * c \in Int /\ (b - a) * c = b * c - a * c
    BY <1>5
  <2>3. a * c <= q /\ q < b * c
    BY <1>3, <1>4, <1>5
  <2>4. QED
    BY <2>1, <2>2, <2>3
<1>7. LET here == Slot(q * Length(k) - Zone, k)
      IN  here.table = Date(a, 0) /\ here.off = q - a * c /\ here.len = (b - a) * c
  BY <1>2, <1>4, <1>5, <1>6, YearlySlot
<1>8. PICK p \in Nat : p = q + 1
  OBVIOUS
<1>9. CASE p < b * c
  <2>1. a * c <= p
    BY <1>6, <1>8
  <2>2. LET there == Slot(p * Length(k) - Zone, k)
        IN  there.table = Date(a, 0) /\ there.off = p - a * c
    BY <1>2, <1>4, <1>5, <1>9, <2>1, YearlySlot
  <2>3. p - a * c = (q - a * c) + 1
    BY <1>6, <1>8
  <2>4. QED
    BY <1>1, <1>7, <1>8, <2>2, <2>3 DEF Follows
<1>10. CASE ~(p < b * c)
  <2>1. p = b * c
    BY <1>6, <1>8, <1>10
  <2>2. b * c <= p /\ p < d * c
    BY <1>6, <2>1
  <2>3. LET there == Slot(p * Length(k) - Zone, k)
        IN  there.table = Date(b, 0) /\ there.off = p - b * c
    BY <1>2, <1>5, <2>2, YearlySlot
  <2>4. p - b * c = 0 /\ q - a * c = (b - a) * c - 1
    BY <1>6, <1>8, <2>1
  <2>5. Date(a, 0) \in Int /\ Date(b, 0) \in Int /\ Date(b, 0) > Date(a, 0)
    <3>1. Day = 86400 /\ Hour = 3600 /\ Zone \in Int
      BY WindowsAssumption DEF Minute, Hour, Day
    <3>2. QED
      BY <1>5, <3>1 DEF Date
  <2>6. Date(b, 0) # Date(a, 0)
    BY <2>5
  <2>7. QED
    BY <1>1, <1>7, <1>8, <2>3, <2>4, <2>5, <2>6 DEF Follows
<1>11. QED
  BY <1>9, <1>10

-----------------------------------------------------------------------------
(* The list of the months and the one of the weeks *)

\* Where the month that begins on a first day is kept, from 2018 on.
LEMMA MonthSlot ==
  ASSUME NEW y \in Int, NEW m \in 1 .. 12, 0 <= FirstOf(y, m),
         NEW ts \in Int, ts = Date(FirstOf(y, m), 0), ts >= Date(NewYear(2018), 0)
  PROVE  LET slot == Slot(ts, "1mon")
         IN  slot.table = Date(NewYear(2018), 0) /\ slot.off = (y - 2022) * 12 + m - 1
<1>0. Zone \in Int /\ Day = 86400 /\ Hour = 3600
  BY WindowsAssumption DEF Minute, Hour, Day
<1>1. PICK f, g \in Int : f = FirstOf(y, m) /\ g = FirstOf(y, m + 1) /\ 0 <= f /\ f < g
  <2>1. m \in 1 .. 13 /\ m + 1 \in 1 .. 13
    OBVIOUS
  <2>2. /\ \A x \in 1 .. 13 : FirstOf(y, x) \in Int
        /\ \A x \in 1 .. 12 : FirstOf(y, x) + 28 <= FirstOf(y, x + 1)
    BY MonthsFill
  <2>3. FirstOf(y, m) \in Int /\ FirstOf(y, m + 1) \in Int /\ FirstOf(y, m) + 28 <= FirstOf(y, m + 1)
    BY <2>1, <2>2
  <2>4. QED
    BY <2>3
<1>2. ts = f * Day + 0 * Hour - Zone
  BY <1>1 DEF Date
<1>3. f * Day <= ts + Zone /\ ts + Zone < g * Day
  BY <1>0, <1>1, <1>2
<1>4. YearOf(DayOf(ts)) = y /\ MonthOf(DayOf(ts)) = m
  BY <1>1, <1>3, MonthWindow
<1>5. Date(NewYear(2018), 0) \in Int
  <2>1. NewYear(2018) \in Int
    BY YearLength
  <2>2. QED
    BY <1>0, <2>1 DEF Date
<1>6. ~(ts < Date(NewYear(2018), 0))
  BY <1>5
<1>7. Slot(ts, "1mon") = OnlyList((y - 2022) * 12 + m - 1, 60)
  <2>1. Slot(ts, "1mon") = OnlyList(IF ts < Date(NewYear(2018), 0) THEN 0
                                    ELSE (YearOf(DayOf(ts)) - 2022) * 12 + MonthOf(DayOf(ts)) - 1, 60)
    BY KindsApart DEF Slot, HourKinds
  <2>2. QED
    BY <1>4, <1>6, <2>1
<1>8. QED
  BY <1>7 DEF OnlyList

\* The months go from place to place.
LEMMA MonthFollows ==
  ASSUME NEW ts \in Int, ts + Zone >= 0, CurWindowTime(ts, "1mon") >= Date(NewYear(2018), 0)
  PROVE  Follows(Slot(NextKlineTimeWindow(ts, "1mon"), "1mon"), Slot(CurWindowTime(ts, "1mon"), "1mon"))
<1>0. Zone \in Int /\ Day = 86400 /\ Hour = 3600
  BY WindowsAssumption DEF Minute, Hour, Day
<1>1. PICK y, z \in Int : \E m, n \in 1 .. 12 :
        /\ 0 <= FirstOf(y, m) /\ FirstOf(y, m) < FirstOf(y, m + 1)
        /\ FirstOf(y, m) * Day <= ts + Zone /\ ts + Zone < FirstOf(y, m + 1) * Day
        /\ FirstOf(z, n) = FirstOf(y, m + 1) /\ FirstOf(z, n) < FirstOf(z, n + 1)
        /\ z * 12 + n = y * 12 + m + 1
        /\ FirstOf(y, m) \in Int /\ FirstOf(y, m + 1) \in Int /\ FirstOf(z, n + 1) \in Int
  BY MonthsNext
<1>2. PICK m, n \in 1 .. 12 :
        /\ 0 <= FirstOf(y, m) /\ FirstOf(y, m) < FirstOf(y, m + 1)
        /\ FirstOf(y, m) * Day <= ts + Zone /\ ts + Zone < FirstOf(y, m + 1) * Day
        /\ FirstOf(z, n) = FirstOf(y, m + 1) /\ FirstOf(z, n) < FirstOf(z, n + 1)
        /\ z * 12 + n = y * 12 + m + 1
        /\ FirstOf(y, m) \in Int /\ FirstOf(y, m + 1) \in Int /\ FirstOf(z, n + 1) \in Int
  BY <1>1
<1>3. /\ CurWindowTime(ts, "1mon") = Date(FirstOf(y, m), 0)
      /\ NextKlineTimeWindow(ts, "1mon") = Date(FirstOf(z, n), 0)
  BY <1>2, MonthWindow
<1>4. PICK start, next \in Int :
        /\ start = Date(FirstOf(y, m), 0) /\ next = Date(FirstOf(z, n), 0) /\ start < next
  BY <1>0, <1>2 DEF Date
<1>5. start >= Date(NewYear(2018), 0) /\ Date(NewYear(2018), 0) \in Int
  <2>1. NewYear(2018) \in Int
    BY YearLength
  <2>2. QED
    BY <1>0, <1>3, <1>4, <2>1 DEF Date
<1>6. next >= Date(NewYear(2018), 0)
  BY <1>4, <1>5
<1>7. LET here == Slot(start, "1mon")
      IN  here.table = Date(NewYear(2018), 0) /\ here.off = (y - 2022) * 12 + m - 1
  BY <1>2, <1>4, <1>5, MonthSlot
<1>8. LET there == Slot(next, "1mon")
      IN  there.table = Date(NewYear(2018), 0) /\ there.off = (z - 2022) * 12 + n - 1
  <2>1. 0 <= FirstOf(z, n)
    BY <1>2
  <2>2. QED
    BY <1>4, <1>6, <2>1, MonthSlot
<1>9. (z - 2022) * 12 + n - 1 = ((y - 2022) * 12 + m - 1) + 1
  BY <1>2
<1>10. QED
  BY <1>3, <1>4, <1>7, <1>8, <1>9 DEF Follows

\* YearsAfter2022 adds up the lengths of the years from 2022 on: the days
\* between two first of January.
LEMMA YearsCounted ==
  \A y \in Nat : y >= 2022 => YearsAfter2022[y] = NewYear(y) - NewYear(2022)
<1> DEFINE Body(f) == [year \in Nat |->
                IF year <= 2022 THEN 0
                ELSE f[year - 1] + (IF isLeapYear(year - 1) THEN 366 ELSE 365)]
           F == [year \in Nat |-> IF year <= 2022 THEN 0 ELSE NewYear(year) - NewYear(2022)]
<1>0. \A x \in Int : NewYear(x) \in Int
  BY YearLength
<1>1. F = Body(F)
  <2>1. ASSUME NEW year \in Nat PROVE F[year] = Body(F)[year]
    <3>1. CASE year <= 2022
      BY <3>1
    <3>2. CASE year > 2022
      <4>1. year - 1 \in Nat /\ 2022 <= year - 1 /\ (year - 1) + 1 = year
        BY <3>2
      <4>2. F[year - 1] = NewYear(year - 1) - NewYear(2022)
        <5>1. CASE year - 1 = 2022
          BY <1>0, <4>1, <5>1
        <5>2. CASE year - 1 # 2022
          BY <4>1, <5>2
        <5>3. QED
          BY <5>1, <5>2
      <4>3. NewYear(year) = NewYear(year - 1) + (IF isLeapYear(year - 1) THEN 366 ELSE 365)
        BY <4>1, YearLength
      <4>4. F[year] = NewYear(year) - NewYear(2022)
        BY <3>2
      <4>5. Body(F)[year] = F[year - 1] + (IF isLeapYear(year - 1) THEN 366 ELSE 365)
        BY <3>2
      <4> HIDE DEF F, Body
      <4>6. NewYear(year) \in Int /\ NewYear(year - 1) \in Int /\ NewYear(2022) \in Int
        BY <1>0, <4>1
      <4>7. QED
        BY <4>2, <4>3, <4>4, <4>5, <4>6
    <3>3. QED
      BY <3>1, <3>2
  <2>2. QED
    BY <2>1
<1>2. YearsAfter2022 = Body(YearsAfter2022)
  <2>1. YearsAfter2022 = CHOOSE f : f = Body(f)
    BY DEF YearsAfter2022
  <2> HIDE DEF F, Body
  <2>2. \E f : f = Body(f)
    BY <1>1
  <2>3. QED
    BY <2>1, <2>2
<1> DEFINE A == YearsAfter2022
<1>3. ASSUME NEW x \in Nat
      PROVE  A[x] = IF x <= 2022 THEN 0
                    ELSE A[x - 1] + (IF isLeapYear(x - 1) THEN 366 ELSE 365)
  BY <1>2
<1> HIDE DEF F, Body, A
<1> DEFINE S == {x \in Nat : x >= 2022 /\ A[x] # NewYear(x) - NewYear(2022)}
<1>4. CASE S = {}
  BY <1>4 DEF A
<1>5. CASE S # {}
  <2>1. PICK x \in S : \A k \in S : x <= k
    <3>1. S \subseteq Nat
      OBVIOUS
    <3> HIDE DEF S
    <3>2. QED
      BY <1>5, <3>1, LeastNumber
  <2>2. x \in Nat /\ x >= 2022 /\ A[x] # NewYear(x) - NewYear(2022)
    BY <2>1
  <2>3. CASE x = 2022
    <3>1. A[x] = 0
      BY <1>3, <2>2, <2>3
    <3>2. QED
      BY <1>0, <2>2, <2>3, <3>1
  <2>4. CASE x # 2022
    <3>1. x - 1 \in Nat /\ x - 1 >= 2022 /\ (x - 1) + 1 = x /\ ~(x <= x - 1) /\ ~(x <= 2022)
      BY <2>2, <2>4
    <3>2. A[x - 1] = NewYear(x - 1) - NewYear(2022)
      BY <2>1, <3>1
    <3>3. NewYear(x) = NewYear(x - 1) + (IF isLeapYear(x - 1) THEN 366 ELSE 365)
      BY <3>1, YearLength
    <3>4. A[x] = A[x - 1] + (IF isLeapYear(x - 1) THEN 366 ELSE 365)
      BY <1>3, <2>2, <3>1
    <3>5. NewYear(x) \in Int /\ NewYear(x - 1) \in Int /\ NewYear(2022) \in Int
      BY <1>0, <2>2, <3>1
    <3>6. QED
      BY <2>2, <3>2, <3>3, <3>4, <3>5
  <2>5. QED
    BY <2>3, <2>4
<1>6. QED
  BY <1>4, <1>5

\* Days are counted from the first of January 2022, which is day 1.
LEMMA DaysCounted ==
  ASSUME NEW day \in Nat, NewYear(2022) <= day
  PROVE  DaysAfter2022(day) = day - NewYear(2022) + 1
<1>1. PICK y \in Nat : y = YearOf(day) /\ NewYear(y) <= day /\ day < NewYear(y + 1)
  BY YearFound
<1>2. NewYear(y) \in Int /\ NewYear(2022) \in Int /\ NewYear(y + 1) \in Int
  BY YearLength
<1>3. y >= 2022
  <2> SUFFICES ASSUME y + 1 <= 2022 PROVE FALSE
    BY <1>1
  <2>1. NewYear(y + 1) + 365 * (2022 - (y + 1)) <= NewYear(2022)
    BY YearsGrow
  <2>2. QED
    BY <1>1, <1>2, <2>1
<1>4. YearsAfter2022[y] = NewYear(y) - NewYear(2022)
  BY <1>3, YearsCounted
<1>5. DaysAfter2022(day) = (day - NewYear(y) + 1) + YearsAfter2022[y]
  BY <1>1 DEF DaysAfter2022, YearDay
<1>6. QED
  BY <1>2, <1>4, <1>5

\* Where the week that begins on a day is kept, from 2022 on.
LEMMA WeekSlot ==
  ASSUME NEW day \in Nat, NewYear(2022) <= day
  PROVE  LET slot == Slot(Date(day, 0), "1week")
         IN  /\ slot.table = Date(NewYear(2018), 0)
             /\ slot.off = (day - NewYear(2022) + 1) \div 7
<1>1. DayOf(Date(day, 0)) = day
  <2>1. Zone \in Int /\ Day = 86400 /\ Hour = 3600
    BY WindowsAssumption DEF Minute, Hour, Day
  <2>2. (Date(day, 0) + Zone) \div 86400 = day
    BY <2>1 DEF Date
  <2>3. QED
    BY <2>1, <2>2 DEF DayOf
<1>2. DaysAfter2022(day) = day - NewYear(2022) + 1
  BY DaysCounted
<1>3. Slot(Date(day, 0), "1week") = OnlyList(DaysAfter2022(DayOf(Date(day, 0))) \div 7, 52 * 5)
  BY KindsApart DEF Slot, HourKinds
<1>4. QED
  BY <1>1, <1>2, <1>3 DEF OnlyList

\* The weeks go from place to place.
LEMMA WeekFollows ==
  ASSUME NEW ts \in Int, ts + Zone >= 0, CurWindowTime(ts, "1week") >= Date(NewYear(2022), 0)
  PROVE  Follows(Slot(NextKlineTimeWindow(ts, "1week"), "1week"),
                 Slot(CurWindowTime(ts, "1week"), "1week"))
<1>0. Zone \in Int /\ Day = 86400 /\ Hour = 3600
  BY WindowsAssumption DEF Minute, Hour, Day
<1>1. PICK n \in Int : n = NewYear(2022) /\ n >= 0
  <2>1. NewYear(2022) = 18993
    BY DEF NewYear
  <2>2. QED
    BY <2>1
<1>2. "1week" \in CutKinds /\ Length("1week") = 7 * Day /\ Origin("1week") = Zone + 3 * Day
  BY KindsApart DEF CutKinds, Kinds, Length, Origin
<1>3. PICK q \in Int : /\ CurWindowTime(ts, "1week") = q * 604800 - (Zone + 259200)
                       /\ NextKlineTimeWindow(ts, "1week") = q * 604800 - (Zone + 259200) + 604800
  <2>1. CurWindowTime(ts, "1week") = Cut(ts, 604800, Zone + 259200)
    BY <1>0, <1>2, CurIsCut
  <2>2. NextKlineTimeWindow(ts, "1week") = CurWindowTime(ts, "1week") + 604800
    BY <1>0, <1>2, NextIsCut
  <2>3. (ts + (Zone + 259200)) \div 604800 \in Int
    BY <1>0
  <2>4. QED
    BY <2>1, <2>2, <2>3 DEF Cut
<1>4. PICK day \in Int : day = 7 * q - 3
  OBVIOUS
<1>5. /\ Date(day, 0) = CurWindowTime(ts, "1week")
      /\ Date(day + 7, 0) = NextKlineTimeWindow(ts, "1week")
      /\ Date(n, 0) = n * 86400 - Zone
  BY <1>0, <1>1, <1>3, <1>4 DEF Date
<1>6. day >= n
  BY <1>0, <1>1, <1>3, <1>4, <1>5
<1>7. LET here == Slot(Date(day, 0), "1week")
      IN  here.table = Date(NewYear(2018), 0) /\ here.off = (day - n + 1) \div 7
  <2>1. day \in Nat
    BY <1>1, <1>6
  <2>2. QED
    BY <1>1, <1>6, <2>1, WeekSlot
<1>8. LET there == Slot(Date(day + 7, 0), "1week")
      IN  there.table = Date(NewYear(2018), 0) /\ there.off = (day + 7 - n + 1) \div 7
  <2>1. day + 7 \in Nat /\ n <= day + 7
    BY <1>1, <1>6
  <2>2. QED
    BY <1>1, <2>1, WeekSlot
<1>9. (day + 7 - n + 1) \div 7 = (day - n + 1) \div 7 + 1
  OBVIOUS
<1>10. QED
  BY <1>5, <1>7, <1>8, <1>9 DEF Follows

-----------------------------------------------------------------------------
(* Places *)

\* The lists of weeks and months count their places from 2022: their walks
\* start then or later.
WalksFrom2022 ==
  \A w \in Walks : w[1] \in {"1week", "1mon"} => CurWindowTime(w[2], w[1]) >= Date(NewYear(2022), 0)

\* So do all the windows walked through.
From2022 == kind \in {"1week", "1mon"} => CurWindowTime(now, kind) >= Date(NewYear(2022), 0)

\* It holds at the beginning.
LEMMA FromInit ==
  ASSUME WalksFrom2022
  PROVE  Init => From2022
BY WindowsAssumption DEF Init, WalksFrom2022, From2022

\* Every step goes on to a later window.
LEMMA FromNext == WindowInv /\ From2022 /\ [Next]_vars => From2022'
<1> SUFFICES ASSUME WindowInv, From2022, [Next]_vars
             PROVE  From2022'
  OBVIOUS
<1>1. CASE UNCHANGED vars
  BY <1>1 DEF vars, From2022
<1>2. CASE Walk
  <2>1. PICK k \in Kinds : k = kind
    BY DEF WindowInv
  <2>2. PICK ts, next, start \in Int :
          /\ ts = now /\ ts + Zone >= 0
          /\ start = CurWindowTime(ts, k) /\ next = NextKlineTimeWindow(ts, k)
          /\ start <= ts /\ ts < next /\ CurWindowTime(next, k) = next
    BY <2>1, Tiles DEF WindowInv
  <2>3. kind' = k /\ now' = next
    BY <1>2, <2>1, <2>2 DEF Walk
  <2>4. Date(NewYear(2022), 0) \in Int
    <3>1. NewYear(2022) \in Int /\ Zone \in Int
      BY WindowsAssumption, YearLength
    <3>2. QED
      BY <3>1 DEF Date, Day, Hour, Minute
  <2>5. k \in {"1week", "1mon"} => start >= Date(NewYear(2022), 0)
    BY <2>1, <2>2 DEF From2022
  <2>6. k \in {"1week", "1mon"} => next >= Date(NewYear(2022), 0)
    BY <2>2, <2>4, <2>5
  <2>7. QED
    BY <2>2, <2>3, <2>6 DEF From2022
<1>3. QED
  BY <1>1, <1>2 DEF Next

\* A step goes to the place after the one the kline had.
LEMMA StepFollows ==
  ASSUME WindowInv, From2022, Walk
  PROVE  Follows(Slot(now', kind), Slot(CurWindowTime(now, kind), kind))
<1>1. now' = NextKlineTimeWindow(now, kind)
  BY DEF Walk
<1>2. PICK k \in Kinds, ts \in Int : k = kind /\ ts = now /\ ts + Zone >= 0
  BY DEF WindowInv
<1>3. k \in {"1week", "1mon"} => CurWindowTime(ts, k) >= Date(NewYear(2022), 0)
  BY <1>2 DEF From2022
<1>4. Follows(Slot(NextKlineTimeWindow(ts, k), k), Slot(CurWindowTime(ts, k), k))
  <2>1. CASE k \in YearlyKinds
    BY <1>2, <2>1, YearlyFollows
  <2>2. CASE k = "1week"
    BY <1>2, <1>3, <2>2, WeekFollows
  <2>3. CASE k = "1mon"
    <3>1. Date(NewYear(2018), 0) \in Int /\ Date(NewYear(2018), 0) <= Date(NewYear(2022), 0)
      <4>1. NewYear(2018) = 17532 /\ NewYear(2022) = 18993 /\ Zone \in Int
        BY WindowsAssumption DEF NewYear
      <4>2. QED
        BY <4>1 DEF Date, Day, Hour, Minute
    <3>2. CurWindowTime(ts, "1mon") \in Int /\ Date(NewYear(2022), 0) \in Int
      <4>1. CurWindowTime(ts, k) \in Int
        BY <1>2, Tiles
      <4>2. NewYear(2022) = 18993 /\ Zone \in Int
        BY WindowsAssumption DEF NewYear
      <4>3. QED
        BY <2>3, <4>1, <4>2 DEF Date, Day, Hour, Minute
    <3>3. CurWindowTime(ts, "1mon") >= Date(NewYear(2018), 0)
      BY <1>3, <2>3, <3>1, <3>2
    <3>4. QED
      BY <1>2, <2>3, <3>3, MonthFollows
  <2>4. QED
    BY <2>1, <2>2, <2>3 DEF YearlyKinds, Kinds
<1>5. QED
  BY <1>1, <1>2, <1>4

\* The place of a kline is one of its list, for the kinds whose lists are split
\* by year, in leap years too; the weeks' list of five years is a place short.
THEOREM YearlySlotsFit == Spec => [](kind \in YearlyKinds => SlotFits)
<1>1. WindowInv => (kind \in YearlyKinds => SlotFits)
  BY YearlyFits DEF WindowInv, SlotFits
<1>2. QED
  BY <1>1, WindowInit, WindowNext, PTL DEF Spec

\* From each window to the next, a kline's place is the next one in its list,
\* or the first one of the list of the next year after the last one of its own:
\* no place is skipped or taken twice (GetListTsOffLen), for every location with
\* a fixed offset and any walk, if weeks and months start in 2022, from where
\* their places are counted.
THEOREM SlotsInOrder ==
  ASSUME WalksFrom2022
  PROVE  Spec => SlotsFollow
<1>1. WindowInv /\ From2022 /\ [Next]_vars
        => [Follows(Slot(now', kind), Slot(CurWindowTime(now, kind), kind))]_vars
  BY StepFollows DEF Next
<1>2. Init => WindowInv /\ From2022
  BY WindowInit, FromInit
<1>3. WindowInv /\ From2022 /\ [Next]_vars => (WindowInv /\ From2022)'
  BY WindowNext, FromNext
<1>4. QED
  BY <1>1, <1>2, <1>3, PTL DEF Spec, SlotsFollow

=============================================================================
