------------------------------- MODULE Windows -------------------------------
(* Kline windows and the Redis lists they are stored in (common/time.go).    *)
(*                                                                           *)
(* An instant is a number of seconds, as in the code.  The calendar is the   *)
(* one of a location with a fixed offset, as the default Asia/Shanghai is;   *)
(* dates are day numbers, so that time.Date of a day and an hour beyond the  *)
(* day's end is plain addition.                                              *)
(*                                                                           *)
(* The specification walks along a kind's windows, each found from the one   *)
(* before, as getCurrentKline and the snapshots do.                          *)
EXTENDS Integers

CONSTANTS
    Zone,     \* offset of common.Location, in seconds
    Walks     \* triples: a kind, the instant a walk starts at, how many
              \* windows it takes

VARIABLES
    kind,     \* kind of kline whose windows are walked through
    now,      \* an instant
    left      \* windows still to walk through

vars == <<kind, now, left>>

Minute == 60
Hour   == 60 * Minute
Day    == 24 * Hour

MinuteKinds == {"1min", "3min", "5min", "15min", "30min"}
HourKinds   == {"60min", "2hour", "4hour", "6hour", "8hour", "12hour"}

\* Length of a window, in minutes and in hours.
Minutes == [k \in MinuteKinds |->
    CASE k = "1min" -> 1 [] k = "3min" -> 3 [] k = "5min" -> 5
      [] k = "15min" -> 15 [] k = "30min" -> 30]
Hours == [k \in HourKinds |->
    CASE k = "60min" -> 1 [] k = "2hour" -> 2 [] k = "4hour" -> 4
      [] k = "6hour" -> 6 [] k = "8hour" -> 8 [] k = "12hour" -> 12]

Kinds == MinuteKinds \union HourKinds \union {"1day", "1week", "1mon"}

ASSUME WindowsAssumption ==
    /\ Zone \in Int /\ (Zone % (30 * Minute)) = 0
    /\ Walks \subseteq Kinds \X Nat \X Nat
    /\ \A w \in Walks : w[2] + Zone >= 0  \* in 1970 or later there, too

-----------------------------------------------------------------------------
(* The calendar (package time). *)

DayOf(ts)  == (ts + Zone) \div Day
HourOf(ts) == ((ts + Zone) % Day) \div Hour

\* time.Date(year, month, day, hour, ...).Unix() of a day number.
Date(day, hour) == day * Day + hour * Hour - Zone

\* time.Weekday of a day number, from Monday = 0; day 0 was a Thursday.
Weekday(day) == (day + 3) % 7

isLeapYear(year) == (year % 400) = 0 \/ ((year % 4) = 0 /\ (year % 100) # 0)

\* Day number of the first of January.
NewYear(year) ==
    LET y == year - 1
    IN  365 * (year - 1970) + (y \div 4) - (y \div 100) + (y \div 400) - 477

\* From 1970 on: no year has more than 366 days, none less than 365.
YearOf(day) ==
    CHOOSE y \in 1970 + day \div 366 .. 1970 + day \div 365 :
        NewYear(y) <= day /\ day < NewYear(y + 1)
YearDay(day) == day - NewYear(YearOf(day)) + 1

\* Days of an ordinary year before a month.
daysBefore == <<0, 31, 59, 90, 120, 151, 181, 212, 243, 273, 304, 334, 365>>

\* Day number of the first of a month; the month after December is January.
FirstOf(year, month) ==
    NewYear(year) + daysBefore[month] + (IF month > 2 /\ isLeapYear(year) THEN 1 ELSE 0)

MonthOf(day) ==
    LET y == YearOf(day)
    IN  CHOOSE m \in 1 .. 12 : FirstOf(y, m) <= day /\ day < FirstOf(y, m + 1)

-----------------------------------------------------------------------------
(* Windows. *)

\* Slip: the week is counted from Sunday.
WeekFromSunday(day) == day - ((Weekday(day) + 1) % 7)

\* The Monday of the week: back one day at a time.
Monday(day) == day - Weekday(day)

CurWindowTime(ts, k) ==
    CASE k \in MinuteKinds -> (ts \div (Minutes[k] * Minute)) * Minutes[k] * Minute
      [] k \in HourKinds   -> Date(DayOf(ts), (HourOf(ts) \div Hours[k]) * Hours[k])
      [] k = "1day"        -> Date(DayOf(ts), 0)
      [] k = "1week"       -> Date(Monday(DayOf(ts)), 0)
      [] k = "1mon"        -> Date(FirstOf(YearOf(DayOf(ts)), MonthOf(DayOf(ts))), 0)
      [] k = "1year"       -> Date(NewYear(YearOf(DayOf(ts))), 0)

NextKlineTimeWindow(ts, k) ==
    LET start == CurWindowTime(ts, k)
        day == DayOf(start)
    IN  CASE k \in MinuteKinds -> start + Minutes[k] * Minute
          [] k = "60min"       -> start + Hour
          [] k \in HourKinds \ {"60min"} ->
                 Date(day, (HourOf(start) \div Hours[k] + 1) * Hours[k])
          [] k = "1day"        -> Date(day + 1, 0)
          [] k = "1week"       -> Date(day + 7 - Weekday(day), 0)
          [] k = "1mon"        -> Date(FirstOf(YearOf(day), MonthOf(day) + 1), 0)

-----------------------------------------------------------------------------
(* GetListTsOffLen: the list a kline is stored in (named by the instant it   *)
(* starts at), the kline's place in it, and the list's length.               *)

\* Days of the years from 2022 on that are before a year.
YearsAfter2022[year \in Nat] ==
    IF year <= 2022 THEN 0
    ELSE YearsAfter2022[year - 1] + (IF isLeapYear(year - 1) THEN 366 ELSE 365)

\* Days up to an instant, counted from the first day of 2022.
DaysAfter2022(day) == YearDay(day) + YearsAfter2022[YearOf(day)]

\* Slip: places counted from 1, as the days of the year are.
PlaceFromOne(day) == YearDay(day)

\* Places of a list are counted from 0, days of the year from 1.
PlaceOfDay(day) == YearDay(day) - 1

\* One list a year.
YearlyList(ts, off, length) ==
    LET year == YearOf(DayOf(ts))
    IN  [table |-> Date(NewYear(year), 0),
         off |-> off,
         len |-> ((NewYear(year + 1) - NewYear(year)) * Day) \div length]

\* One list from 2018 on, its places counted from 2022.
OnlyList(off, len) == [table |-> Date(NewYear(2018), 0), off |-> off, len |-> len]

Slot(ts, k) ==
    LET day == DayOf(ts)
        sinceNewYear == ts - CurWindowTime(ts, "1year")
    IN  CASE k \in MinuteKinds ->
                 YearlyList(ts, sinceNewYear \div (Minutes[k] * Minute), Minutes[k] * Minute)
          [] k = "60min"     -> YearlyList(ts, sinceNewYear \div Hour, Hour)
          [] k \in HourKinds \ {"60min"} ->
                 YearlyList(ts, PlaceOfDay(day) * (24 \div Hours[k]) + HourOf(ts) \div Hours[k],
                            Hours[k] * Hour)
          [] k = "1day"      -> YearlyList(ts, PlaceOfDay(day), Day)
          [] k = "1week"     -> OnlyList(DaysAfter2022(day) \div 7, 52 * 5)
          [] k = "1mon"      ->
                 OnlyList(IF ts < Date(NewYear(2018), 0) THEN 0
                          ELSE (YearOf(day) - 2022) * 12 + MonthOf(day) - 1, 60)

-----------------------------------------------------------------------------
Init ==
    \E w \in Walks : kind = w[1] /\ now = w[2] /\ left = w[3]

Walk ==
    /\ left > 0
    /\ now' = NextKlineTimeWindow(now, kind)
    /\ left' = left - 1
    /\ UNCHANGED kind

Next == Walk

Spec == Init /\ [][Next]_vars

WindowsTypeOK ==
    /\ kind \in Kinds
    /\ now \in Nat
    /\ left \in Nat

(* Properties. *)

\* The windows of a kind cover time without a gap or an overlap: an instant
\* lies in its window, a window's start and its last second belong to it, and
\* the next window starts where this one ends (CurWindowTime and
\* NextKlineTimeWindow, which compute the two ends apart).
WindowsTile ==
    LET start == CurWindowTime(now, kind)
        next == NextKlineTimeWindow(now, kind)
    IN  /\ start <= now /\ now < next
        /\ CurWindowTime(start, kind) = start
        /\ CurWindowTime(next - 1, kind) = start
        /\ CurWindowTime(next, kind) = next
        /\ NextKlineTimeWindow(start, kind) = next

\* Place there comes right after place here.
Follows(there, here) ==
    IF there.table = here.table
    THEN there.off = here.off + 1
    ELSE /\ there.off = 0 /\ here.off = here.len - 1
         /\ there.table > here.table

\* Consecutive windows take consecutive places of a list; a list ends with the
\* last window of its year and the next one starts with the first, so no two
\* klines of a kind share a place and none is left empty (GetListTsOffLen over
\* leap years, year ends and the weeks that straddle them).
SlotsFollow ==
    [][Follows(Slot(now', kind), Slot(CurWindowTime(now, kind), kind))]_vars

\* "off" is a place of the list: common/time.go:226-227 describes it as the
\* place, from 0, in a list of which listLen is the length; the lists that are
\* not split by year hold five years from 2022 (time.go:231, l2quote/kline.go:311).
SlotFits ==
    LET slot == Slot(CurWindowTime(now, kind), kind)
    IN  0 <= slot.off /\ slot.off < slot.len
=============================================================================
