------------------------------ MODULE MCWindows ------------------------------
(* Walks over the days where the calendar is hard: the ends of ordinary and  *)
(* leap years, the end of February, weeks that straddle a year.              *)
EXTENDS Windows

Shanghai == 8 * Hour

\* An instant of a day, late enough for the next windows to start on the next.
Evening(year, month, day) ==
    (FirstOf(year, month) + day - 1) * Day + 23 * Hour + 41 * Minute + 7 - Shanghai

Evenings == {Evening(2022, 12, 31), Evening(2024, 2, 28), Evening(2024, 2, 29),
             Evening(2024, 12, 31), Evening(2027, 12, 31)}

\* Short kinds from those evenings on, long ones over the leap years 2024 and
\* 2028.
CalendarWalks ==
    {<<k, t, 30>> : k \in MinuteKinds \union HourKinds, t \in Evenings}
      \union {<<"12hour", Evening(2022, 1, 1), 1500>>,
              <<"1day", Evening(2022, 1, 1), 2600>>,
              <<"1week", Evening(2022, 1, 3), 400>>,
              <<"1mon", Evening(2022, 1, 1), 100>>}

\* The five years the lists that are not split are meant for, 2022 to 2026:
\* the last week starts on 28 December 2026.
FiveYears ==
    {<<"1week", Evening(2022, 1, 3), 260>>, <<"1mon", Evening(2022, 1, 1), 59>>,
     <<"1day", Evening(2022, 1, 1), 5 * 365>>}
=============================================================================
