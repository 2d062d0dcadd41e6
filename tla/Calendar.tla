------------------------------ MODULE Calendar ------------------------------
(***************************************************************************)
(* The calendar of time/time.c: gmtime_r(), timegm(), the rules of a time  *)
(* zone, localtime_r(), mktime() and the ISO week of strftime().           *)
(*                                                                         *)
(* A time_t counts hours here, not seconds.  A clerk walks from year to    *)
(* year and knows of a year only its number, the day it begins on and      *)
(* whether it is a leap year; the properties compare what the functions    *)
(* compute from nothing with what the clerk has counted.                   *)
(***************************************************************************)
EXTENDS Integers, FiniteSets, FiniteSetsExt

CONSTANTS
    FirstYear, LastYear,
    SomeDays,       \* days of the year looked at in every year
    Zones           \* see Rule

VARIABLES
    year,
    firstDay        \* days from the Epoch to January 1st of the year

vars == <<year, firstDay>>

\* Division and remainder of C
Div(a, b) == IF a >= 0 THEN a \div b ELSE -((-a) \div b)
Rem(a, b) == a - b * Div(a, b)

Hours == 24

-----------------------------------------------------------------------------
(* isleap(), leapcount(), daysofmonth(); months and days of the year from 0 *)

isleap(y) == Rem(y, 400) = 0 \/ (Rem(y, 4) = 0 /\ Rem(y, 100) # 0)

\* Leap days between 1970 and the beginning of the year
leapcount(y) ==
    LET from == y - 2001
        periods == IF from < 0 THEN Div(from - 399, 400) ELSE 0
        after == from - periods * 400
    IN  8 + periods * 97 + Div(after, 400) - Div(after, 100) + Div(after, 4)

daysofmonth(month, leap) ==
    CASE month = 1 -> IF leap THEN 29 ELSE 28
      [] month \in {3, 5, 8, 10} -> 30
      [] OTHER -> 31

daysBefore(month, leap) == MapThenSumSet(LAMBDA m : daysofmonth(m, leap), 0 .. month - 1)

\* Mutant: a day 0 goes on to the smaller periods
Period_NoBreak(s, days, years, leap) ==
    LET rest == s.days % days
    IN  [days |-> rest, year |-> s.year + years * (s.days \div days),
         leapDay |-> leap, done |-> FALSE]

\* One period of epochDaysToYears(): day 0 is the day before March 1st
Period(s, days, years, leap) ==
    IF s.done THEN s
    ELSE LET rest == s.days % days
         IN  [days |-> rest, year |-> s.year + years * (s.days \div days),
              leapDay |-> leap, done |-> rest = 0]

\* January and February belong to the year that began in March before them
FromMarch(s) ==
    CASE s.days >= 307 -> [year |-> s.year + 1, yday |-> s.days - 307]
      [] s.days = 0 -> [year |-> s.year, yday |-> 58 + s.leapDay]
      [] OTHER -> [year |-> s.year, yday |-> s.days + (IF isleap(s.year) THEN 59 ELSE 58)]

\* The year and the day of the year of a day counted from the Epoch
Quadricentury(days) ==
    Period([days |-> days - 11016, year |-> 2000, leapDay |-> 0, done |-> FALSE], 146097, 400, 1)
epochDaysToYears(days) ==
    FromMarch(Period(Period(Period(Quadricentury(days), 36524, 100, 0), 1461, 4, 1), 365, 1, 0))

MonthOf(d, leap) ==
    CHOOSE m \in 0..11 : daysBefore(m, leap) <= d.yday /\ d.yday < daysBefore(m + 1, leap)
Fields(t, d, mon) ==
    [year |-> d.year, mon |-> mon, mday |-> d.yday - daysBefore(mon, isleap(d.year)) + 1,
     hour |-> t % Hours, wday |-> (t \div Hours + 4) % 7, yday |-> d.yday, isdst |-> 0]
OfDay(t, d) == Fields(t, d, MonthOf(d, isleap(d.year)))
gmtime(t) == OfDay(t, epochDaysToYears(t \div Hours))

\* _mktimeSkel(): the fields need not be in their ranges
mktimeSkel(tm) ==
    LET mon == Rem(tm.mon, 12)
        month == IF mon < 0 THEN mon + 12 ELSE mon
        y == tm.year + Div(tm.mon, 12) - (IF mon < 0 THEN 1 ELSE 0)
    IN  Hours * ((y - 1970) * 365 + leapcount(y) + daysBefore(month, isleap(y)) + tm.mday - 1)
          + tm.hour

-----------------------------------------------------------------------------
(* Time zones: the offsets of standard and of DST in hours east, and the   *)
(* changes to DST and back, each a Rule: "jday" or "yday" and a day, or    *)
(* "mweek", a weekday, a week and a month (from 1), with the local hour.   *)

yearDays(y) == (y - 1970) * 365 + leapcount(y)

ruleYday(r, y) ==
    CASE r.type = "jday" -> r.day - 1 + (IF isleap(y) /\ r.day >= 60 THEN 1 ELSE 0)
      [] r.type = "yday" -> r.day
      [] r.type = "mweek" ->
           LET yday == daysBefore(r.month - 1, isleap(y))
               wday == (yearDays(y) + yday + 4) % 7
               mday == ((r.day - wday + 7) % 7) + (r.week - 1) * 7
               long == daysofmonth(r.month - 1, isleap(y))
           IN  yday + (IF mday >= long THEN mday - 7 ELSE mday)

change(r, y, offset) == (yearDays(y) + ruleYday(r, y)) * Hours + r.time - offset

isdst(z, t) ==
    LET y == epochDaysToYears(t \div Hours).year
        start == change(z.rule[0], y, z.offset[0])
        end == change(z.rule[1], y, z.offset[1])
    IN  IF start > end THEN t < end \/ t >= start ELSE t >= start /\ t < end

WithDst(z, t, dst) == [gmtime(t + z.offset[dst]) EXCEPT !.isdst = dst]
localtime(z, t) == WithDst(z, t, IF isdst(z, t) THEN 1 ELSE 0)

\* Which of the two times the caller means, the one in standard time or in DST
Either(z, isDst, tstd, tdst) ==
    CASE isDst > 0 -> tdst
      [] isDst = 0 -> tstd
      [] OTHER -> IF ~ isdst(z, tstd)
                    THEN IF isdst(z, tdst) /\ tdst < tstd THEN tdst ELSE tstd
                    ELSE IF isdst(z, tdst) THEN tdst ELSE tstd
mktime(z, tm) ==
    Either(z, tm.isdst, mktimeSkel(tm) - z.offset[0], mktimeSkel(tm) - z.offset[1])

-----------------------------------------------------------------------------
(* strftime(): %G and %V *)

weeksInYear(y) ==
    LET p(n) == Rem(n + Div(n, 4) - Div(n, 100) + Div(n, 400), 7)
    IN  IF p(y) = 4 \/ p(y - 1) = 3 THEN 53 ELSE 52

isoWeek(tm) ==
    LET wday == (tm.wday + 6) % 7
        week == Div(tm.yday - wday + 10, 7)
    IN  CASE week < 1 -> <<tm.year - 1, weeksInYear(tm.year - 1)>>
          [] week > weeksInYear(tm.year) -> <<tm.year + 1, 1>>
          [] OTHER -> <<tm.year, week>>

-----------------------------------------------------------------------------
(* The clerk *)

IsLeap(y) == y % 4 = 0 /\ (y % 100 = 0 => y % 400 = 0)
LengthOf(y) == IF IsLeap(y) THEN 366 ELSE 365

Init == year = 1970 /\ firstDay = 0

NextYear == year >= 1970 /\ year < LastYear /\ year' = year + 1 /\ firstDay' = firstDay + LengthOf(year)
LastsYear == year <= 1970 /\ year > FirstYear /\ year' = year - 1 /\ firstDay' = firstDay - LengthOf(year - 1)

Next == NextYear \/ LastsYear

Spec == Init /\ [][Next]_vars

-----------------------------------------------------------------------------
(* Properties *)

Days == {d \in SomeDays \cup {LengthOf(year) - 1} : d < LengthOf(year)}

Thursday(d) == d - ((d + 3) % 7) + 3

\* The days of a year that a rule may mean
SameDate(d, e) == d.mon = e.mon /\ d.mday = e.mday
Meant(r, yday, tm) ==
    CASE r.type = "yday" -> yday = r.day
      [] r.type = "jday" -> SameDate(tm, gmtime((r.day - 1) * Hours))
      [] OTHER -> /\ tm.mon = r.month - 1 /\ tm.wday = r.day
                  /\ \/ (tm.mday - 1) \div 7 = r.week - 1
                     \/ r.week = 5 /\ tm.mday + 7 > daysofmonth(tm.mon, IsLeap(year))
FallsRight(r, yday) == Meant(r, yday, gmtime((firstDay + yday) * Hours))

DayExact(d, t, tm, thursday) ==
    /\ tm.year = year /\ tm.yday = d /\ tm.hour = 5
    /\ mktimeSkel(tm) = t
    /\ \A k \in {-1, 1} : mktimeSkel([tm EXCEPT !.mon = @ + 12 * k, !.year = @ - k]) = t
    /\ year > 1 => isoWeek(tm) = <<thursday.year, thursday.yday \div 7 + 1>>

\* The clock of zone z about the change at hour c, after which it is DST or not
Read(z, t) == [localtime(z, t) EXCEPT !.isdst = -1]
Alike(reading, t) == {u \in t-3..t+3 : reading[u] = reading[t]}
Skipped(reading, t, standard) == \A u \in t-3..t+3 : reading[u] # standard
HourExact(z, t, reading, standard) ==
    /\ mktime(z, localtime(z, t)) = t
    /\ mktime(z, reading[t]) = Min(Alike(reading, t))
    /\ Skipped(reading, t, standard) => mktime(z, standard) = t
AboutChange(z, c, reading) ==
    \A t \in c-2..c+2 :
        HourExact(z, t, reading, [gmtime(t + z.offset[0]) EXCEPT !.isdst = -1])
ChangeExact(z, c, dst) ==
    /\ isdst(z, c - 1) # dst /\ isdst(z, c) = dst
    /\ AboutChange(z, c, [t \in c-5..c+5 |-> Read(z, t)])

\* gmtime() names every day as the clerk counts it, in the years before 1970, at
\* the ends of centuries and of leap years; timegm() undoes it, for months out of
\* their range too; the ISO week of a day is that of its Thursday.  A rule falls
\* on the day it means, the clock is changed then and at no other hour, and
\* mktime() asked to find out itself returns the first of the hours that read so
\* on the local clock, or standard time when the clock skipped the hour.
CalendarExact ==
    /\ \A d \in Days : DayExact(d, (firstDay + d) * Hours + 5, gmtime((firstDay + d) * Hours + 5),
                                gmtime(Thursday(firstDay + d) * Hours))
    /\ \A z \in Zones, i \in {0, 1} :
          /\ FallsRight(z.rule[i], ruleYday(z.rule[i], year))
          /\ ChangeExact(z, change(z.rule[i], year, z.offset[i]), i = 0)
=============================================================================
