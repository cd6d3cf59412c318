---------------------------- MODULE FiscalCalendar ----------------------------
(***************************************************************************)
(* The calendar arithmetic of internal/forecast.  A date is a day number,  *)
(* counted from 1 January 1970; comparing two ISO strings in the code is   *)
(* comparing two day numbers here.  The first part is Go's package time as *)
(* the code uses it: time.Date and AddDate normalize, so that one month    *)
(* after 31 January is 2 or 3 March.                                       *)
(***************************************************************************)

EXTENDS Integers, FiniteSets

AtLeast(a, b) == IF a < b THEN b ELSE a
AtMost(a, b) == IF a > b THEN b ELSE a

\* Go's integer division: towards zero.
Quotient(a, b) == IF a < 0 THEN -((-a) \div b) ELSE a \div b

\* time.Date(y, m, d), for any integers m and d.
Date(y, m, d) ==
    LET year == y + (m - 1) \div 12
        month == ((m - 1) % 12) + 1
        fromMarch == IF month <= 2 THEN year - 1 ELSE year
        dayOfYear == (153 * ((month + 9) % 12) + 2) \div 5 + d - 1
    IN  365 * fromMarch + fromMarch \div 4 - fromMarch \div 100 + fromMarch \div 400
          + dayOfYear - 719468

\* Year, month and day of a time.Time.  A year is counted from 1 March, so that
\* a leap day ends it; 400 such years are an era of 146097 days.
YearOfEra(dayOfEra) ==
    (dayOfEra - dayOfEra \div 1460 + dayOfEra \div 36524 - dayOfEra \div 146096) \div 365

FirstOfYear(yearOfEra) == 365 * yearOfEra + yearOfEra \div 4 - yearOfEra \div 100

DayMonth(dayOfYear, month, year) ==
    [year |-> IF month < 10 THEN year ELSE year + 1,
     month |-> IF month < 10 THEN month + 3 ELSE month - 9,
     day |-> dayOfYear - (153 * month + 2) \div 5 + 1]

DayOfYear(dayOfYear, year) == DayMonth(dayOfYear, (5 * dayOfYear + 2) \div 153, year)

DayOfEra(dayOfEra, yearOfEra, era) ==
    DayOfYear(dayOfEra - FirstOfYear(yearOfEra), yearOfEra + 400 * era)

Civil(n) ==
    LET shifted == n + 719468
    IN  DayOfEra(shifted % 146097, YearOfEra(shifted % 146097), shifted \div 146097)

\* Days since Monday: 0 for Monday, 6 for Sunday.
Weekday(n) == (n + 3) % 7
Weekend(n) == Weekday(n) >= 5
Sunday(n) == Weekday(n) = 6

\* t.AddDate(0, k, 0)
AddMonthsTo(c, k) == Date(c.year, c.month + k, c.day)
AddMonths(n, k) == AddMonthsTo(Civil(n), k)

-----------------------------------------------------------------------------
\* normMonth: a fiscal year starts in July unless the settings say otherwise.
NormMonth(startMonth) == IF startMonth \in 1..12 THEN startMonth ELSE 7

\* FiscalYear: the year is named after the calendar year it ends in.
FYStart(year, startMonth) ==
    LET m == NormMonth(startMonth) IN Date(IF m > 1 THEN year - 1 ELSE year, m, 1)
FYEnd(year, startMonth) == FYStart(year + 1, startMonth) - 1
FYDays(year, startMonth) == FYStart(year, startMonth)..FYEnd(year, startMonth)

\* Bug: the first month of a fiscal year is counted to the old one.
FiscalYearOfLate(n, startMonth) ==
    LET m == NormMonth(startMonth)
        c == Civil(n)
    IN  IF m # 1 /\ c.month > m THEN c.year + 1 ELSE c.year

FiscalYearOf(n, startMonth) ==
    LET m == NormMonth(startMonth)
        c == Civil(n)
    IN  IF m # 1 /\ c.month >= m THEN c.year + 1 ELSE c.year

\* Position of the month of n in its fiscal year, 0..11.
FYMonthOf(n, startMonth) == (Civil(n).month - NormMonth(startMonth)) % 12

MondayOf(n) == n - Weekday(n)

FYWeekMonday(year, startMonth, week) == MondayOf(FYStart(year, startMonth)) + (week - 1) * 7

FYWeeks(year, startMonth) ==
    (FYEnd(year, startMonth) - MondayOf(FYStart(year, startMonth)) + 1 + 6) \div 7

\* Clamped into the fiscal year.
CurrentFYWeek(year, startMonth, now) ==
    LET elapsed == MondayOf(now) - MondayOf(FYStart(year, startMonth))
    IN  AtMost(AtLeast(Quotient(elapsed, 7) + 1, 1), FYWeeks(year, startMonth))

\* 0 when n lies outside the fiscal year.
FYWeekIndexOf(year, startMonth, n) ==
    IF n < FYStart(year, startMonth) \/ n > FYEnd(year, startMonth) THEN 0
    ELSE (MondayOf(n) - MondayOf(FYStart(year, startMonth))) \div 7 + 1

MonthStart(n) == n - Civil(n).day + 1
MonthEnd(n) == AddMonths(MonthStart(n), 1) - 1

\* Bug: the last week of the year is over on its Sunday, in the next year.
CompletedFullWeeks(year, startMonth, asOf) ==
    Cardinality({week \in 1..FYWeeks(year, startMonth) :
                    FYWeekMonday(year, startMonth, week) + 6 < asOf})

\* completedAccuracyWeeks: the weeks whose last day inside the fiscal year is over.
CompletedWeeks(year, startMonth, asOf) ==
    LET end == FYEnd(year, startMonth)
        lastDay(week) == AtMost(FYWeekMonday(year, startMonth, week) + 6, end)
    IN  Cardinality({week \in 1..FYWeeks(year, startMonth) : lastDay(week) < asOf})

=============================================================================
