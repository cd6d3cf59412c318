--------------------------- MODULE ForecastFigures ---------------------------
(***************************************************************************)
(* The figures internal/forecast computes from a document, and the edits   *)
(* that lead from one document to the next.                                *)
(*                                                                         *)
(* Each view of the web pages walks the same entries in its own way: the   *)
(* project table pools them by assignment and FiscalYearOf, the goal page  *)
(* visits the days of FiscalYear, the weekly table uses FYWeekIndexOf, the *)
(* burn-down counts weeks from the padded window, the dashboard cuts the   *)
(* year into spans, the working-time chart walks calendar months.  The     *)
(* properties say that they tell the same story.                           *)
(*                                                                         *)
(* Hours are integers in tenths of an hour, the unit round1 rounds to, so  *)
(* rounding a sum changes nothing.  Percentages, paces and labels are left *)
(* out.  A project is addressed by its position in the project list, and   *)
(* entries are a function of day and project (mergeEntries leaves one).    *)
(***************************************************************************)

EXTENDS FiscalCalendar, Functions, FiniteSetsExt

CONSTANTS
    Years,           \* fiscal years that are looked at
    StartMonths,     \* values of the start month of the fiscal year
    Days,            \* days that entries and imports are dated
    Todays,          \* days on which the program runs
    Amounts,         \* hours of an entry, in tenths
    Budgets,         \* budgets of a project, in tenths of an hour
    Assignments,     \* assignment IDs of a request
    Windows,         \* booking windows <<start, end>> of a project
    Holidays,        \* public holidays of the federal state (holidays.Calendar)
    HourConfig,      \* year -> what FYFor returns for it
    FirstProjects,   \* the project list in the beginning
    Offsets,         \* shifts of the dashboard horizon a request names
    NoAssignment,    \* an empty assignment ID
    MaxEdits         \* bound on the number of edits

NoDate == 0           \* an empty date field
HolidayDayHours == 80 \* eight hours
NoOverride == -1      \* a nil HolidayDays
DefaultStartMonth == 7
LastYear == 10000     \* no date of four-digit years is in a later fiscal year

\* A row of the project list.
IsProject(r) ==
    /\ r = [assignment |-> r.assignment, fiscalYear |-> r.fiscalYear, budget |-> r.budget,
            active |-> r.active, start |-> r.start, end |-> r.end, vacation |-> r.vacation]
    /\ r.fiscalYear \in Years /\ r.budget \in Nat
    /\ r.start \in Nat /\ r.end \in Nat
    /\ r.active \in BOOLEAN /\ r.vacation \in BOOLEAN

ASSUME FiguresAssumption ==
    /\ Years \subseteq 2000..2100 /\ StartMonths \subseteq 1..12
    /\ Days \subseteq Nat /\ Todays \subseteq Nat \ {0} /\ Holidays \subseteq Nat
    /\ Amounts \subseteq Nat \ {0} /\ Budgets \subseteq Nat /\ Windows \subseteq Nat \X Nat
    /\ Offsets \subseteq Int /\ MaxEdits \in Nat
    /\ NoAssignment \notin Assignments
    /\ DOMAIN FirstProjects \subseteq Nat /\ IsFiniteSet(DOMAIN FirstProjects)
    /\ FirstProjects = [p \in DOMAIN FirstProjects |-> FirstProjects[p]]
    /\ \A p \in DOMAIN FirstProjects : IsProject(FirstProjects[p])

VARIABLES
    projects,   \* position in the list -> project
    hours,      \* <<day, project>> -> hours of the entry
    startMonth, \* Settings.FiscalYearStartMonth
    accuracy,   \* fiscal year -> imported forecast accuracy
    today,
    edits       \* edits made so far

vars == <<projects, hours, startMonth, accuracy, today, edits>>

\* The domains of the variables.
TypeOK ==
    /\ DOMAIN projects \subseteq DOMAIN FirstProjects
    /\ projects = [p \in DOMAIN projects |-> projects[p]]
    /\ \A p \in DOMAIN projects : IsProject(projects[p])
    /\ DOMAIN hours \subseteq Days \X DOMAIN projects /\ IsFiniteSet(DOMAIN hours)
    /\ hours \in [DOMAIN hours -> Nat \ {0}]
    /\ startMonth \in 1..12
    /\ DOMAIN accuracy \subseteq Years
    /\ accuracy \in [DOMAIN accuracy -> [asOf : Days, startMonth : 1..12]]
    /\ today \in Todays
    /\ edits \in 0..MaxEdits

Period(y) == FYDays(y, startMonth)
SumHours(S) == SumFunctionOnSet(hours, S)

-----------------------------------------------------------------------------
(* Projects and entries. *)

IsVacation(p) == projects[p].vacation

\* Entries of deleted projects are ignored by every view.
Known == {e \in DOMAIN hours : e[2] \in DOMAIN projects}
Work == {e \in Known : ~IsVacation(e[2])}

\* Bug: hours are not pooled across the projects of an assignment.
GroupKeyOwn(p) == <<p>>

GroupKey(p) == IF projects[p].assignment = NoAssignment THEN <<p>> ELSE projects[p].assignment

Bookable(p, n) ==
    /\ projects[p].start # NoDate => n >= projects[p].start
    /\ projects[p].end # NoDate => n <= projects[p].end

ProjectsForFY(y) == {p \in DOMAIN projects : projects[p].fiscalYear = y}

WindowStart(p, y) == AtLeast(FYStart(y, startMonth), projects[p].start)
WindowEnd(p, y) ==
    LET end == FYEnd(y, startMonth)
    IN  IF projects[p].end = NoDate THEN end ELSE AtMost(end, projects[p].end)

-----------------------------------------------------------------------------
(* BuildYearSummary: the project table and the weekly table of year y. *)

PooledHours(g, years) ==
    SumHours({e \in Known : GroupKey(e[2]) = g /\ FiscalYearOf(e[1], startMonth) \in years})

ProjectSummary(p, y) ==
    LET g == GroupKey(p)
        booked == SumHours({e \in Known : /\ GroupKey(e[2]) = g /\ e[1] < today
                                          /\ FiscalYearOf(e[1], startMonth) = y})
        consumed == PooledHours(g, {y})
        \* The budget available is never shown as negative.
        over == AtMost(PooledHours(g, 0..(y - 1)), projects[p].budget)
        granted == projects[p].budget - over
        \* An inactive project gives up what it has not planned.
        released == IF ~projects[p].active /\ granted > consumed THEN granted - consumed ELSE 0
    IN  [consumed |-> consumed, actual |-> booked, forecast |-> consumed - booked,
         carryOver |-> over, futureFY |-> PooledHours(g, (y + 1)..LastYear), released |-> released,
         available |-> granted - released, remaining |-> granted - released - consumed,
         startDate |-> WindowStart(p, y), endDate |-> WindowEnd(p, y),
         outOfWindow |-> SumHours({e \in Known : /\ e[2] = p /\ ~Bookable(p, e[1])
                                                 /\ FiscalYearOf(e[1], startMonth) = y})]

\* The rows the totals count: no vacation, and each assignment once.
RolledUp(y) ==
    {p \in ProjectsForFY(y) :
        /\ ~IsVacation(p)
        /\ \A q \in ProjectsForFY(y) : q < p => IsVacation(q) \/ GroupKey(q) # GroupKey(p)}

YearTotals(y) ==
    LET row == [p \in RolledUp(y) |-> ProjectSummary(p, y)]
        consumed == SumFunction([p \in RolledUp(y) |-> row[p].consumed])
        budget == SumFunction([p \in RolledUp(y) |-> projects[p].budget])
        available == budget - SumFunction([p \in RolledUp(y) |-> row[p].carryOver])
                            - SumFunction([p \in RolledUp(y) |-> row[p].released])
    IN  [hours |-> consumed, budget |-> budget, available |-> available,
         forecast |-> SumFunction([p \in RolledUp(y) |-> row[p].forecast]),
         actual |-> SumFunction([p \in RolledUp(y) |-> row[p].actual]),
         remaining |-> available - consumed]

\* Vacation is included: the weeks show the time that is used up.
WeekHours(y) ==
    LET week == [e \in Known |-> FYWeekIndexOf(y, startMonth, e[1])]
    IN  [w \in 1..FYWeeks(y, startMonth) |-> SumHours({e \in Known : week[e] = w})]

-----------------------------------------------------------------------------
(* BuildFYCapacity, BuildGoalSummary, BuildGoalFlow and BuildWeekToDate. *)

\* The weekdays of each fiscal year, and the public holidays among them.
WeekdaysOf == [y \in Years, m \in StartMonths |-> {n \in FYDays(y, m) : ~Weekend(n)}]
FYWeekdays == [y \in Years, m \in StartMonths |-> Cardinality(WeekdaysOf[y, m])]
FYHolidays == [y \in Years, m \in StartMonths |-> Cardinality(WeekdaysOf[y, m] \cap Holidays)]

\* RemainingHours, which is the goal of the year.
Target(y) ==
    LET c == HourConfig[y]
        gross == IF c.weekdayHours > 0 THEN c.weekdayHours
                 ELSE FYWeekdays[y, startMonth] * HolidayDayHours
        free == IF c.holidayDays = NoOverride THEN FYHolidays[y, startMonth] ELSE c.holidayDays
    IN  AtLeast(0, gross - (c.vacationDays + free) * HolidayDayHours - c.standardTask)

\* The goal page visits the days of the year one after the other and adds each
\* day to its month and to its quarter; half-years are made of months.
GoalSummary(y) ==
    LET inYear == {e \in Work : e[1] \in Period(y)}
        past == {e \in inYear : e[1] < today}
        fyMonth == [e \in inYear |-> FYMonthOf(e[1], startMonth)]
        month(S, m) == SumHours({e \in S : fyMonth[e] = m})
        quarter(S, q) == SumHours({e \in S : fyMonth[e] \div 3 = q})
        months == [m \in 0..11 |-> [projected |-> month(inYear, m), actual |-> month(past, m),
                                    forecast |-> month(inYear \ past, m)]]
    IN  [projected |-> SumHours(inYear), actual |-> SumHours(past),
         forecast |-> SumHours(inYear \ past), months |-> months,
         quarters |-> [q \in 0..3 |-> [projected |-> quarter(inYear, q),
                                       actual |-> quarter(past, q),
                                       forecast |-> quarter(inYear \ past, q)]],
         halves |-> [h \in 0..1 |->
             SumFunction([m \in 6 * h .. 6 * h + 5 |-> months[m].projected])]]

\* The flow diagram: hours of each project and month, from which it draws its
\* five columns.
GoalFlow(y) ==
    LET start == FYStart(y, startMonth)
        end == FYEnd(y, startMonth)
        inYear == {e \in Work : start <= e[1] /\ e[1] <= end}
        fyMonth == [e \in inYear |-> FYMonthOf(e[1], startMonth)]
        cell == [p \in DOMAIN projects |-> [m \in 0..11 |->
                    SumHours({e \in inYear : e[2] = p /\ fyMonth[e] = m})]]
        months == [m \in 0..11 |-> SumFunction([p \in DOMAIN projects |-> cell[p][m]])]
    IN  [projects |-> [p \in DOMAIN projects |-> SumFunction(cell[p])],
         months |-> months,
         quarters |-> [q \in 0..3 |-> SumFunctionOnSet(months, {m \in 0..11 : m \div 3 = q})],
         halves |-> [h \in 0..1 |-> SumFunctionOnSet(months, {m \in 0..11 : m \div 6 = h})]]

\* Nothing is shown for another year, for a year without a goal and before the
\* first weekday is over.
WeekToDate(y) ==
    LET start == FYStart(y, startMonth)
        hasData == /\ today \in Period(y) /\ Target(y) > 0
                   /\ \E n \in start..(today - 1) : ~Weekend(n)
    IN  [hasData |-> hasData,
         hours |-> IF hasData THEN SumHours({e \in Work : start <= e[1] /\ e[1] < today}) ELSE 0]

-----------------------------------------------------------------------------
(* BuildBurndown: what is left of the budget at the end of each week, from  *)
(* a month before the window to a month after it.                           *)

\* Bug: only the hours of the row itself are burnt.
OwnRow(p) == {p}

\* Every row of the same assignment feeds the curve.
AssignmentRows(p) == {q \in DOMAIN projects : GroupKey(q) = GroupKey(p)}

Burndown(p, from, to, budget, y) ==
    LET start == IF to < from THEN FYStart(y, startMonth) ELSE from
        end == IF to < from THEN FYEnd(y, startMonth) ELSE to
        first == MondayOf(AddMonths(start, -1))
        weeks == AtLeast(1, Quotient(AddMonths(end, 1) - first, 7) + 1)
        rows == AssignmentRows(p)
        counted == {e \in Known : e[2] \in rows /\ start <= e[1] /\ e[1] <= end}
        week(e) == (e[1] - first) \div 7 + 1
    IN  [i \in 1..weeks |-> budget - SumHours({e \in counted : week(e) <= i})]

-----------------------------------------------------------------------------
(* BuildSankey: a horizon of weeks, shifted by whole spans.                  *)

Ranges == {"1w", "2w", "4w", "2m", "3m", "6m", "fy"}
SankeyMaxOffset == 260

SankeySpan(current, last, key) ==
    LET half == (last + 1) \div 2
        ahead(n) == [week |-> current, weeks |-> n]
    IN  CASE key = "1w" -> ahead(1)
          [] key = "2w" -> ahead(2)
          [] key = "4w" -> ahead(4)
          [] key = "2m" -> ahead(8)
          [] key = "3m" -> ahead(13)
          [] key = "6m" -> IF current <= half THEN [week |-> 1, weeks |-> half]
                           ELSE [week |-> half + 1, weeks |-> last - half]
          [] key = "fy" -> [week |-> 1, weeks |-> last]

\* Bug: a clamped span that moved by less than its length counts as not shifted.
WholeSpans(delta, weeks) == Quotient(delta, weeks)

\* The offset that took effect; it is not 0 when the span has moved.
AppliedOffset(delta, weeks) ==
    LET whole == Quotient(delta, weeks)
    IN  IF whole # 0 \/ delta = 0 THEN whole ELSE IF delta > 0 THEN 1 ELSE -1

\* The span is clamped flush against the border of the year.
ShiftSankeySpan(base, weeks, last, offset) ==
    LET lastStart == AtLeast(1, last - weeks + 1)
        origin == AtMost(AtLeast(base, 1), lastStart)
        shift == AtMost(AtLeast(offset, -SankeyMaxOffset), SankeyMaxOffset)
        week == AtMost(AtLeast(origin + shift * weeks, 1), lastStart)
    IN  [week |-> week, offset |-> AppliedOffset(week - origin, weeks)]

Sankey(current, last, key, offset) ==
    LET span == SankeySpan(current, last, key)
        weeks == AtMost(AtLeast(span.weeks, 1), last)
        shifted == ShiftSankeySpan(span.week, weeks, last, offset)
    IN  [week |-> shifted.week, weeks |-> weeks, offset |-> shifted.offset,
         canPrev |-> shifted.week > 1, canNext |-> shifted.week + weeks - 1 < last]

\* The columns hold Monday to Friday inside the year; the dashboard passes only
\* the projects of the year.
SankeyTotal(y, view) ==
    LET monday == FYWeekMonday(y, startMonth, view.week)
    IN  SumHours({e \in Known :
            /\ e[2] \in ProjectsForFY(y) /\ e[1] \in Period(y) /\ ~Weekend(e[1])
            /\ monday <= e[1] /\ e[1] < monday + 7 * view.weeks})

-----------------------------------------------------------------------------
(* buildWorkload and buildWorkloadTimeline: average hours per Werktag,      *)
(* Monday to Saturday, holidays and days of nothing but vacation left out.  *)

WorkloadTileMonths == 6
WorkloadBackMonths == 6
WorkloadAheadMonths == 8

DaysOf(S) == {e[1] : e \in S}

Workload(days) ==
    LET free == Holidays \cup (DaysOf(Known \ Work) \ DaysOf(Work))
    IN  [hours |-> SumHours({e \in Work : e[1] \in days}),
         days |-> Cardinality({n \in days : ~Sunday(n) /\ n \notin free})]

\* Bug: today, which is still running, is counted as booked.
WindowWithToday(months, ahead) ==
    IF ahead THEN today..(AddMonths(today, months) - 1) ELSE AddMonths(today, -months)..today

\* Hours from today on are forecast.
Window(months, ahead) ==
    IF ahead THEN today..(AddMonths(today, months) - 1) ELSE AddMonths(today, -months)..(today - 1)

\* The booked hours of the last months, or the planned ones of the next months
\* without the calendar months that nothing is planned in.
BuildWorkload(months, ahead) ==
    LET window == Window(months, ahead)
        planned == {MonthStart(n) : n \in DaysOf(Work) \cap window}
    IN  Workload(IF ahead
                 THEN window \cap UNION {m..MonthEnd(m) : m \in planned}
                 ELSE window)

\* The chart: first day of a month -> its load and the load of the balancing
\* period that ends with it.  It begins earlier than it is drawn, and it ends
\* with the month of the last planned day.
ChartFirst == MonthStart(AddMonths(today, -WorkloadBackMonths))
ChartLast ==
    LET limit == MonthEnd(AddMonths(today, WorkloadAheadMonths))
    IN  MonthEnd(Max({today} \cup (DaysOf(Work) \cap today..limit)))

WorkloadTimeline ==
    LET lead == WorkloadTileMonths - 1
        count == WorkloadBackMonths + WorkloadAheadMonths
        drawn == {m \in {AddMonths(ChartFirst, k) : k \in 0..(count + 1)} : m <= ChartLast}
    IN  [m \in drawn |->
            [load |-> Workload(m..MonthEnd(m)),
             rolling |-> Workload(AddMonths(m, -lead)..MonthEnd(m))]]

-----------------------------------------------------------------------------
(* The forecast accuracy of a fiscal year, imported from outside.            *)

\* ValidateForecastAccuracy, for a percentage and a date that are well formed.
ValidAccuracy(y, asOf) == asOf >= FYStart(y, startMonth) /\ asOf <= today

\* A value that was imported for another start month is not shown.
AccuracySummary(y) ==
    LET known == /\ y \in DOMAIN accuracy /\ accuracy[y].startMonth = startMonth
                 /\ ValidAccuracy(y, accuracy[y].asOf)
        evaluated == IF known THEN CompletedWeeks(y, startMonth, accuracy[y].asOf) ELSE 0
    IN  [known |-> known, evaluatedWeeks |-> evaluated,
         remainingWeeks |-> FYWeeks(y, startMonth) - evaluated,
         stale |-> known /\ CompletedWeeks(y, startMonth, today) > evaluated,
         hasProjection |-> known /\ evaluated > 0]

\* Bug: whatever arrives last is kept.
AnyAge(y, asOf) == TRUE

NotOlder(y, asOf) == y \in DOMAIN accuracy => accuracy[y].asOf <= asOf

\* handlePutForecastAccuracy
PutForecastAccuracy(y, asOf) ==
    /\ ValidAccuracy(y, asOf)
    /\ NotOlder(y, asOf)
    /\ accuracy' = [z \in DOMAIN accuracy \cup {y} |->
                        IF z = y THEN [asOf |-> asOf, startMonth |-> startMonth] ELSE accuracy[z]]
    /\ UNCHANGED <<projects, hours, startMonth>>

-----------------------------------------------------------------------------
(* Edits of the document, by the API and by the forms. *)

\* An entry is written, replaced, or with zero hours removed.
PutEntry(n, p, h) ==
    /\ hours' = [e \in (DOMAIN hours \cup {<<n, p>>}) \ {f \in {<<n, p>>} : h = 0} |->
                    IF e = <<n, p>> THEN h ELSE hours[e]]
    /\ UNCHANGED <<projects, startMonth, accuracy>>

\* What a request may make of a project, one field at a time.  The budget of a
\* vacation project is not writable; ForecastService moves one to another year.
\* Nothing keeps a vacation project from being given an assignment.
UpdatedRows(p) ==
    LET row == projects[p]
    IN  {[row EXCEPT !.active = ~row.active]}
            \cup {[row EXCEPT !.start = w[1], !.end = w[2]] : w \in Windows}
            \cup {[row EXCEPT !.assignment = a] : a \in Assignments}
            \cup (IF IsVacation(p) THEN {}
                  ELSE {[row EXCEPT !.budget = b] : b \in Budgets}
                        \cup {[row EXCEPT !.fiscalYear = y] : y \in Years})

\* Refused when the assignment has a project in that year already (Validate).
UpdateProject(p, row) ==
    /\ \A q \in DOMAIN projects \ {p} :
        \/ row.assignment = NoAssignment
        \/ <<projects[q].assignment, projects[q].fiscalYear>> # <<row.assignment, row.fiscalYear>>
    /\ projects' = [projects EXCEPT ![p] = row]
    /\ UNCHANGED <<hours, startMonth, accuracy>>

\* The entries of the project go with it.
DeleteProject(p) ==
    /\ ~IsVacation(p)
    /\ projects' = Restrict(projects, DOMAIN projects \ {p})
    /\ hours' = Restrict(hours, {e \in DOMAIN hours : e[2] # p})
    /\ UNCHANGED <<startMonth, accuracy>>

ChangeStartMonth(m) ==
    /\ startMonth' = m
    /\ UNCHANGED <<projects, hours, accuracy>>

Edit ==
    \/ \E n \in Days, p \in DOMAIN projects, h \in Amounts \cup {0} : PutEntry(n, p, h)
    \/ \E p \in DOMAIN projects : \E row \in UpdatedRows(p) : UpdateProject(p, row)
    \/ \E p \in DOMAIN projects : DeleteProject(p)
    \/ \E m \in StartMonths : ChangeStartMonth(m)
    \/ \E y \in Years, n \in Days : PutForecastAccuracy(y, n)

DayPasses ==
    /\ \E n \in Todays : n > today /\ today' = n
    /\ UNCHANGED <<projects, hours, startMonth, accuracy, edits>>

Init ==
    /\ projects = FirstProjects
    /\ hours = <<>>
    /\ startMonth = DefaultStartMonth
    /\ accuracy = <<>>
    /\ today \in Todays
    /\ edits = 0

Next ==
    \/ edits < MaxEdits /\ edits' = edits + 1 /\ UNCHANGED today /\ Edit
    \/ DayPasses

Spec == Init /\ [][Next]_vars

-----------------------------------------------------------------------------
(* Properties. *)

\* The assignments (or projects without one) that have a row of work in year y.
RowKeys(y) == {GroupKey(p) : p \in {q \in ProjectsForFY(y) : ~IsVacation(q)}}

\* Work of year y whose assignment has no project in y: it counts by its date,
\* but there is no row to show it in.
RowlessEntries(y) == {e \in Work : e[1] \in Period(y) /\ GroupKey(e[2]) \notin RowKeys(y)}

\* Vacation of year y that a project table pools with work, because a project of
\* work in y has the assignment that the vacation project was given.
PooledVacation(y) ==
    {e \in Known \ Work : e[1] \in Period(y) /\ GroupKey(e[2]) \in RowKeys(y)}

\* The views count the same hours, though each finds them in its own way: the
\* goal page and the flow diagram month by month, the project table up to the
\* hours it has no row for and the vacation it pools, the weekly table up to the
\* vacation it includes, the rate to date up to yesterday, and the dashboard,
\* which includes vacation and leaves out weekends and the projects of other
\* years.  Two comments say otherwise of vacation: see DashboardWithoutVacation
\* and VacationStandsAlone.
ViewsAgree ==
    \A y \in Years :
        LET goal == GoalSummary(y)
            flow == GoalFlow(y)
            totals == YearTotals(y)
            weeks == SumFunction(WeekHours(y))
            inYear == {e \in Known : e[1] \in Period(y)}
            rowless == RowlessEntries(y)
            pooled == PooledVacation(y)
            past(S) == {e \in S : e[1] < today}
            wholeYear == Sankey(1, FYWeeks(y, startMonth), "fy", 0)
        IN  /\ goal.projected + SumHours(pooled) = totals.hours + SumHours(rowless)
            /\ goal.actual + SumHours(past(pooled)) = totals.actual + SumHours(past(rowless))
            /\ goal.projected = SumFunction(flow.projects)
            /\ \A m \in 0..11 : flow.months[m] = goal.months[m].projected
            /\ \A q \in 0..3 : flow.quarters[q] = goal.quarters[q].projected
            /\ flow.halves = goal.halves
            /\ weeks = goal.projected + SumHours({e \in inYear : IsVacation(e[2])})
            /\ WeekToDate(y).hasData => WeekToDate(y).hours = goal.actual
            /\ (\A e \in inYear : ~Weekend(e[1]) /\ e[2] \in ProjectsForFY(y))
                    => SankeyTotal(y, wholeYear) = weeks

\* internal/forecast/agg.go, vacationSet: vacation hours "are only excluded from
\* the FY goal (they are not billable work) and from the dashboard sankey".  The
\* diagram of a whole year has no more hours than the goal page has work.  The
\* code does not ensure it: BuildSankey takes the hours of every project.
DashboardWithoutVacation ==
    \A y \in Years :
        SankeyTotal(y, Sankey(1, FYWeeks(y, startMonth), "fy", 0)) <= GoalSummary(y).projected

\* internal/forecast/agg.go, groupKey: "the vacation project has no assignment
\* and therefore stands on its own".  No row of work has hours of vacation.  The
\* code does not ensure it: a request may give the vacation project an assignment.
VacationStandsAlone == \A y \in Years : PooledVacation(y) = {}

\* An assignment that runs on starts the new year with what the old one left
\* over, released hours included: nothing is granted twice and nothing is lost,
\* whatever project of the assignment the hours were booked on.
CarriedBudgetIsLeftover ==
    \A p, q \in DOMAIN projects :
        /\ projects[p].assignment # NoAssignment
        /\ projects[p].assignment = projects[q].assignment
        /\ projects[q].fiscalYear = projects[p].fiscalYear + 1
        /\ projects[p].budget = projects[q].budget
        => LET old == ProjectSummary(p, projects[p].fiscalYear)
               new == ProjectSummary(q, projects[q].fiscalYear)
           IN  new.available + new.released = AtLeast(0, old.remaining + old.released)

\* The burn-down starts at the budget that is available and ends at what the
\* table says remains, but for the hours of this year that lie outside the
\* booking window (see BurndownEndsAtRemaining for the words that know no such
\* hours); a window that misses the year altogether counts as none.
BurndownMeetsTable ==
    \A y \in Years : \A p \in ProjectsForFY(y) :
        LET row == ProjectSummary(p, y)
            curve == Burndown(p, row.startDate, row.endDate, row.available, y)
            outside == {e \in Known :
                /\ GroupKey(e[2]) = GroupKey(p) /\ FiscalYearOf(e[1], startMonth) = y
                /\ row.startDate <= row.endDate
                /\ e[1] < row.startDate \/ e[1] > row.endDate}
        IN  /\ curve[1] = row.available
            /\ curve[Cardinality(DOMAIN curve)] = row.remaining + SumHours(outside)

\* .github/instructions/forecast-tool.instructions.md: a burn-down leaves out
\* hours outside its booking window, as those of another fiscal year, and "still
\* ends on the Remaining the table shows".  The code does not ensure it: a window
\* may end before the year does, and the table counts what is booked after it.
BurndownEndsAtRemaining ==
    \A y \in Years : \A p \in ProjectsForFY(y) :
        LET row == ProjectSummary(p, y)
            curve == Burndown(p, row.startDate, row.endDate, row.available, y)
        IN  curve[Cardinality(DOMAIN curve)] = row.remaining

\* The comments and the instructions quoted above: at least one of their three
\* statements is right of every document, as all of them should be.  The code
\* ensures none: one document can refute all three.
FiguresAsDescribed ==
    DashboardWithoutVacation \/ VacationStandsAlone \/ BurndownEndsAtRemaining

\* The links of the dashboard lead where they say: a span stays inside the
\* year, a link moves it exactly when it is offered, and going away from the
\* current span leaves out no week.
HorizonLinksWork ==
    \A y \in Years :
        LET current == CurrentFYWeek(y, startMonth, today)
            last == FYWeeks(y, startMonth)
        IN  \A key \in Ranges, offset \in Offsets :
                LET view == Sankey(current, last, key, offset)
                    next == Sankey(current, last, key, view.offset + 1)
                    prev == Sankey(current, last, key, view.offset - 1)
                IN  /\ 1 <= view.week /\ view.week + view.weeks - 1 <= last
                    /\ view.canNext <=> next.week > view.week
                    /\ view.canPrev <=> prev.week < view.week
                    /\ view.offset >= 0 => next.week <= view.week + view.weeks
                    /\ view.offset <= 0 => prev.week + prev.weeks >= view.week

\* On the first of a month the tiles and the chart measure the same days: the
\* tile looking back is the balancing period of the month before, and the tile
\* looking ahead is the sum of the charted months that carry a plan.  The chart
\* reaches back six months on every day that each of these months has.
TilesAgreeWithChart ==
    /\ Civil(today).day <= 28 => ChartFirst = AddMonths(MonthStart(today), -WorkloadBackMonths)
    /\ Civil(today).day = 1 =>
        LET chart == WorkloadTimeline
            ahead == BuildWorkload(WorkloadTileMonths, TRUE)
            planned == {m \in DOMAIN chart :
                /\ today <= m /\ m < AddMonths(today, WorkloadTileMonths)
                /\ chart[m].load.hours > 0}
        IN  /\ BuildWorkload(WorkloadTileMonths, FALSE) = chart[MonthStart(today - 1)].rolling
            /\ ahead.hours = SumFunction([m \in planned |-> chart[m].load.hours])
            /\ ahead.days = SumFunction([m \in planned |-> chart[m].load.days])

\* An imported accuracy is called stale exactly when, since its date, a week of
\* the fiscal year has ended, on its Sunday or with the year.
StaleMeansAWeekEnded ==
    \A y \in Years :
        AccuracySummary(y).known =>
            (AccuracySummary(y).stale
                <=> \E n \in accuracy[y].asOf..(today - 1) :
                        n \in Period(y) /\ (Sunday(n) \/ n = FYEnd(y, startMonth)))

\* Imports that arrive out of order never replace a newer value, not even when
\* the start month has changed in between.
AccuracyNeverGoesBack ==
    [][\A y \in Years :
        y \in DOMAIN accuracy =>
            y \in DOMAIN accuracy' /\ accuracy[y].asOf <= accuracy'[y].asOf]_vars

=============================================================================
