--------------------------- MODULE MonthDistribution ---------------------------
(***************************************************************************)
(* The local plan of a month (internal/forecast/month.go and               *)
(* month_history.go), one week of it: what is booked on days that are over *)
(* stays where it is, the other hours of a project are distributed anew    *)
(* over the days that are open to it, by the capacity the days have left   *)
(* and by the weekdays on which the user has worked in the past weeks.     *)
(* The weeks of a month do not depend on each other.                       *)
(***************************************************************************)

EXTENDS Fractions, FiniteSets

CONSTANTS
    Days,           \* the days of the week, Monday first
    Weekend,        \* the last of them
    Projects,       \* projects that are not vacation, by ID
    Assignment,     \* groupKey: projects of several years belong together
    HistoryWeeks,   \* the weeks before the present one that are looked at
    Recency,        \* weight of such a week; 2^(-(11 - w) / 4) in the code
    FullEvidence,   \* observed weeks that replace the fallback; 4 in the code
    NoWeek,         \* no week is being planned
    Histories,      \* bookings of the weeks before
    Weeks           \* the weeks that are planned after each of them

HolidayDayHours == 8
Weekdays == Days \ Weekend

\* A week that is over, and one that is planned.
RecordedWeek ==
    [hours : [Weekdays -> [Projects -> Nat]], vacation : [Weekdays -> Nat], holidays : SUBSET Days]

WeekToPlan ==
    [stored : [Days -> [Projects -> Nat]], vacation : [Days -> Nat], holidays : SUBSET Days,
     inYear : SUBSET Days, today : Int, bookable : [Projects -> SUBSET Days]]

ASSUME DaysAssumption ==
    /\ IsFiniteSet(Days) /\ Days = 1 .. Cardinality(Days)
    /\ Weekend \subseteq Days /\ Weekdays # {}

ASSUME ProjectsAssumption ==
    IsFiniteSet(Projects) /\ Projects \subseteq Nat /\ DOMAIN Assignment = Projects

ASSUME HistoryAssumption ==
    /\ IsFiniteSet(HistoryWeeks) /\ FullEvidence \in Nat \ {0}
    /\ Recency \in [HistoryWeeks -> {r \in Rationals : Less(Zero, r)}]
    /\ Histories \subseteq [HistoryWeeks -> RecordedWeek]

ASSUME WeeksAssumption ==
    \A h \in Histories : Weeks[h] \subseteq WeekToPlan /\ NoWeek \notin Weeks[h]

VARIABLES
    week,      \* the week: stored, vacation, holidays, inYear, today, bookable
    past,      \* the weeks before: hours, vacation and holidays of each
    habit,     \* weekday weights of every project
    total,     \* hours of each day of the plan
    estimated, \* hours distributed so far, by project and day
    left,      \* hours of each project that have no day
    todo,      \* candidates whose hours are not distributed yet
    pass       \* passes over the days for the one that goes first

vars == <<week, past, habit, total, estimated, left, todo, pass>>

TypeOK ==
    /\ past \in Histories
    /\ week \in Weeks[past] \cup {NoWeek}
    /\ habit \in [Projects -> [Weekdays -> Rationals]]
    /\ total \in [Days -> Rationals]
    /\ estimated \in [Projects -> [Days -> Rationals]]
    /\ left \in [Projects -> Rationals]
    /\ todo \subseteq Projects
    /\ pass \in 0 .. Cardinality(Days)

-----------------------------------------------------------------------------
\* What the past weeks show.

AvailableShare(w, d) ==
    IF d \in past[w].holidays
    THEN Zero
    ELSE Larger(Zero, Minus(One, Fraction(past[w].vacation[d], HolidayDayHours)))

\* Hours of these projects on a day; a day without availability is not looked at.
Worked(w, ps) ==
    [d \in Weekdays |->
        IF AvailableShare(w, d) = Zero
        THEN Zero
        ELSE Sum([p \in ps |-> <<past[w].hours[d][p], 1>>], ps)]

Observed(ps) == {w \in HistoryWeeks : Sum(Worked(w, ps), Weekdays) # Zero}

Available(w) == [d \in Weekdays |-> AvailableShare(w, d)]

WeekShares(worked, available, weight) ==
    [d \in Weekdays |->
        Times(weight, Over(Times(worked[d], Sum(available, Weekdays)), Sum(worked, Weekdays)))]

Shares(ps) ==
    [w \in Observed(ps) |-> WeekShares(Worked(w, ps), Available(w), Recency[w])]

\* Bug: hours are compared with the weeks and not with the days one could work.
ExposureToWeeks(ps, d) == Sum(Recency, Observed(ps))

Exposure(ps, d) ==
    Sum([w \in Observed(ps) |-> Times(Recency[w], AvailableShare(w, d))], Observed(ps))

DayRate(shared, exposure, fallback) ==
    IF exposure = Zero
    THEN Times(fallback, <<Cardinality(Weekdays), 1>>)
    ELSE Over(shared, exposure)

Rates(ps, shares, fallback) ==
    [d \in Weekdays |->
        DayRate(Sum([w \in DOMAIN shares |-> shares[w][d]], DOMAIN shares),
                Exposure(ps, d), fallback[d])]

Blend(rates, fallback, confidence) ==
    [d \in Weekdays |->
        Plus(Over(Times(confidence, rates[d]), Sum(rates, Weekdays)),
             Times(Minus(One, confidence), fallback[d]))]

monthHistoryPattern(ps, fallback) ==
    IF Observed(ps) = {}
    THEN fallback
    ELSE Blend(Rates(ps, Shares(ps), fallback), fallback,
               Smaller(One, Fraction(Cardinality(Observed(ps)), FullEvidence)))

Uniform == [d \in Weekdays |-> <<1, Cardinality(Weekdays)>>]

Group(p) == {q \in Projects : Assignment[q] = Assignment[p]}

GroupPatterns(general) == [p \in Projects |-> monthHistoryPattern(Group(p), general)]

buildMonthHistories == GroupPatterns(monthHistoryPattern(Projects, Uniform))

-----------------------------------------------------------------------------
\* The week as it is read, before anything is distributed.

Capacity(d) ==
    IF d \in week.inYear /\ d \notin Weekend \cup week.holidays
    THEN Larger(Zero, <<HolidayDayHours - week.vacation[d], 1>>)
    ELSE Zero

OnDays(w, p, days) == Sum([d \in days |-> <<w.stored[d][p], 1>>], days)

\* Hours of week w that stay on their day, and hours that are distributed anew.
Kept(w, d) ==
    IF d \in w.inYear /\ d < w.today
    THEN Sum([p \in Projects |-> <<w.stored[d][p], 1>>], Projects)
    ELSE Zero

\* Bug: hours booked on a Saturday are not counted.
RemainingOnWeekdays(w, p) == OnDays(w, p, {d \in w.inYear \ Weekend : d >= w.today})

Remaining(w, p) == OnDays(w, p, {d \in w.inYear : d >= w.today})

-----------------------------------------------------------------------------
\* The distribution.

Room(d) == Minus(Capacity(d), total[d])

\* Days of the week on which hours of p may be planned at all.
OpenDays(p) ==
    {d \in week.inYear \ (Weekend \cup week.holidays) : d >= week.today /\ d \in week.bookable[p]}

monthDayAvailable(p, d) == d \in OpenDays(p) /\ Less(Zero, Room(d))

\* Days available to p before anything is distributed.
Eligible(p) == Cardinality({d \in OpenDays(p) : Less(Kept(week, d), Capacity(d))})

\* Bug: flexible projects go first.
WideFirst(p, q) ==
    \/ Eligible(p) > Eligible(q)
    \/ /\ Eligible(p) = Eligible(q)
       /\ \/ Less(Peak(habit[q], Weekdays), Peak(habit[p], Weekdays))
          \/ Peak(habit[p], Weekdays) = Peak(habit[q], Weekdays) /\ p < q

\* Narrow booking windows first, then strong weekday preferences.
GoesFirst(p, q) ==
    \/ Eligible(p) < Eligible(q)
    \/ /\ Eligible(p) = Eligible(q)
       /\ \/ Less(Peak(habit[q], Weekdays), Peak(habit[p], Weekdays))
          \/ Peak(habit[p], Weekdays) = Peak(habit[q], Weekdays) /\ p < q

First == CHOOSE p \in todo : \A q \in todo \ {p} : GoesFirst(p, q)

Init ==
    /\ past \in Histories
    /\ habit = buildMonthHistories
    /\ week = NoWeek
    /\ total = [d \in Days |-> Zero]
    /\ estimated = [p \in Projects |-> [d \in Days |-> Zero]]
    /\ left = [p \in Projects |-> Zero]
    /\ todo = {}
    /\ pass = 0

\* The next week of the month: its days, and who waits for a distribution.
ReadWeek ==
    /\ week = NoWeek
    /\ \E w \in Weeks[past] :
        /\ week' = w
        /\ total' = [d \in Days |-> Kept(w, d)]
        /\ left' = [p \in Projects |-> Remaining(w, p)]
        /\ todo' = {p \in Projects : Less(Zero, Remaining(w, p))}
    /\ UNCHANGED <<past, habit, estimated, pass>>

\* Capacity that is left, weighted by habit, or by itself when habit has no
\* weight on the days that are left.
ByHabit(p) ==
    [d \in Days |-> IF monthDayAvailable(p, d) THEN Times(Room(d), habit[p][d]) ELSE Zero]

ByRoom(p) == [d \in Days |-> IF monthDayAvailable(p, d) THEN Room(d) ELSE Zero]

Weights(p) == IF Sum(ByHabit(p), Days) # Zero THEN ByHabit(p) ELSE ByRoom(p)

Taken(p, d, weights) ==
    IF weights[d] = Zero
    THEN Zero
    ELSE Smaller(Room(d), Times(left[p], Over(weights[d], Sum(weights, Days))))

Give(p, share) ==
    /\ total' = [d \in Days |-> Plus(total[d], share[d])]
    /\ estimated' = [estimated EXCEPT ![p] = [d \in Days |-> Plus(@[d], share[d])]]
    /\ left' = [left EXCEPT ![p] = Minus(@, Sum(share, Days))]

\* Bug: the weights are computed once, so that a project takes one pass.
FirstPass(p) == pass = 0 /\ left[p] # Zero /\ Sum(ByRoom(p), Days) # Zero

\* At most as many passes as there are days.
HasPass(p) ==
    /\ pass < Cardinality(Days)
    /\ left[p] # Zero
    /\ Sum(ByRoom(p), Days) # Zero

Pass ==
    /\ todo # {}
    /\ HasPass(First)
    /\ Give(First, [d \in Days |-> Taken(First, d, Weights(First))])
    /\ pass' = pass + 1
    /\ UNCHANGED <<week, past, habit, todo>>

\* What is left has no day: it is listed as pending.
NextProject ==
    /\ todo # {}
    /\ ~ HasPass(First)
    /\ todo' = todo \ {First}
    /\ pass' = 0
    /\ UNCHANGED <<week, past, habit, total, estimated, left>>

\* The week is done, and part of the plan.
EndWeek ==
    /\ week # NoWeek /\ todo = {}
    /\ week' = NoWeek
    /\ total' = [d \in Days |-> Zero]
    /\ estimated' = [p \in Projects |-> [d \in Days |-> Zero]]
    /\ left' = [p \in Projects |-> Zero]
    /\ UNCHANGED <<past, habit, todo, pass>>

Next == ReadWeek \/ Pass \/ NextProject \/ EndWeek

Spec == Init /\ [][Next]_vars

-----------------------------------------------------------------------------
\* Neither an hour lost nor one invented, at any point of the distribution: the
\* hours of a project are those booked in the week, on the days that are over
\* where they were, and the others on some day or pending; and the hours of a
\* day are those of the projects on it.
HoursAreKept ==
    week # NoWeek =>
        LET gone == {d \in week.inYear : d < week.today}
        IN  /\ \A p \in Projects :
                Plus(OnDays(week, p, gone), Plus(Sum(estimated[p], Days), left[p]))
                    = OnDays(week, p, week.inYear)
            /\ \A d \in Days :
                LET stays == IF d \in gone THEN week.stored[d] ELSE [p \in Projects |-> 0]
                IN  total[d] =
                        Sum([p \in Projects |-> Plus(<<stays[p], 1>>, estimated[p][d])], Projects)

\* The passes are enough ("At most seven passes are therefore needed"): hours
\* are pending only when every day open to their project is full, and no day is
\* filled beyond its capacity by an estimate.
PendingMeansFull ==
    week # NoWeek =>
        /\ \A p \in Projects \ todo, d \in Days :
            left[p] # Zero /\ d \in OpenDays(p) => ~ Less(Zero, Room(d))
        /\ \A p \in Projects, d \in Days :
            estimated[p][d] # Zero => d \in OpenDays(p) /\ ~ Less(Room(d), Zero)

\* "Flexible projects do not consume their only available days": whoever has
\* hours on a day that is open to a project with pending hours had no more days
\* to choose from than that project.
NarrowWindowsFirst ==
    week # NoWeek =>
        \A p \in Projects \ todo : \A q \in Projects \ {p} :
            left[p] # Zero /\ (\E d \in OpenDays(p) : estimated[q][d] # Zero)
                => Eligible(q) <= Eligible(p)

\* The user worked every past week in proportion to the days there were.
Steady ==
    \A w \in HistoryWeeks, p \in Projects, d, e \in Weekdays :
        AvailableShare(w, d) # Zero /\ AvailableShare(w, e) # Zero =>
            Times(<<past[w].hours[d][p], 1>>, AvailableShare(w, e)) =
            Times(<<past[w].hours[e][p], 1>>, AvailableShare(w, d))

\* Holidays and vacation are not learned as habitual days off: whoever worked
\* in proportion to the days there were is planned evenly.
AbsenceIsNoHabit == week = NoWeek /\ Steady => \A p \in Projects : habit[p] = Uniform

=============================================================================
