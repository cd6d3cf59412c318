-------------------------- MODULE MCMonthDistribution --------------------------
(***************************************************************************)
(* A small instance of MonthDistribution: a week of three working days and *)
(* a Saturday, two assignments, one of them with a project in each of two  *)
(* years, and three past weeks that are four weeks apart, for which the    *)
(* recency weight of the code is a power of two.                           *)
(***************************************************************************)

EXTENDS MonthDistribution, TLC

WorkWeek == 1 .. 4
Saturday == {4}
PlannedProjects == 1 .. 3
Assignments == 1 :> "a" @@ 2 :> "b" @@ 3 :> "b"

PastWeeks == {3, 7, 11}
HalvedByMonth == 3 :> <<1, 4>> @@ 7 :> <<1, 2>> @@ 11 :> <<1, 1>>

\* Hours of each project on one day of the week.
Booked(hours, day) ==
    [d \in WorkWeek |-> [p \in PlannedProjects |-> IF d = day THEN hours[p] ELSE 0]]

On(day, hours) == [d \in WorkWeek |-> IF d = day THEN hours ELSE 0]

\* Booking windows of the three projects: wide ones, narrow ones within wider ones,
\* and windows that overlap without containing each other.
Windows ==
    {<<WorkWeek, WorkWeek, WorkWeek>>, <<WorkWeek, {2}, {1, 2}>>, <<{1, 2}, WorkWeek, {2, 3}>>,
     <<{2}, {1, 2}, {}>>, <<{1}, {1, 2}, {2, 3}>>}

Amounts == {<<5, 14, 0>>, <<14, 5, 3>>, <<9, 9, 9>>, <<20, 0, 6>>, <<3, 20, 20>>}

\* The second week is the first one of a fiscal year, which cuts it.
AllWeeks ==
    {[stored |-> Booked(hours, booked), vacation |-> On(2, off), holidays |-> free,
      inYear |-> year, today |-> now, bookable |-> open] :
        hours \in Amounts, booked \in {1, 2, 4}, off \in {0, 4},
        free \in {{}, {3}}, year \in {WorkWeek, 2 .. 4}, now \in 1 .. 3, open \in Windows}

PastWeek(hours, off, free) ==
    [hours |-> [d \in 1 .. 3 |-> [p \in PlannedProjects |-> IF p = 3 THEN 0 ELSE hours[p][d]]],
     vacation |-> [d \in 1 .. 3 |-> IF d = 1 THEN off ELSE 0], holidays |-> free]

Idle == PastWeek(<<<<0, 0, 0>>, <<0, 0, 0>>>>, 0, {})
HalfDayOff == PastWeek(<<<<2, 4, 4>>, <<1, 2, 2>>>>, 4, {})
Holiday == PastWeek(<<<<3, 3, 6>>, <<0, 0, 0>>>>, 0, {3})
FirstAndLast == PastWeek(<<<<4, 0, 0>>, <<0, 2, 2>>>>, 0, {})
EarlyAndLate == PastWeek(<<<<2, 2, 0>>, <<0, 0, 4>>>>, 0, {})
MostlyFirst == PastWeek(<<<<4, 2, 2>>, <<2, 1, 1>>>>, 0, {})

Always(routine) == [w \in PastWeeks |-> routine]

PastBookings ==
    [PastWeeks -> {Idle, HalfDayOff, Holiday, FirstAndLast}]
        \cup {Always(EarlyAndLate), Always(MostlyFirst)}

\* The weeks that are planned follow months with simple habits: none, and the
\* same week again and again.
Plain == {Always(r) : r \in {Idle, FirstAndLast, EarlyAndLate, MostlyFirst}}

PlannedWeeks == [routine \in PastBookings |-> IF routine \in Plain THEN AllWeeks ELSE {}]

=============================================================================
