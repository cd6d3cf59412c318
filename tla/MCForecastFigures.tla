-------------------------- MODULE MCForecastFigures --------------------------
(***************************************************************************)
(* A small instance of ForecastFigures around 1 July 2027, where fiscal    *)
(* year 2028 follows 2027: an assignment that runs on, one that has no     *)
(* project in the second year, and the vacation of the first.  The days    *)
(* are the borders of the years, for both start months, a Saturday and a   *)
(* leap day; New Year is a public holiday.  The program runs before, on    *)
(* and after the border, and on the last day of a month with 31 days.      *)
(***************************************************************************)

EXTENDS ForecastFigures, TLC

CONSTANTS a1, a2

ReviewedYears == {2027, 2028}
JulyOrJanuary == {7, 1}

BorderDays ==
    {Date(2027, 1, 1), Date(2027, 6, 26), Date(2027, 6, 30), Date(2027, 7, 1),
     Date(2028, 2, 29)}

RunDays == {Date(2026, 12, 1), Date(2027, 7, 1), Date(2027, 8, 31)}

Project(assignment, year, budget, window, vacation) ==
    [assignment |-> assignment, fiscalYear |-> year, budget |-> budget, active |-> TRUE,
     start |-> window[1], end |-> window[2], vacation |-> vacation]

OpenWindow == <<NoDate, NoDate>>
SummerWindow == <<Date(2027, 6, 28), Date(2027, 7, 31)>>
PastWindow == <<NoDate, Date(2026, 6, 30)>>

ProjectList ==
    <<Project(a1, 2027, 200, OpenWindow, FALSE),
      Project(a1, 2028, 200, SummerWindow, FALSE),
      Project(a2, 2027, 50, PastWindow, FALSE),
      Project(NoAssignment, 2027, 2400, OpenWindow, TRUE)>>

BookingWindows == {OpenWindow, SummerWindow}
PublicHolidays == {Date(2026, 12, 25), Date(2027, 1, 1)}
HorizonShifts == {-300, -1, 0, 1, 300}

Config(weekdayHours, vacationDays, holidayDays, standardTask) ==
    [weekdayHours |-> weekdayHours, vacationDays |-> vacationDays,
     holidayDays |-> holidayDays, standardTask |-> standardTask]

\* The second year has no goal: more is taken off than there is.
HourConfigs ==
    2027 :> Config(0, 30, NoOverride, 1000) @@ 2028 :> Config(2000, 30, 5, 0)

=============================================================================
