--------------------------- MODULE MCMonthPlanning ---------------------------
(***************************************************************************)
(* Seven days in two weeks and four months.  Month 1 shares its first week *)
(* with the end of month 0 and its second one with month 2; that week      *)
(* ends, after the fiscal year, with a day of month 3.  The work of the    *)
(* first week may go to days 2 and 3; in the second one, two projects have *)
(* bookings on days of month 2, one of which is closed.                    *)
(***************************************************************************)

EXTENDS MonthPlanning

CONSTANTS a, b, holiday

FourMonths == <<0, 1, 1, 1, 2, 2, 3>>
TwoWeeks == <<1, 1, 1, 2, 2, 2, 2>>

Booked == {<<2, a>>, <<4, b>>, <<5, a>>, <<6, b>>, <<7, a>>}
Entries == [k \in Slots |-> IF k \in Booked THEN 1 ELSE 0]

Single(k, h) == [x \in {k} |-> h]

\* The two projects change places on the days of month 2.
Swap == [k \in {5, 6} \X {a, b} |-> IF k \in Booked THEN 0 ELSE 1]

\* A booking of month 0; one of month 1 that goes; vacation; and the exchange.
Requests ==
    {Single(<<1, b>>, 1), Single(<<2, a>>, 0), Single(<<3, holiday>>, 1), Swap}

=============================================================================
