-------------------------- MODULE MCForecastService --------------------------
(***************************************************************************)
(* Small instances of ForecastService.  The data file of the first start   *)
(* is the default document or one written by an older version: projects    *)
(* without a fiscal year and a global number of vacation days.             *)
(***************************************************************************)

EXTENDS ForecastService

CONSTANTS n1, a1, d1

ThisYear == 1
OtherYear == 2

EmptyDocument ==
    [year |-> ThisYear, days |-> <<>>, legacyDays |-> 0,
     projects |-> <<>>, hours |-> <<>>]

DefaultDocument == Normalize(EmptyDocument)

LegacyProject ==
    [id |-> ProjectID(1), name |-> n1, assignment |-> a1, fy |-> 0, budget |-> 0,
     start |-> NoDate, end |-> NoDate, vacation |-> FALSE]

LegacyDocument ==
    [EmptyDocument EXCEPT
        !.legacyDays = 3,
        !.projects = <<LegacyProject>>,
        !.hours = [k \in {<<d1, ProjectID(1)>>} |-> 8]]

FirstFiles == {DefaultDocument, LegacyDocument}

OpenWindow == {<<NoDate, NoDate>>}
ReversedWindow == {<<NoDate, NoDate>>, <<2, 1>>}

=============================================================================
