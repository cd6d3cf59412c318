--------------------------- MODULE ForecastDocument ---------------------------
(***************************************************************************)
(* The persisted document (models.Data) and the functions that keep it     *)
(* consistent: storage.normalize, models.EnsureVacationProject and         *)
(* models.Validate.                                                        *)
(*                                                                         *)
(* A document is a record                                                  *)
(*   year        the active fiscal year                                    *)
(*   days        vacation days of the configured fiscal years              *)
(*   legacyDays  the deprecated global annualVacationDays, 0 when absent   *)
(*   projects    slot -> project; the order of the slots is the order of   *)
(*               the project list, and an appended project gets a slot     *)
(*               above all others                                          *)
(*   hours       <<date, project id>> -> hours                             *)
(* Entries are a function because mergeEntries leaves one value per date   *)
(* and project and no zero, and no handler appends a second one.  Fields   *)
(* that no rule of the document relates to another (colour, active flag,   *)
(* language, state, thresholds, prompts, AI deployment) are left out.      *)
(***************************************************************************)

EXTENDS Integers, FiniteSets

CONSTANTS
    Years,        \* the fiscal years requests name, all within MinYear..MaxYear
    DayHours,     \* vacationDayHours
    DefaultDays,  \* DefaultFYSettings().VacationDays
    NoAssignment, \* an empty assignment ID
    VacationName  \* "Urlaub"

ASSUME DocumentAssumption ==
    /\ Years \subseteq Nat \ {0}
    /\ DayHours \in Nat
    /\ DefaultDays \in Nat

NoDate == 0

VacationProjectID(y) == <<"vacation", y>>

Slots(d) == DOMAIN d.projects
ProjectIds(d) == {d.projects[i].id : i \in Slots(d)}

IsFirst(i, S) == i \in S /\ \A j \in S : i <= j
Top(S) == IF S = {} THEN 0 ELSE CHOOSE i \in S : \A j \in S : j <= i

AppendProject(ps, p) == [i \in DOMAIN ps \cup {Top(DOMAIN ps) + 1} |->
                     IF i \in DOMAIN ps THEN ps[i] ELSE p]

\* Data.FYFor, VacationDays only.
FYFor(d, y) ==
    IF y \in DOMAIN d.days THEN d.days[y]
    ELSE IF d.legacyDays > 0 THEN d.legacyDays
    ELSE DefaultDays

VacationBudget(d, y) == FYFor(d, y) * DayHours

VacationSlots(d, y) == {i \in Slots(d) : d.projects[i].vacation /\ d.projects[i].fy = y}

VacationProject(d, y) ==
    [id |-> VacationProjectID(y), name |-> VacationName, assignment |-> NoAssignment,
     fy |-> y, budget |-> VacationBudget(d, y), start |-> NoDate, end |-> NoDate, vacation |-> TRUE]

\* The first vacation project of the year has its budget synchronized; when
\* there is none, one is appended.
EnsureVacationProject(d, y) ==
    IF VacationSlots(d, y) = {}
    THEN [d EXCEPT !.projects = AppendProject(@, VacationProject(d, y))]
    ELSE [d EXCEPT !.projects =
            [i \in Slots(d) |->
                IF IsFirst(i, VacationSlots(d, y))
                THEN [d.projects[i] EXCEPT !.budget = VacationBudget(d, y)]
                ELSE d.projects[i]]]

\* Legacy documents: projects without a fiscal year join the active one, and
\* the global vacation days become those of the active fiscal year.
MigrateProjects(d) ==
    [d EXCEPT !.projects =
        [i \in Slots(d) |->
            IF d.projects[i].fy = 0 THEN [d.projects[i] EXCEPT !.fy = d.year]
            ELSE d.projects[i]]]

MigrateDays(d) ==
    IF d.year \in DOMAIN d.days \/ d.legacyDays = 0 THEN d
    ELSE [d EXCEPT !.days =
            [y \in DOMAIN d.days \cup {d.year} |->
                IF y \in DOMAIN d.days THEN d.days[y] ELSE d.legacyDays]]

Normalize(d) == EnsureVacationProject(MigrateDays(MigrateProjects(d)), d.year)

-----------------------------------------------------------------------------
\* The clauses of Validate, by the field they guard.
UniqueIds(d) ==
    \A i, j \in Slots(d) : d.projects[i].id = d.projects[j].id => i = j

\* An assignment is pooled across fiscal years, so it appears at most once in
\* each of them.
UniqueAssignments(d) ==
    \A i, j \in Slots(d) :
        /\ d.projects[i].assignment # NoAssignment
        /\ d.projects[i].assignment = d.projects[j].assignment
        /\ d.projects[i].fy = d.projects[j].fy
        => i = j

WindowOrdered(p) == p.start # NoDate /\ p.end # NoDate => p.start <= p.end
OrderedWindows(d) == \A i \in Slots(d) : WindowOrdered(d.projects[i])

EntriesHaveProjects(d) == \A k \in DOMAIN d.hours : k[2] \in ProjectIds(d)

Validate(d) ==
    UniqueIds(d) /\ UniqueAssignments(d) /\ OrderedWindows(d) /\ EntriesHaveProjects(d)

=============================================================================
