---------------------------- MODULE ForecastService ----------------------------
(***************************************************************************)
(* Every request that writes the document: the HTML forms (internal/web),  *)
(* which go through Store.Update, and the JSON API (internal/api), which   *)
(* goes through Store.Mutate.  DocumentStore shows that both are atomic    *)
(* with respect to each other and what a crash inside them leaves; here a  *)
(* write is one step, whose persist may fail.                              *)
(***************************************************************************)

EXTENDS ForecastDocument

CONSTANTS
    InitialFiles,  \* documents the data file may hold at the first start
    Names,
    Assignments,   \* real assignment IDs; NoAssignment is not one of them
    Budgets,       \* project budgets a form or the API may carry
    Windows,       \* <<start, end>> pairs a form or the API may carry
    DayCounts,     \* vacation days a form or the API may carry
    Dates,
    HourValues,    \* hours of an imported entry; 0 deletes
    Absent,        \* a form field or JSON key that was not sent
    MaxCreated,    \* bound: projects created by users
    MaxFailures    \* bound: failed persists

ASSUME ServiceAssumption ==
    /\ NoAssignment \notin Assignments
    /\ Absent \notin Assignments \cup Names
    /\ Budgets \subseteq Nat
    /\ Windows \subseteq Nat \X Nat
    /\ DayCounts \subseteq Nat
    /\ HourValues \subseteq Nat
    /\ MaxCreated \in Nat
    /\ MaxFailures \in Nat

VARIABLES
    mem,       \* Store.data
    disk,      \* the data file
    created,   \* how many IDs newID has returned
    failures   \* how many persists failed

vars == <<mem, disk, created, failures>>

ProjectID(n) == <<"project", n>>
KnownIds == {ProjectID(n) : n \in 1 .. MaxCreated} \cup {VacationProjectID(y) : y \in Years}

\* Projects and documents whose projects are of one of the given fiscal years.
ProjectOf(years) ==
    [id : KnownIds, name : Names \cup {VacationName},
     assignment : Assignments \cup {NoAssignment}, fy : years, budget : Nat,
     start : Nat, end : Nat, vacation : BOOLEAN]

IsDocument(d, years) ==
    /\ d = [year |-> d.year, days |-> d.days, legacyDays |-> d.legacyDays,
            projects |-> d.projects, hours |-> d.hours]
    /\ d.year \in Years
    /\ DOMAIN d.days \subseteq Years /\ d.days \in [DOMAIN d.days -> Nat]
    /\ d.legacyDays \in Nat
    /\ Slots(d) \subseteq Nat \ {0} /\ IsFiniteSet(Slots(d))
    /\ d.projects \in [Slots(d) -> ProjectOf(years)]
    /\ DOMAIN d.hours \subseteq Dates \X KnownIds
    /\ d.hours \in [DOMAIN d.hours -> HourValues \ {0}]

\* An ID made for the vacation of a year is no other project's.
VacationIdsAreVacation(d) ==
    \A i \in Slots(d), y \in Years :
        d.projects[i].id = VacationProjectID(y) => d.projects[i].vacation

\* The data file of the first start was written by this program or by an older
\* version of it: a project without a fiscal year has 0, and joining the active
\* year doubles no assignment there.
IsFile(d) ==
    /\ IsDocument(d, Years \cup {0})
    /\ UniqueIds(d)
    /\ VacationIdsAreVacation(d)
    /\ UniqueAssignments(d)
    /\ UniqueAssignments(MigrateProjects(d))
    /\ EntriesHaveProjects(d)

ASSUME FileAssumption == \A d \in InitialFiles : IsFile(d)

TypeOK ==
    /\ IsDocument(mem, Years)
    /\ IsDocument(disk, Years \cup {0})
    /\ created \in 0 .. MaxCreated
    /\ failures \in 0 .. MaxFailures

\* load: the file as it was found, normalized; only a document created by the
\* first start is persisted.
Init ==
    /\ disk \in InitialFiles
    /\ mem = Normalize(disk)
    /\ created = Top({i \in 0 .. MaxCreated : ProjectID(i) \in ProjectIds(disk)})
    /\ failures = 0

-----------------------------------------------------------------------------
(***************************************************************************)
(* The two ways to write (Store.Update and Store.Mutate).  d is what fn    *)
(* made of the live document or of the working copy.                       *)
(***************************************************************************)
Persisted(d) ==
    \/ /\ disk' = d
       /\ UNCHANGED failures
    \/ /\ failures < MaxFailures
       /\ failures' = failures + 1
       /\ UNCHANGED disk

Update(d) == mem' = d /\ Persisted(d)

\* fn returned an error after it had changed the live document to d.
UpdateRefused(d) == mem' = d /\ UNCHANGED <<disk, failures>>

\* Bug: the working copy is swapped in without being validated.
MutateUnchecked(d) ==
    \/ mem' = Normalize(d) /\ disk' = Normalize(d) /\ UNCHANGED failures
    \/ UNCHANGED <<mem, disk, failures>>

Mutate(d) ==
    \/ /\ Validate(Normalize(d))
       /\ mem' = Normalize(d)
       /\ disk' = Normalize(d)
       /\ UNCHANGED failures
    \/ /\ Validate(Normalize(d))
       /\ failures < MaxFailures
       /\ failures' = failures + 1
       /\ UNCHANGED <<mem, disk>>
    \/ /\ ~Validate(Normalize(d))
       /\ UNCHANGED <<mem, disk, failures>>

-----------------------------------------------------------------------------
(***************************************************************************)
(* Projects, through the forms.                                            *)
(***************************************************************************)
\* Bug: the row being edited is looked up in the active fiscal year.
AssignmentTakenInActiveYear(a, y, exceptID) ==
    a # NoAssignment /\ \E i \in Slots(mem) :
        /\ mem.projects[i].id # exceptID
        /\ mem.projects[i].fy = mem.year
        /\ mem.projects[i].assignment = a

assignmentTaken(a, y, exceptID) ==
    a # NoAssignment /\ \E i \in Slots(mem) :
        /\ mem.projects[i].id # exceptID
        /\ mem.projects[i].fy = y
        /\ mem.projects[i].assignment = a

NobodysID == ProjectID(0)

NewProject(name, a, budget, y, window) ==
    [id |-> ProjectID(created + 1), name |-> name, assignment |-> a, fy |-> y,
     budget |-> budget, start |-> window[1], end |-> window[2],
     vacation |-> FALSE]

WithProject(d, p) == [d EXCEPT !.projects = AppendProject(@, p)]

handleProjectCreate(name, a, budget, window) ==
    /\ created < MaxCreated
    /\ ~assignmentTaken(a, mem.year, NobodysID)
    /\ Update(WithProject(mem, NewProject(name, a, budget, mem.year, window)))
    /\ created' = created + 1

FormBudget(p, budget) == IF p.vacation THEN p.budget ELSE budget

\* A form field that was left empty keeps the stored name and assignment; the
\* budget and the window are always overwritten.
FormName(p, name) == IF name = Absent THEN p ELSE [p EXCEPT !.name = name]
FormRow(p, name, a, budget, window) ==
    [FormName(p, name) EXCEPT
        !.assignment = IF a = Absent THEN @ ELSE a,
        !.budget = FormBudget(p, budget),
        !.start = window[1],
        !.end = window[2]]

\* The handler walks the rows with this ID.  A row whose assignment is taken
\* ends the walk with an error, after its name was set.
handleProjectUpdate(id, name, a, budget, window) ==
    LET Rows == {i \in Slots(mem) : mem.projects[i].id = id}
        Taken == {i \in Rows : a # Absent /\ assignmentTaken(a, mem.projects[i].fy, id)}
        Walked(i) == i \in Rows /\ \A j \in Taken : i < j
        Changed == [mem EXCEPT !.projects =
                       [i \in Slots(mem) |->
                           IF Walked(i) THEN FormRow(mem.projects[i], name, a, budget, window)
                           ELSE IF IsFirst(i, Taken) THEN FormName(mem.projects[i], name)
                           ELSE mem.projects[i]]]
    IN  /\ IF Taken = {} THEN Update(Changed) ELSE UpdateRefused(Changed)
        /\ UNCHANGED created

\* Forms that change only fields left out here still persist the whole
\* document: whether a project is active, and the utilization thresholds.
handleProjectActive ==
    /\ Update(mem)
    /\ UNCHANGED created

KeepProjects(d, S) == [d EXCEPT !.projects = [i \in S |-> d.projects[i]]]

\* Bug: the project goes, its entries stay.
WithoutProjectOnly(d, id) ==
    KeepProjects(d, {i \in Slots(d) : d.projects[i].id # id})

\* The project and all of its entries.
WithoutProject(d, id) ==
    [KeepProjects(d, {i \in Slots(d) : d.projects[i].id # id}) EXCEPT
        !.hours = [k \in {k \in DOMAIN d.hours : k[2] # id} |-> d.hours[k]]]

IsVacation(d, id) == \E i \in Slots(d) : d.projects[i].id = id /\ d.projects[i].vacation

Undeletable(d, id) == IsVacation(d, id)

\* Of rows that share an ID, the form keeps a vacation row and drops the rest;
\* IDs of ordinary projects are never reused, so either all rows go or none.
handleProjectDelete(id) ==
    /\ IF id \in ProjectIds(mem) /\ ~Undeletable(mem, id)
       THEN Update(WithoutProject(mem, id))
       ELSE Update(mem)
    /\ UNCHANGED created

-----------------------------------------------------------------------------
(***************************************************************************)
(* Settings, through the forms.  They always edit the active fiscal year.  *)
(***************************************************************************)
SetDays(d, y, n) ==
    [d EXCEPT !.days = [z \in DOMAIN d.days \cup {y} |-> IF z = y THEN n ELSE d.days[z]]]

\* Bug: the vacation project is not told of the new number of days.
WithDaysUnsynced(d, y, n) == SetDays(d, y, IF n = Absent THEN FYFor(d, y) ELSE n)

\* Saving a fiscal year stores all of its settings, also the defaults that
\* were only assumed so far, and synchronizes the vacation budget.
WithDays(d, y, n) ==
    EnsureVacationProject(SetDays(d, y, IF n = Absent THEN FYFor(d, y) ELSE n), y)

handleSettingsSave(n) ==
    /\ Update(WithDays(mem, mem.year, n))
    /\ UNCHANGED created

\* Bug: the header only switches the year.
SwitchYearOnly(d, y) == [d EXCEPT !.year = y]
SwitchYear(d, y) == EnsureVacationProject([d EXCEPT !.year = y], y)

handleSetActiveFY(y) ==
    /\ Update(SwitchYear(mem, y))
    /\ UNCHANGED created

-----------------------------------------------------------------------------
(***************************************************************************)
(* The JSON API.                                                           *)
(***************************************************************************)

Known(d, batch) == {k \in DOMAIN batch : k[2] \in ProjectIds(d)}

\* What the loop over the batch amounts to (SyncEntries models the loop
\* itself): unknown projects are skipped, 0 deletes, the rest is stored.
WithBatch(d, batch) ==
    LET Stored == {k \in Known(d, batch) : batch[k] > 0}
    IN  [d EXCEPT !.hours = [k \in (DOMAIN d.hours \ Known(d, batch)) \cup Stored |->
                                IF k \in Stored THEN batch[k] ELSE d.hours[k]]]

handleSyncEntries(batch) ==
    /\ Mutate(WithBatch(mem, batch))
    /\ UNCHANGED created

handleCreateProject(name, a, budget, y, window) ==
    /\ created < MaxCreated
    /\ Mutate(WithProject(mem,
           NewProject(name, a, budget, IF y = Absent THEN mem.year ELSE y, window)))
    /\ created' = created + 1

\* A key that was not sent leaves the field alone.
Sent(value, old) == IF value = Absent THEN old ELSE value

ApiRow(p, in) ==
    [p EXCEPT
        !.name = Sent(in.name, @),
        !.assignment = Sent(in.assignment, @),
        !.budget = IF p.vacation THEN @ ELSE Sent(in.budget, @),
        !.fy = Sent(in.fy, @),
        !.start = Sent(in.start, @),
        !.end = Sent(in.end, @)]

handleUpdateProject(id, in) ==
    /\ Mutate([mem EXCEPT !.projects =
                  [i \in Slots(mem) |->
                      IF mem.projects[i].id = id THEN ApiRow(mem.projects[i], in)
                      ELSE mem.projects[i]]])
    /\ UNCHANGED created

handleDeleteProject(id) ==
    /\ Mutate(IF id \in ProjectIds(mem) /\ ~Undeletable(mem, id)
              THEN WithoutProject(mem, id) ELSE mem)
    /\ UNCHANGED created

\* Also every other Mutate that changes no field of this model: the language,
\* the AI settings, the planning prompts and the imported accuracy.
handleUpdateSettings(y) ==
    /\ Mutate(SwitchYear(mem, Sent(y, mem.year)))
    /\ UNCHANGED created

handleUpdateFYSettings(y, n) ==
    /\ Mutate(WithDays(mem, y, n))
    /\ UNCHANGED created

-----------------------------------------------------------------------------
\* The process ends and is started again.
Restart ==
    /\ mem' = Normalize(disk)
    /\ UNCHANGED <<disk, created, failures>>

Batches == UNION {[{k} -> HourValues] : k \in Dates \X KnownIds}

\* One JSON object per request: either one plain field, or the window.
NothingSent ==
    [name |-> Absent, assignment |-> Absent, budget |-> Absent, fy |-> Absent,
     start |-> Absent, end |-> Absent]

ProjectInputs ==
         {[NothingSent EXCEPT !.name = n] : n \in Names}
    \cup {[NothingSent EXCEPT !.assignment = a] : a \in Assignments}
    \cup {[NothingSent EXCEPT !.budget = b] : b \in Budgets}
    \cup {[NothingSent EXCEPT !.fy = y] : y \in Years}
    \cup {[NothingSent EXCEPT !.start = w[1]] : w \in Windows}
    \cup {[NothingSent EXCEPT !.start = w[1], !.end = w[2]] : w \in Windows}

WebNext ==
    \/ \E n \in Names, a \in Assignments, b \in Budgets, w \in Windows :
           handleProjectCreate(n, a, b, w)
    \/ \E id \in ProjectIds(mem), n \in Names \cup {Absent}, a \in Assignments \cup {Absent},
          b \in Budgets, w \in Windows :
           handleProjectUpdate(id, n, a, b, w)
    \/ handleProjectActive
    \/ \E id \in ProjectIds(mem) : handleProjectDelete(id)
    \/ \E n \in DayCounts \cup {Absent} : handleSettingsSave(n)
    \/ \E y \in Years : handleSetActiveFY(y)

ApiNext ==
    \/ \E batch \in Batches : handleSyncEntries(batch)
    \/ \E n \in Names, a \in Assignments, b \in Budgets, y \in Years \cup {Absent}, w \in Windows :
           handleCreateProject(n, a, b, y, w)
    \/ \E id \in ProjectIds(mem), in \in ProjectInputs : handleUpdateProject(id, in)
    \/ \E id \in ProjectIds(mem) : handleDeleteProject(id)
    \/ \E y \in Years \cup {Absent} : handleUpdateSettings(y)
    \/ \E y \in Years, n \in DayCounts \cup {Absent} : handleUpdateFYSettings(y, n)

Next == WebNext \/ ApiNext \/ Restart

Spec == Init /\ [][Next]_vars

-----------------------------------------------------------------------------
\* Every entry belongs to a project of its document: an orphan would make
\* every later Mutate fail.
NoOrphanEntries == EntriesHaveProjects(mem) /\ EntriesHaveProjects(disk)

\* Whoever writes, an assignment appears at most once per fiscal year, so that
\* its pooled hours are not counted twice.
AssignmentOncePerYear == UniqueAssignments(mem) /\ UniqueAssignments(disk)

\* The active fiscal year has a vacation project, and the budget of the one
\* in use follows the vacation days of that year.
ActiveVacationBudgetFollowsDays ==
    LET V == VacationSlots(mem, mem.year)
    IN  V # {} /\ \A i \in V : IsFirst(i, V) => mem.projects[i].budget = VacationBudget(mem, mem.year)

\* The normalization in every Mutate and at every start brings no surprise: on
\* a document the handlers produced it moves no project, no entry and no number
\* of vacation days of any year.
NormalizeKeepsMeaning ==
    LET d == Normalize(mem)
    IN  /\ d.projects = mem.projects
        /\ d.hours = mem.hours
        /\ \A y \in Years : FYFor(d, y) = FYFor(mem, y)

\* Forms write without Validate; still, the only way to two projects with one
\* ID is a vacation project that the API moved out of its own fiscal year.
DuplicateIdsOnlyByMovedVacation ==
    UniqueIds(mem) \/ \E i \in Slots(mem) :
        mem.projects[i].vacation /\ mem.projects[i].id # VacationProjectID(mem.projects[i].fy)

\* The claim of docs/PLAN.md that writes "go through Update/Mutate (copy,
\* mutate, normalize, validate, persist)": the document in memory is valid.
DocumentAlwaysValid == Validate(mem)

\* .github/instructions: each fiscal year has exactly one vacation project,
\* with the stable id vacation-<year>.
StableVacationProject ==
    \A i \in Slots(mem) :
        mem.projects[i].vacation =>
            /\ mem.projects[i].id = VacationProjectID(mem.projects[i].fy)
            /\ VacationSlots(mem, mem.projects[i].fy) = {i}

\* What those two documents say of the document: at least one of them is right
\* of every document, as both should be.  The code ensures neither: a form
\* stores a reversed window, the API moves a vacation project, and one document
\* can have been through both.
DocumentAsDescribed == DocumentAlwaysValid \/ StableVacationProject

=============================================================================
