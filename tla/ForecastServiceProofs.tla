------------------------ MODULE ForecastServiceProofs ------------------------
(***************************************************************************)
(* Proofs about every request that writes the document, for any years,     *)
(* projects, inputs and first data files.                                  *)
(*                                                                         *)
(* The forms write without Validate, so what they keep has to be an        *)
(* inductive invariant of their own.  UniqueIds is not one: the API may    *)
(* move a vacation project to another year, after which the old year gets  *)
(* a second project with the same ID.  What does hold is that projects     *)
(* with one ID are vacation projects of different years (SharedIds), and   *)
(* this is just what keeps a form that edits them from storing an          *)
(* assignment twice in a year.                                             *)
(***************************************************************************)

EXTENDS ForecastService, SyncEntries, DataLemmas, TLAPS

\* Projects that share an ID are vacation projects of different years.
SharedIds(d) ==
    \A i, j \in Slots(d) :
        /\ i # j
        /\ d.projects[i].id = d.projects[j].id
        => /\ d.projects[i].vacation
           /\ d.projects[j].vacation
           /\ d.projects[i].fy # d.projects[j].fy

\* newID has not returned an ID above c, so the next one is nobody's.
IssuedIds(d, c) ==
    \A i \in Slots(d), n \in Nat : d.projects[i].id = ProjectID(n) => n <= c

Shaped(d, years, c) ==
    IsDocument(d, years) /\ VacationIdsAreVacation(d) /\ IssuedIds(d, c)

Consistent(d) == SharedIds(d) /\ UniqueAssignments(d) /\ EntriesHaveProjects(d)

Good(d, c) == Shaped(d, Years, c) /\ Consistent(d)

\* A document that a start can read: a good one, or a file of an older version.
Loadable(d, c) ==
    /\ Shaped(d, Years \cup {0}, c)
    /\ UniqueAssignments(d)
    /\ Consistent(MigrateProjects(d))

\* The first vacation project of the year has the budget of its days.
Synchronized(d, y) ==
    /\ VacationSlots(d, y) # {}
    /\ \A i \in VacationSlots(d, y) :
           IsFirst(i, VacationSlots(d, y)) => d.projects[i].budget = VacationBudget(d, y)

MemoryInv == Good(mem, created) /\ Synchronized(mem, mem.year)
DiskInv == Loadable(disk, created)
CountsInv == created \in 0 .. MaxCreated /\ failures \in 0 .. MaxFailures

Inv == MemoryInv /\ DiskInv /\ CountsInv

-----------------------------------------------------------------------------
(***************************************************************************)
(* Documents, field by field.                                              *)
(***************************************************************************)

\* Changing one field leaves the others, and only these five, as they were.
LEMMA ChangedField ==
    ASSUME NEW d,
           d = [year |-> d.year, days |-> d.days, legacyDays |-> d.legacyDays,
                projects |-> d.projects, hours |-> d.hours],
           NEW x
    PROVE  /\ [d EXCEPT !.year = x] =
                  [year |-> x, days |-> d.days, legacyDays |-> d.legacyDays,
                   projects |-> d.projects, hours |-> d.hours]
           /\ [d EXCEPT !.days = x] =
                  [year |-> d.year, days |-> x, legacyDays |-> d.legacyDays,
                   projects |-> d.projects, hours |-> d.hours]
           /\ [d EXCEPT !.projects = x] =
                  [year |-> d.year, days |-> d.days, legacyDays |-> d.legacyDays,
                   projects |-> x, hours |-> d.hours]
           /\ [d EXCEPT !.hours = x] =
                  [year |-> d.year, days |-> d.days, legacyDays |-> d.legacyDays,
                   projects |-> d.projects, hours |-> x]
<1>1. PICK a, b, c, e, f :
          d = [year |-> a, days |-> b, legacyDays |-> c, projects |-> e, hours |-> f]
  OBVIOUS
<1> QED
  BY <1>1

\* Top is an upper bound of a finite set of slots, so the slot above it is free.
LEMMA TopIsBound ==
    ASSUME NEW S \in SUBSET Nat, IsFiniteSet(S)
    PROVE  /\ Top(S) \in Nat /\ \A n \in S : n <= Top(S)
           /\ Top(S) = 0 \/ Top(S) \in S
<1>1. CASE S = {}
  BY <1>1 DEF Top
<1>2. CASE S # {}
  <2>1. \E i \in S : \A j \in S : j <= i
    BY <1>2, FiniteHasGreatest
  <2>2. Top(S) \in S /\ \A j \in S : j <= Top(S)
    BY <1>2, <2>1 DEF Top
  <2> QED
    BY <2>2
<1> QED
  BY <1>1, <1>2

\* The slot of an appended project is a new one.
LEMMA NextSlot ==
    ASSUME NEW S \in SUBSET (Nat \ {0}), IsFiniteSet(S)
    PROVE  /\ Top(S) + 1 \in (Nat \ {0}) \ S
           /\ IsFiniteSet(S \cup {Top(S) + 1})
<1>1. Top(S) \in Nat /\ \A n \in S : n <= Top(S)
  BY TopIsBound
<1>2. IsFiniteSet(S \cup {Top(S) + 1})
  BY FS_AddElement
<1> QED
  BY <1>1, <1>2

-----------------------------------------------------------------------------
(***************************************************************************)
(* What two documents with corresponding rows have in common.              *)
(***************************************************************************)

\* Nothing that tells the projects of d and e apart: ID, assignment, year and
\* kind are the same, name, budget and window may differ.
SameProjects(d, e) ==
    /\ Slots(e) = Slots(d)
    /\ \A i \in Slots(d) :
           /\ e.projects[i].id = d.projects[i].id
           /\ e.projects[i].assignment = d.projects[i].assignment
           /\ e.projects[i].fy = d.projects[i].fy
           /\ e.projects[i].vacation <=> d.projects[i].vacation

\* e has one more project than d, in slot s.
OneMore(d, e, s) ==
    /\ s \notin Slots(d)
    /\ Slots(e) = Slots(d) \cup {s}
    /\ \A i \in Slots(d) : e.projects[i] = d.projects[i]

\* The consistency of a document is a matter of these fields only.
LEMMA SameProjectsConsistent ==
    ASSUME NEW d, NEW e, NEW c, SameProjects(d, e), e.hours = d.hours
    PROVE  /\ VacationIdsAreVacation(d) => VacationIdsAreVacation(e)
           /\ IssuedIds(d, c) => IssuedIds(e, c)
           /\ Consistent(d) => Consistent(e)
<1>1. VacationIdsAreVacation(d) => VacationIdsAreVacation(e)
  BY DEF SameProjects, VacationIdsAreVacation
<1>2. IssuedIds(d, c) => IssuedIds(e, c)
  BY DEF SameProjects, IssuedIds
<1>3. SharedIds(d) => SharedIds(e)
  BY DEF SameProjects, SharedIds
<1>4. UniqueAssignments(d) => UniqueAssignments(e)
  BY DEF SameProjects, UniqueAssignments
<1>5. ProjectIds(e) = ProjectIds(d)
  BY DEF SameProjects, ProjectIds
<1>6. EntriesHaveProjects(d) => EntriesHaveProjects(e)
  BY <1>5 DEF EntriesHaveProjects
<1> QED
  BY <1>1, <1>2, <1>3, <1>4, <1>6 DEF Consistent

\* A new project keeps a document consistent when its assignment is free in its
\* year, and its ID is nobody's or that of vacation projects of other years.
LEMMA OneMoreConsistent ==
    ASSUME NEW d, NEW e, NEW s, OneMore(d, e, s), e.hours = d.hours, Consistent(d),
           \A i \in Slots(d) :
               /\ d.projects[i].assignment = e.projects[s].assignment
               /\ d.projects[i].fy = e.projects[s].fy
               => e.projects[s].assignment = NoAssignment,
           \A i \in Slots(d) :
               d.projects[i].id = e.projects[s].id =>
                   /\ d.projects[i].vacation
                   /\ e.projects[s].vacation
                   /\ d.projects[i].fy # e.projects[s].fy
    PROVE  Consistent(e)
<1>1. SharedIds(e)
  <2> SUFFICES ASSUME NEW i \in Slots(e), NEW j \in Slots(e), i # j,
                      e.projects[i].id = e.projects[j].id
               PROVE  /\ e.projects[i].vacation
                      /\ e.projects[j].vacation
                      /\ e.projects[i].fy # e.projects[j].fy
    BY DEF SharedIds
  <2>1. CASE i \in Slots(d) /\ j \in Slots(d)
    BY <2>1 DEF OneMore, Consistent, SharedIds
  <2>2. CASE i = s \/ j = s
    BY <2>2 DEF OneMore
  <2> QED
    BY <2>1, <2>2 DEF OneMore
<1>2. UniqueAssignments(e)
  <2> SUFFICES ASSUME NEW i \in Slots(e), NEW j \in Slots(e),
                      e.projects[i].assignment # NoAssignment,
                      e.projects[i].assignment = e.projects[j].assignment,
                      e.projects[i].fy = e.projects[j].fy
               PROVE  i = j
    BY DEF UniqueAssignments
  <2>1. CASE i \in Slots(d) /\ j \in Slots(d)
    BY <2>1 DEF OneMore, Consistent, UniqueAssignments
  <2>2. CASE i = s \/ j = s
    BY <2>2 DEF OneMore
  <2> QED
    BY <2>1, <2>2 DEF OneMore
<1>3. ProjectIds(d) \subseteq ProjectIds(e)
  BY DEF OneMore, ProjectIds
<1>4. EntriesHaveProjects(e)
  BY <1>3 DEF Consistent, EntriesHaveProjects
<1> QED
  BY <1>1, <1>2, <1>4 DEF Consistent

\* An appended project, as documents see it.
LEMMA AppendedProject ==
    ASSUME NEW years, NEW d, IsDocument(d, years), NEW p \in ProjectOf(years),
           NEW e, e = WithProject(d, p)
    PROVE  /\ IsDocument(e, years)
           /\ e.year = d.year /\ e.days = d.days /\ e.legacyDays = d.legacyDays
           /\ e.hours = d.hours
           /\ \E s \in Slots(e) : OneMore(d, e, s) /\ e.projects[s] = p
<1>1. e = [year |-> d.year, days |-> d.days, legacyDays |-> d.legacyDays,
           projects |-> AppendProject(d.projects, p), hours |-> d.hours]
  BY ChangedField DEF IsDocument, WithProject
<1>2. PICK s : s = Top(Slots(d)) + 1
  OBVIOUS
<1>3. /\ Slots(d) \subseteq Nat \ {0}
      /\ d.projects \in [Slots(d) -> ProjectOf(years)]
  BY DEF IsDocument
<1>4. s \in (Nat \ {0}) \ Slots(d) /\ IsFiniteSet(Slots(d) \cup {s})
  BY <1>2, NextSlot DEF IsDocument
<1>5. AppendProject(d.projects, p) =
          [i \in Slots(d) \cup {s} |-> IF i \in Slots(d) THEN d.projects[i] ELSE p]
  BY <1>2 DEF AppendProject, Slots
<1>6. PICK qs : qs = [i \in Slots(d) \cup {s} |-> IF i \in Slots(d) THEN d.projects[i] ELSE p]
  OBVIOUS
<1>7. /\ qs \in [Slots(d) \cup {s} -> ProjectOf(years)]
      /\ \A i \in Slots(d) : qs[i] = d.projects[i]
      /\ qs[s] = p
  BY <1>3, <1>4, <1>6
<1>8. e = [year |-> d.year, days |-> d.days, legacyDays |-> d.legacyDays,
           projects |-> qs, hours |-> d.hours]
  BY <1>1, <1>5, <1>6
<1>9. /\ e.year = d.year /\ e.days = d.days /\ e.legacyDays = d.legacyDays
      /\ e.hours = d.hours /\ e.projects = qs
      /\ e = [year |-> e.year, days |-> e.days, legacyDays |-> e.legacyDays,
              projects |-> e.projects, hours |-> e.hours]
  <2>1. /\ e.year = d.year /\ e.days = d.days /\ e.legacyDays = d.legacyDays
        /\ e.hours = d.hours /\ e.projects = qs
    BY <1>8
  <2> QED
    BY <1>8, <2>1
<1>10. Slots(e) = Slots(d) \cup {s}
  BY <1>7, <1>9 DEF Slots
<1>11. IsDocument(e, years)
  BY <1>3, <1>4, <1>7, <1>9, <1>10 DEF IsDocument
<1>12. OneMore(d, e, s) /\ e.projects[s] = p
  BY <1>4, <1>7, <1>9, <1>10 DEF OneMore
<1> QED
  BY <1>9, <1>10, <1>11, <1>12

\* Rows changed in place.
WithProjects(d, ps) == [d EXCEPT !.projects = ps]

\* The same, as documents see it.
LEMMA ChangedProjects ==
    ASSUME NEW years, NEW later, NEW d, IsDocument(d, years),
           NEW ps, ps \in [Slots(d) -> ProjectOf(later)],
           NEW e, e = WithProjects(d, ps)
    PROVE  /\ IsDocument(e, later)
           /\ e.year = d.year /\ e.days = d.days /\ e.legacyDays = d.legacyDays
           /\ e.hours = d.hours /\ e.projects = ps /\ Slots(e) = Slots(d)
<1>1. e = [year |-> d.year, days |-> d.days, legacyDays |-> d.legacyDays,
           projects |-> ps, hours |-> d.hours]
  BY ChangedField DEF IsDocument, WithProjects
<1>2. /\ e.year = d.year /\ e.days = d.days /\ e.legacyDays = d.legacyDays
      /\ e.hours = d.hours /\ e.projects = ps
      /\ e = [year |-> e.year, days |-> e.days, legacyDays |-> e.legacyDays,
              projects |-> e.projects, hours |-> e.hours]
  BY <1>1
<1>3. Slots(e) = Slots(d)
  BY <1>2 DEF Slots
<1>4. IsDocument(e, later)
  BY <1>2, <1>3 DEF IsDocument
<1> QED
  BY <1>2, <1>3, <1>4

-----------------------------------------------------------------------------
(***************************************************************************)
(* Vacation days and the vacation project.                                 *)
(***************************************************************************)

\* Days and budgets are numbers.
LEMMA BudgetType ==
    ASSUME NEW years, NEW d, IsDocument(d, years), NEW y
    PROVE  FYFor(d, y) \in Nat /\ VacationBudget(d, y) \in Nat
<1>1. PICK days, legacy : days = d.days /\ legacy = d.legacyDays
  OBVIOUS
<1>2. days \in [DOMAIN days -> Nat] /\ legacy \in Nat
  BY <1>1 DEF IsDocument
<1>3. FYFor(d, y) \in Nat
  BY <1>1, <1>2, DocumentAssumption DEF FYFor
<1>4. \A m, n \in Nat : m * n \in Nat
  OBVIOUS
<1> QED
  BY <1>3, <1>4, DocumentAssumption DEF VacationBudget

\* They depend on the settings alone.
LEMMA BudgetOfDays ==
    ASSUME NEW d, NEW e, NEW y, e.days = d.days, e.legacyDays = d.legacyDays
    PROVE  FYFor(e, y) = FYFor(d, y) /\ VacationBudget(e, y) = VacationBudget(d, y)
  BY DEF FYFor, VacationBudget

\* IDs of projects are not those of vacation projects, and each kind is
\* numbered without repetition.
LEMMA DifferentIds ==
    /\ \A n, y : ProjectID(n) # VacationProjectID(y)
    /\ \A m, n : ProjectID(m) = ProjectID(n) => m = n
    /\ \A y, z : VacationProjectID(y) = VacationProjectID(z) => y = z
<1>1. "project" # "vacation"
  OBVIOUS
<1> QED
  BY <1>1 DEF ProjectID, VacationProjectID

\* EnsureVacationProject leaves the year synchronized and a consistent document
\* consistent, although the ID of the project it appends may be in use.
LEMMA EnsureCorrect ==
    ASSUME NEW d, NEW c, Shaped(d, Years, c), NEW y \in Years,
           NEW e, e = EnsureVacationProject(d, y)
    PROVE  /\ Shaped(e, Years, c)
           /\ e.year = d.year /\ e.days = d.days /\ e.legacyDays = d.legacyDays
           /\ e.hours = d.hours
           /\ Consistent(d) => Consistent(e)
           /\ Synchronized(e, y)
<1>1. IsDocument(d, Years) /\ VacationIdsAreVacation(d) /\ IssuedIds(d, c)
  BY DEF Shaped
<1>2. VacationBudget(d, y) \in Nat
  BY <1>1, BudgetType
<1>3. CASE VacationSlots(d, y) = {}
  <2>1. PICK p : p = VacationProject(d, y)
    OBVIOUS
  <2>2. p \in ProjectOf(Years)
    BY <1>2, <2>1 DEF VacationProject, ProjectOf, KnownIds, NoDate
  <2>3. e = WithProject(d, p)
    BY <1>3, <2>1 DEF EnsureVacationProject, WithProject
  <2>4. /\ IsDocument(e, Years)
        /\ e.year = d.year /\ e.days = d.days /\ e.legacyDays = d.legacyDays
        /\ e.hours = d.hours
        /\ \E s \in Slots(e) : OneMore(d, e, s) /\ e.projects[s] = p
    BY <1>1, <2>2, <2>3, AppendedProject
  <2>5. PICK s \in Slots(e) : OneMore(d, e, s) /\ e.projects[s] = p
    BY <2>4
  <2>6. /\ p.id = VacationProjectID(y) /\ p.assignment = NoAssignment /\ p.fy = y
        /\ p.budget = VacationBudget(d, y)
    BY <2>1 DEF VacationProject
  <2>7. p.vacation
    BY <2>1 DEF VacationProject
  <2>8. \A i \in Slots(d) : ~(d.projects[i].vacation /\ d.projects[i].fy = y)
    BY <1>3 DEF VacationSlots
  <2>9. VacationIdsAreVacation(e)
    BY <1>1, <2>5, <2>7 DEF VacationIdsAreVacation, OneMore
  <2>10. IssuedIds(e, c)
    BY <1>1, <2>5, <2>6, DifferentIds DEF IssuedIds, OneMore
  <2>11. Consistent(d) => Consistent(e)
    <3> SUFFICES ASSUME Consistent(d) PROVE Consistent(e)
      OBVIOUS
    <3>1. \A i \in Slots(d) :
              /\ d.projects[i].assignment = e.projects[s].assignment
              /\ d.projects[i].fy = e.projects[s].fy
              => e.projects[s].assignment = NoAssignment
      BY <2>5, <2>6
    <3>2. \A i \in Slots(d) :
              d.projects[i].id = e.projects[s].id =>
                  /\ d.projects[i].vacation
                  /\ e.projects[s].vacation
                  /\ d.projects[i].fy # e.projects[s].fy
      BY <1>1, <2>5, <2>6, <2>7, <2>8 DEF VacationIdsAreVacation
    <3> QED
      BY <2>4, <2>5, <3>1, <3>2, OneMoreConsistent
  <2>12. Synchronized(e, y)
    <3>1. VacationSlots(e, y) = {s}
      BY <2>5, <2>6, <2>7, <2>8 DEF VacationSlots, OneMore
    <3>2. e.projects[s].budget = VacationBudget(e, y)
      BY <2>4, <2>5, <2>6, BudgetOfDays
    <3> QED
      BY <3>1, <3>2 DEF Synchronized
  <2> QED
    BY <2>4, <2>9, <2>10, <2>11, <2>12 DEF Shaped
<1>4. CASE VacationSlots(d, y) # {}
  <2>1. PICK ps : ps = [i \in Slots(d) |->
                           IF IsFirst(i, VacationSlots(d, y))
                           THEN [d.projects[i] EXCEPT !.budget = VacationBudget(d, y)]
                           ELSE d.projects[i]]
    OBVIOUS
  <2>2. e = WithProjects(d, ps)
    BY <1>4, <2>1 DEF EnsureVacationProject, WithProjects
  <2>3. \A i \in Slots(d) : d.projects[i] \in ProjectOf(Years)
    BY <1>1 DEF IsDocument
  <2>4. \A i \in Slots(d) :
            /\ ps[i] \in ProjectOf(Years)
            /\ ps[i].id = d.projects[i].id
            /\ ps[i].assignment = d.projects[i].assignment
            /\ ps[i].fy = d.projects[i].fy
            /\ ps[i].vacation <=> d.projects[i].vacation
            /\ IsFirst(i, VacationSlots(d, y)) => ps[i].budget = VacationBudget(d, y)
    <3> SUFFICES ASSUME NEW i \in Slots(d)
                 PROVE  /\ ps[i] \in ProjectOf(Years)
                        /\ ps[i].id = d.projects[i].id
                        /\ ps[i].assignment = d.projects[i].assignment
                        /\ ps[i].fy = d.projects[i].fy
                        /\ ps[i].vacation <=> d.projects[i].vacation
                        /\ IsFirst(i, VacationSlots(d, y)) => ps[i].budget = VacationBudget(d, y)
      OBVIOUS
    <3>1. CASE IsFirst(i, VacationSlots(d, y))
      <4>1. ps[i] = [d.projects[i] EXCEPT !.budget = VacationBudget(d, y)]
        BY <2>1, <3>1
      <4> QED
        BY <1>2, <2>3, <4>1 DEF ProjectOf
    <3>2. CASE ~IsFirst(i, VacationSlots(d, y))
      <4>1. ps[i] = d.projects[i]
        BY <2>1, <3>2
      <4> QED
        BY <2>3, <3>2, <4>1
    <3> QED
      BY <3>1, <3>2
  <2>5. ps \in [Slots(d) -> ProjectOf(Years)]
    BY <2>1, <2>4
  <2>6. /\ IsDocument(e, Years)
        /\ e.year = d.year /\ e.days = d.days /\ e.legacyDays = d.legacyDays
        /\ e.hours = d.hours /\ e.projects = ps /\ Slots(e) = Slots(d)
    BY <1>1, <2>2, <2>5, ChangedProjects
  <2>7. SameProjects(d, e)
    BY <2>4, <2>6 DEF SameProjects
  <2>8. /\ VacationIdsAreVacation(e)
        /\ IssuedIds(e, c)
        /\ Consistent(d) => Consistent(e)
    BY <1>1, <2>6, <2>7, SameProjectsConsistent
  <2>9. Synchronized(e, y)
    <3>1. VacationSlots(e, y) = VacationSlots(d, y)
      BY <2>7 DEF SameProjects, VacationSlots
    <3>2. VacationBudget(e, y) = VacationBudget(d, y)
      BY <2>6, BudgetOfDays
    <3>3. VacationSlots(d, y) \subseteq Slots(d)
      BY DEF VacationSlots
    <3> QED
      BY <1>4, <2>4, <2>6, <3>1, <3>2, <3>3 DEF Synchronized
  <2> QED
    BY <2>6, <2>8, <2>9 DEF Shaped
<1> QED
  BY <1>3, <1>4

-----------------------------------------------------------------------------
(***************************************************************************)
(* What normalize does to a document.                                      *)
(***************************************************************************)

\* Projects without a fiscal year join the active one; a document that has
\* none of them is left alone.
LEMMA MigratedProjects ==
    ASSUME NEW d, NEW c, Shaped(d, Years \cup {0}, c), NEW e, e = MigrateProjects(d)
    PROVE  /\ Shaped(e, Years, c)
           /\ e.year = d.year /\ e.days = d.days /\ e.legacyDays = d.legacyDays
           /\ e.hours = d.hours
           /\ Slots(e) = Slots(d) /\ ProjectIds(e) = ProjectIds(d)
           /\ \A i \in Slots(d) : e.projects[i].id = d.projects[i].id
           /\ d.projects \in [Slots(d) -> ProjectOf(Years)] => e.projects = d.projects
<1>1. /\ IsDocument(d, Years \cup {0}) /\ VacationIdsAreVacation(d) /\ IssuedIds(d, c)
      /\ d.year \in Years
  BY DEF Shaped, IsDocument
<1>2. PICK ps : ps = [i \in Slots(d) |->
                         IF d.projects[i].fy = 0 THEN [d.projects[i] EXCEPT !.fy = d.year]
                         ELSE d.projects[i]]
  OBVIOUS
<1>3. e = WithProjects(d, ps)
  BY <1>2 DEF MigrateProjects, WithProjects
<1>4. \A i \in Slots(d) : d.projects[i] \in ProjectOf(Years \cup {0})
  BY <1>1 DEF IsDocument
<1>5. \A i \in Slots(d) :
          /\ ps[i] \in ProjectOf(Years)
          /\ ps[i].id = d.projects[i].id
          /\ ps[i].vacation <=> d.projects[i].vacation
          /\ d.projects[i].fy # 0 => ps[i] = d.projects[i]
  <2> SUFFICES ASSUME NEW i \in Slots(d)
               PROVE  /\ ps[i] \in ProjectOf(Years)
                      /\ ps[i].id = d.projects[i].id
                      /\ ps[i].vacation <=> d.projects[i].vacation
                      /\ d.projects[i].fy # 0 => ps[i] = d.projects[i]
    OBVIOUS
  <2>1. CASE d.projects[i].fy = 0
    <3>1. ps[i] = [d.projects[i] EXCEPT !.fy = d.year]
      BY <1>2, <2>1
    <3> QED
      BY <1>1, <1>4, <2>1, <3>1 DEF ProjectOf
  <2>2. CASE d.projects[i].fy # 0
    <3>1. ps[i] = d.projects[i]
      BY <1>2, <2>2
    <3> QED
      BY <1>4, <2>2, <3>1 DEF ProjectOf
  <2> QED
    BY <2>1, <2>2
<1>6. ps \in [Slots(d) -> ProjectOf(Years)]
  BY <1>2, <1>5
<1>7. /\ IsDocument(e, Years)
      /\ e.year = d.year /\ e.days = d.days /\ e.legacyDays = d.legacyDays
      /\ e.hours = d.hours /\ e.projects = ps /\ Slots(e) = Slots(d)
  BY <1>1, <1>3, <1>6, ChangedProjects
<1>8. VacationIdsAreVacation(e) /\ IssuedIds(e, c)
  BY <1>1, <1>5, <1>7 DEF VacationIdsAreVacation, IssuedIds
<1>9. ASSUME d.projects \in [Slots(d) -> ProjectOf(Years)] PROVE e.projects = d.projects
  <2>1. \A i \in Slots(d) : d.projects[i].fy # 0
    BY <1>9, DocumentAssumption DEF ProjectOf
  <2>2. \A i \in Slots(d) : ps[i] = d.projects[i]
    BY <1>5, <2>1
  <2> QED
    BY <1>6, <1>7, <1>9, <2>2
<1>10. /\ \A i \in Slots(d) : e.projects[i].id = d.projects[i].id
       /\ ProjectIds(e) = ProjectIds(d)
  BY <1>5, <1>7 DEF ProjectIds
<1> QED
  BY <1>7, <1>8, <1>9, <1>10 DEF Shaped

\* The global vacation days become those of the active year, which so far had
\* been the ones assumed for it.
LEMMA MigratedDays ==
    ASSUME NEW d, IsDocument(d, Years), NEW e, e = MigrateDays(d)
    PROVE  /\ IsDocument(e, Years)
           /\ e.year = d.year /\ e.projects = d.projects /\ e.hours = d.hours
           /\ \A y \in Years : FYFor(e, y) = FYFor(d, y)
<1>1. CASE d.year \in DOMAIN d.days \/ d.legacyDays = 0
  BY <1>1 DEF MigrateDays
<1>2. CASE ~(d.year \in DOMAIN d.days \/ d.legacyDays = 0)
  <2>1. PICK days : days = [y \in DOMAIN d.days \cup {d.year} |->
                               IF y \in DOMAIN d.days THEN d.days[y] ELSE d.legacyDays]
    OBVIOUS
  <2>2. e = [d EXCEPT !.days = days]
    BY <1>2, <2>1 DEF MigrateDays
  <2>3. e = [year |-> d.year, days |-> days, legacyDays |-> d.legacyDays,
             projects |-> d.projects, hours |-> d.hours]
    BY <2>2, ChangedField DEF IsDocument
  <2>4. /\ e.year = d.year /\ e.projects = d.projects /\ e.hours = d.hours
        /\ e.days = days /\ e.legacyDays = d.legacyDays
    BY <2>3
  <2>5. e = [year |-> e.year, days |-> e.days, legacyDays |-> e.legacyDays,
             projects |-> e.projects, hours |-> e.hours]
    BY <2>3, <2>4
  <2>6. /\ DOMAIN d.days \subseteq Years /\ d.days \in [DOMAIN d.days -> Nat]
        /\ d.year \in Years /\ d.legacyDays \in Nat
    BY DEF IsDocument
  <2>7. /\ DOMAIN days = DOMAIN d.days \cup {d.year}
        /\ days \in [DOMAIN days -> Nat]
        /\ \A y \in DOMAIN d.days : days[y] = d.days[y]
        /\ days[d.year] = d.legacyDays
    BY <1>2, <2>1, <2>6
  <2>8. IsDocument(e, Years)
    BY <2>4, <2>5, <2>6, <2>7 DEF IsDocument, Slots
  <2>9. ASSUME NEW y \in Years PROVE FYFor(e, y) = FYFor(d, y)
    <3>1. CASE y \in DOMAIN d.days
      BY <2>4, <2>7, <3>1 DEF FYFor
    <3>2. CASE y \notin DOMAIN d.days /\ y = d.year
      BY <1>2, <2>4, <2>6, <2>7, <3>2 DEF FYFor
    <3>3. CASE y \notin DOMAIN d.days /\ y # d.year
      BY <2>4, <2>7, <3>3 DEF FYFor
    <3> QED
      BY <3>1, <3>2, <3>3
  <2> QED
    BY <2>4, <2>8, <2>9
<1> QED
  BY <1>1, <1>2

\* A normalized document is well shaped and synchronized, and consistent when
\* joining the active year made none of its projects clash.
LEMMA NormalizeCorrect ==
    ASSUME NEW d, NEW c, Shaped(d, Years \cup {0}, c), NEW e, e = Normalize(d)
    PROVE  /\ Shaped(e, Years, c)
           /\ e.year = d.year /\ e.hours = d.hours
           /\ Consistent(MigrateProjects(d)) => Consistent(e)
           /\ Synchronized(e, e.year)
<1>1. PICK m : m = MigrateProjects(d)
  OBVIOUS
<1>2. Shaped(m, Years, c) /\ m.year = d.year /\ m.hours = d.hours
  BY <1>1, MigratedProjects
<1>3. PICK n : n = MigrateDays(m)
  OBVIOUS
<1>4. /\ IsDocument(n, Years)
      /\ n.year = m.year /\ n.projects = m.projects /\ n.hours = m.hours
  BY <1>2, <1>3, MigratedDays DEF Shaped
<1>5. SameProjects(m, n)
  BY <1>4 DEF SameProjects, Slots
<1>6. Shaped(n, Years, c) /\ (Consistent(m) => Consistent(n))
  BY <1>2, <1>4, <1>5, SameProjectsConsistent DEF Shaped
<1>7. e = EnsureVacationProject(n, d.year) /\ d.year \in Years
  BY <1>1, <1>3 DEF Normalize, Shaped, IsDocument
<1>8. /\ Shaped(e, Years, c)
      /\ e.year = n.year /\ e.hours = n.hours
      /\ Consistent(n) => Consistent(e)
      /\ Synchronized(e, d.year)
  BY <1>6, <1>7, EnsureCorrect
<1> QED
  BY <1>1, <1>2, <1>4, <1>6, <1>8

\* On a document that is already in order normalize changes nothing one could
\* notice.
LEMMA NormalizeStutters ==
    ASSUME NEW d, NEW c, Shaped(d, Years, c), Synchronized(d, d.year),
           NEW e, e = Normalize(d)
    PROVE  /\ e.projects = d.projects
           /\ e.hours = d.hours
           /\ \A y \in Years : FYFor(e, y) = FYFor(d, y)
           /\ MigrateProjects(d).projects = d.projects
<1>1. /\ IsDocument(d, Years) /\ d.projects \in [Slots(d) -> ProjectOf(Years)]
      /\ d.year \in Years
  BY DEF Shaped, IsDocument
<1>2. Shaped(d, Years \cup {0}, c)
  <2>1. \A i \in Slots(d) : d.projects[i] \in ProjectOf(Years \cup {0})
    BY <1>1 DEF ProjectOf
  <2> QED
    BY <1>1, <2>1 DEF Shaped, IsDocument
<1>3. PICK m : m = MigrateProjects(d)
  OBVIOUS
<1>4. /\ Shaped(m, Years, c)
      /\ m.year = d.year /\ m.days = d.days /\ m.legacyDays = d.legacyDays
      /\ m.hours = d.hours /\ m.projects = d.projects
  BY <1>1, <1>2, <1>3, MigratedProjects
<1>5. PICK n : n = MigrateDays(m)
  OBVIOUS
<1>6. /\ IsDocument(n, Years)
      /\ n.year = m.year /\ n.projects = m.projects /\ n.hours = m.hours
      /\ \A y \in Years : FYFor(n, y) = FYFor(m, y)
  BY <1>4, <1>5, MigratedDays DEF Shaped
<1>7. Slots(n) = Slots(d) /\ VacationSlots(n, d.year) = VacationSlots(d, d.year)
  BY <1>4, <1>6 DEF Slots, VacationSlots
<1>8. \A y \in Years : FYFor(n, y) = FYFor(d, y)
  BY <1>4, <1>6, BudgetOfDays
<1>9. VacationBudget(n, d.year) = VacationBudget(d, d.year)
  BY <1>1, <1>8 DEF VacationBudget
<1>10. PICK ps : ps = [i \in Slots(n) |->
                          IF IsFirst(i, VacationSlots(n, d.year))
                          THEN [n.projects[i] EXCEPT !.budget = VacationBudget(n, d.year)]
                          ELSE n.projects[i]]
  OBVIOUS
<1>11. e = [n EXCEPT !.projects = ps]
  BY <1>3, <1>5, <1>7, <1>10 DEF Normalize, EnsureVacationProject, Synchronized
<1>12. /\ e.projects = ps /\ e.hours = n.hours
       /\ e.days = n.days /\ e.legacyDays = n.legacyDays
  <2>1. e = [year |-> n.year, days |-> n.days, legacyDays |-> n.legacyDays,
             projects |-> ps, hours |-> n.hours]
    BY <1>6, <1>11, ChangedField DEF IsDocument
  <2> QED
    BY <2>1
<1>13. ASSUME NEW i \in Slots(d) PROVE ps[i] = d.projects[i]
  <2>1. CASE IsFirst(i, VacationSlots(d, d.year))
    <3>1. d.projects[i].budget = VacationBudget(d, d.year)
      BY <2>1 DEF Synchronized, IsFirst
    <3>2. ps[i] = [d.projects[i] EXCEPT !.budget = VacationBudget(d, d.year)]
      BY <1>4, <1>6, <1>7, <1>9, <1>10, <2>1
    <3> QED
      BY <1>1, <3>1, <3>2 DEF ProjectOf
  <2>2. CASE ~IsFirst(i, VacationSlots(d, d.year))
    BY <1>4, <1>6, <1>7, <1>10, <2>2
  <2> QED
    BY <2>1, <2>2
<1>14. ps = d.projects
  <2>1. ps = [i \in Slots(d) |-> ps[i]]
    BY <1>7, <1>10
  <2>2. d.projects = [i \in Slots(d) |-> d.projects[i]]
    BY <1>1
  <2> QED
    BY <1>13, <2>1, <2>2
<1>15. \A y \in Years : FYFor(e, y) = FYFor(d, y)
  BY <1>8, <1>12, BudgetOfDays
<1> QED
  BY <1>3, <1>4, <1>6, <1>12, <1>14, <1>15

-----------------------------------------------------------------------------
(***************************************************************************)
(* What the handlers make of a document.                                   *)
(***************************************************************************)

\* A year stays synchronized as long as its days and vacation projects stay.
LEMMA StillSynchronized ==
    ASSUME NEW d, NEW e, NEW y, Synchronized(d, y),
           e.days = d.days, e.legacyDays = d.legacyDays,
           VacationSlots(e, y) = VacationSlots(d, y),
           \A i \in VacationSlots(d, y) : e.projects[i].budget = d.projects[i].budget
    PROVE  Synchronized(e, y)
<1>1. VacationBudget(e, y) = VacationBudget(d, y)
  BY BudgetOfDays
<1> QED
  BY <1>1 DEF Synchronized

\* A project created with a fresh ID.
LEMMA CreatedProject ==
    ASSUME NEW d, NEW c \in Nat, Shaped(d, Years, c),
           NEW p \in ProjectOf(Years), p.id = ProjectID(c + 1), ~p.vacation,
           NEW e, e = WithProject(d, p)
    PROVE  /\ Shaped(e, Years, c + 1)
           /\ e.year = d.year
           /\ Synchronized(d, d.year) => Synchronized(e, e.year)
           /\ /\ Consistent(d)
              /\ \A i \in Slots(d) :
                     d.projects[i].assignment = p.assignment /\ d.projects[i].fy = p.fy
                         => p.assignment = NoAssignment
              => Consistent(e)
<1>1. IsDocument(d, Years) /\ VacationIdsAreVacation(d) /\ IssuedIds(d, c)
  BY DEF Shaped
<1>2. /\ IsDocument(e, Years)
      /\ e.year = d.year /\ e.days = d.days /\ e.legacyDays = d.legacyDays
      /\ e.hours = d.hours
      /\ \E s \in Slots(e) : OneMore(d, e, s) /\ e.projects[s] = p
  BY <1>1, AppendedProject
<1>3. PICK s \in Slots(e) : OneMore(d, e, s) /\ e.projects[s] = p
  BY <1>2
<1>4. VacationIdsAreVacation(e)
  BY <1>1, <1>3, DifferentIds DEF VacationIdsAreVacation, OneMore
<1>5. IssuedIds(e, c + 1)
  <2> SUFFICES ASSUME NEW i \in Slots(e), NEW n \in Nat, e.projects[i].id = ProjectID(n)
               PROVE  n <= c + 1
    BY DEF IssuedIds
  <2>1. CASE i \in Slots(d)
    BY <1>1, <1>3, <2>1 DEF IssuedIds, OneMore
  <2>2. CASE i = s
    BY <1>3, <2>2, DifferentIds
  <2> QED
    BY <1>3, <2>1, <2>2 DEF OneMore
<1>6. ASSUME Synchronized(d, d.year) PROVE Synchronized(e, e.year)
  <2>1. VacationSlots(e, d.year) = VacationSlots(d, d.year)
    BY <1>3 DEF VacationSlots, OneMore
  <2>2. \A i \in VacationSlots(d, d.year) : e.projects[i].budget = d.projects[i].budget
    BY <1>3 DEF VacationSlots, OneMore
  <2> QED
    BY <1>2, <1>6, <2>1, <2>2, StillSynchronized
<1>7. ASSUME Consistent(d),
             \A i \in Slots(d) :
                 d.projects[i].assignment = p.assignment /\ d.projects[i].fy = p.fy
                     => p.assignment = NoAssignment
      PROVE  Consistent(e)
  <2>1. \A i \in Slots(d) : d.projects[i].id # e.projects[s].id
    <3> SUFFICES ASSUME NEW i \in Slots(d), d.projects[i].id = ProjectID(c + 1)
                 PROVE  FALSE
      BY <1>3
    <3>1. c + 1 \in Nat /\ ~(c + 1 <= c)
      OBVIOUS
    <3> QED
      BY <1>1, <3>1 DEF IssuedIds
  <2>2. \A i \in Slots(d) :
            /\ d.projects[i].assignment = e.projects[s].assignment
            /\ d.projects[i].fy = e.projects[s].fy
            => e.projects[s].assignment = NoAssignment
    BY <1>3, <1>7
  <2> QED
    BY <1>2, <1>3, <1>7, <2>1, <2>2, OneMoreConsistent
<1> QED
  BY <1>2, <1>4, <1>5, <1>6, <1>7 DEF Shaped

\* Edited rows keep their IDs and kinds.
LEMMA EditedShape ==
    ASSUME NEW d, NEW c, Shaped(d, Years, c),
           NEW ps, ps \in [Slots(d) -> ProjectOf(Years)],
           \A i \in Slots(d) :
               /\ ps[i].id = d.projects[i].id
               /\ ps[i].vacation <=> d.projects[i].vacation,
           NEW e, e = WithProjects(d, ps)
    PROVE  /\ Shaped(e, Years, c)
           /\ e.year = d.year /\ e.days = d.days /\ e.legacyDays = d.legacyDays
           /\ e.hours = d.hours /\ e.projects = ps /\ Slots(e) = Slots(d)
           /\ EntriesHaveProjects(d) => EntriesHaveProjects(e)
<1>1. IsDocument(d, Years) /\ VacationIdsAreVacation(d) /\ IssuedIds(d, c)
  BY DEF Shaped
<1>2. /\ IsDocument(e, Years)
      /\ e.year = d.year /\ e.days = d.days /\ e.legacyDays = d.legacyDays
      /\ e.hours = d.hours /\ e.projects = ps /\ Slots(e) = Slots(d)
  BY <1>1, ChangedProjects
<1>3. VacationIdsAreVacation(e) /\ IssuedIds(e, c)
  BY <1>1, <1>2 DEF VacationIdsAreVacation, IssuedIds
<1>4. ProjectIds(e) = ProjectIds(d)
  BY <1>2 DEF ProjectIds
<1>5. EntriesHaveProjects(d) => EntriesHaveProjects(e)
  BY <1>2, <1>4 DEF EntriesHaveProjects
<1> QED
  BY <1>2, <1>3, <1>5 DEF Shaped

\* Rows edited by a form also keep their year, and vacation keeps its budget.
LEMMA EditedRows ==
    ASSUME NEW d, NEW c, Shaped(d, Years, c), SharedIds(d), EntriesHaveProjects(d),
           Synchronized(d, d.year),
           NEW ps, ps \in [Slots(d) -> ProjectOf(Years)],
           \A i \in Slots(d) :
               /\ ps[i].id = d.projects[i].id
               /\ ps[i].fy = d.projects[i].fy
               /\ ps[i].vacation <=> d.projects[i].vacation
               /\ ps[i].vacation => ps[i].budget = d.projects[i].budget,
           NEW e, e = WithProjects(d, ps)
    PROVE  /\ Shaped(e, Years, c)
           /\ Synchronized(e, e.year)
           /\ SharedIds(e) /\ EntriesHaveProjects(e)
           /\ e.projects = ps /\ Slots(e) = Slots(d)
<1>1. /\ Shaped(e, Years, c)
      /\ e.year = d.year /\ e.days = d.days /\ e.legacyDays = d.legacyDays
      /\ e.hours = d.hours /\ e.projects = ps /\ Slots(e) = Slots(d)
      /\ EntriesHaveProjects(e)
  BY EditedShape
<1>2. SharedIds(e)
  BY <1>1 DEF SharedIds
<1>3. VacationSlots(e, d.year) = VacationSlots(d, d.year)
  BY <1>1 DEF VacationSlots
<1>4. \A i \in VacationSlots(d, d.year) : e.projects[i].budget = d.projects[i].budget
  BY <1>1 DEF VacationSlots
<1>5. Synchronized(e, d.year)
  BY <1>1, <1>3, <1>4, StillSynchronized
<1> QED
  BY <1>1, <1>2, <1>5

\* A form writes the fields it may write, and nothing that identifies a row.
LEMMA FormRowKeeps ==
    ASSUME NEW p \in ProjectOf(Years),
           NEW name \in Names \cup {Absent}, NEW a \in Assignments \cup {Absent},
           NEW b \in Budgets, NEW w \in Windows,
           NEW q, q = FormRow(p, name, a, b, w)
    PROVE  /\ q \in ProjectOf(Years)
           /\ q.id = p.id /\ q.fy = p.fy
           /\ q.vacation <=> p.vacation
           /\ q.vacation => q.budget = p.budget
           /\ a = Absent => q.assignment = p.assignment
           /\ a # Absent => q.assignment = a
<1>1. PICK r : r = FormName(p, name)
  OBVIOUS
<1>2. /\ r \in ProjectOf(Years)
      /\ r.id = p.id /\ r.fy = p.fy /\ r.assignment = p.assignment
      /\ r.vacation <=> p.vacation
      /\ r.vacation => r.budget = p.budget
  <2>1. CASE name = Absent
    BY <1>1, <2>1 DEF FormName
  <2>2. CASE name # Absent
    BY <1>1, <2>2 DEF FormName, ProjectOf
  <2> QED
    BY <2>1, <2>2
<1>3. PICK x, budget : /\ x = (IF a = Absent THEN r.assignment ELSE a)
                       /\ budget = FormBudget(p, b)
  OBVIOUS
<1>4. /\ x \in Assignments \cup {NoAssignment}
      /\ a = Absent => x = p.assignment
      /\ a # Absent => x = a
  BY <1>2, <1>3 DEF ProjectOf
<1>5. budget \in Nat /\ (p.vacation => budget = p.budget)
  BY <1>3, ServiceAssumption DEF FormBudget, ProjectOf
<1>6. w[1] \in Nat /\ w[2] \in Nat
  BY ServiceAssumption
<1>7. q = [r EXCEPT !.assignment = x, !.budget = budget, !.start = w[1], !.end = w[2]]
  BY <1>1, <1>3 DEF FormRow
<1>8. /\ q \in ProjectOf(Years)
      /\ q.id = r.id /\ q.fy = r.fy /\ q.assignment = x /\ q.budget = budget
      /\ q.vacation <=> r.vacation
  BY <1>2, <1>4, <1>5, <1>6, <1>7 DEF ProjectOf
<1> QED
  BY <1>2, <1>4, <1>5, <1>8

\* A form that only gets as far as the name writes the name.
LEMMA FormNameKeeps ==
    ASSUME NEW p \in ProjectOf(Years), NEW name \in Names \cup {Absent},
           NEW q, q = FormName(p, name)
    PROVE  /\ q \in ProjectOf(Years)
           /\ q.id = p.id /\ q.fy = p.fy /\ q.assignment = p.assignment
           /\ q.vacation <=> p.vacation
           /\ q.vacation => q.budget = p.budget
<1>1. CASE name = Absent
  BY <1>1 DEF FormName
<1>2. CASE name # Absent
  BY <1>2 DEF FormName, ProjectOf
<1> QED
  BY <1>1, <1>2

\* A JSON object may also move a row to another year, vacation included.
LEMMA ApiRowKeeps ==
    ASSUME NEW p \in ProjectOf(Years), NEW in \in ProjectInputs, NEW q, q = ApiRow(p, in)
    PROVE  q \in ProjectOf(Years) /\ q.id = p.id /\ (q.vacation <=> p.vacation)
<1>1. /\ in.name \in Names \cup {Absent}
      /\ in.assignment \in Assignments \cup {Absent}
      /\ in.budget \in Budgets \cup {Absent}
      /\ in.fy \in Years \cup {Absent}
      /\ in.start \in Nat \cup {Absent} /\ in.end \in Nat \cup {Absent}
  <2> DEFINE Typed(r) ==
          /\ r.name \in Names \cup {Absent}
          /\ r.assignment \in Assignments \cup {Absent}
          /\ r.budget \in Budgets \cup {Absent}
          /\ r.fy \in Years \cup {Absent}
          /\ r.start \in Nat \cup {Absent} /\ r.end \in Nat \cup {Absent}
  <2>1. ASSUME NEW n \in Names PROVE Typed([NothingSent EXCEPT !.name = n])
    BY DEF NothingSent
  <2>2. ASSUME NEW a \in Assignments PROVE Typed([NothingSent EXCEPT !.assignment = a])
    BY DEF NothingSent
  <2>3. ASSUME NEW b \in Budgets PROVE Typed([NothingSent EXCEPT !.budget = b])
    BY DEF NothingSent
  <2>4. ASSUME NEW y \in Years PROVE Typed([NothingSent EXCEPT !.fy = y])
    BY DEF NothingSent
  <2>5. ASSUME NEW w \in Windows
        PROVE  /\ Typed([NothingSent EXCEPT !.start = w[1]])
               /\ Typed([NothingSent EXCEPT !.start = w[1], !.end = w[2]])
    <3>1. w[1] \in Nat /\ w[2] \in Nat
      BY ServiceAssumption
    <3> QED
      BY <3>1 DEF NothingSent
  <2> HIDE DEF Typed
  <2>6. \/ \E n \in Names : in = [NothingSent EXCEPT !.name = n]
        \/ \E a \in Assignments : in = [NothingSent EXCEPT !.assignment = a]
        \/ \E b \in Budgets : in = [NothingSent EXCEPT !.budget = b]
        \/ \E y \in Years : in = [NothingSent EXCEPT !.fy = y]
        \/ \E w \in Windows :
               \/ in = [NothingSent EXCEPT !.start = w[1]]
               \/ in = [NothingSent EXCEPT !.start = w[1], !.end = w[2]]
    BY DEF ProjectInputs
  <2>7. Typed(in)
    BY <2>1, <2>2, <2>3, <2>4, <2>5, <2>6
  <2> QED
    BY <2>7 DEF Typed
<1>2. PICK name, assignment, budget, fy, start, end :
          /\ name = Sent(in.name, p.name)
          /\ assignment = Sent(in.assignment, p.assignment)
          /\ budget = (IF p.vacation THEN p.budget ELSE Sent(in.budget, p.budget))
          /\ fy = Sent(in.fy, p.fy)
          /\ start = Sent(in.start, p.start)
          /\ end = Sent(in.end, p.end)
  OBVIOUS
<1>3. /\ name \in Names \cup {VacationName}
      /\ assignment \in Assignments \cup {NoAssignment}
      /\ budget \in Nat
      /\ fy \in Years
      /\ start \in Nat /\ end \in Nat
  BY <1>1, <1>2, ServiceAssumption DEF Sent, ProjectOf
<1>4. q = [p EXCEPT !.name = name, !.assignment = assignment, !.budget = budget,
                    !.fy = fy, !.start = start, !.end = end]
  BY <1>2 DEF ApiRow
<1> QED
  BY <1>3, <1>4 DEF ProjectOf

\* Deleting what is no vacation takes all rows with this ID, and their entries.
LEMMA WithoutProjectKeeps ==
    ASSUME NEW d, NEW c, Shaped(d, Years, c), NEW id, ~IsVacation(d, id),
           NEW e, e = WithoutProject(d, id)
    PROVE  /\ Shaped(e, Years, c)
           /\ e.year = d.year
           /\ Consistent(d) => Consistent(e)
           /\ Synchronized(d, d.year) => Synchronized(e, e.year)
<1>1. IsDocument(d, Years) /\ VacationIdsAreVacation(d) /\ IssuedIds(d, c)
  BY DEF Shaped
<1>2. PICK S : S = {i \in Slots(d) : d.projects[i].id # id}
  OBVIOUS
<1>3. PICK ps, hours :
          /\ ps = [i \in S |-> d.projects[i]]
          /\ hours = [k \in {k \in DOMAIN d.hours : k[2] # id} |-> d.hours[k]]
  OBVIOUS
<1>4. KeepProjects(d, S) = [year |-> d.year, days |-> d.days, legacyDays |-> d.legacyDays,
                            projects |-> ps, hours |-> d.hours]
  BY <1>1, <1>3, ChangedField DEF KeepProjects, IsDocument
<1>5. e = [KeepProjects(d, S) EXCEPT !.hours = hours]
  BY <1>2, <1>3 DEF WithoutProject
<1>6. e = [year |-> d.year, days |-> d.days, legacyDays |-> d.legacyDays,
           projects |-> ps, hours |-> hours]
  BY <1>4, <1>5
<1>7. /\ e.year = d.year /\ e.days = d.days /\ e.legacyDays = d.legacyDays
      /\ e.projects = ps /\ e.hours = hours
  BY <1>6
<1>8. e = [year |-> e.year, days |-> e.days, legacyDays |-> e.legacyDays,
           projects |-> e.projects, hours |-> e.hours]
  BY <1>6, <1>7
<1>9. /\ Slots(e) = S /\ S \subseteq Slots(d)
      /\ \A i \in S : e.projects[i] = d.projects[i] /\ d.projects[i].id # id
      /\ \A i \in Slots(d) : d.projects[i].id # id => i \in S
  BY <1>2, <1>3, <1>7 DEF Slots
<1>10. IsDocument(e, Years)
  <2>1. Slots(e) \subseteq Nat \ {0} /\ IsFiniteSet(Slots(e))
    BY <1>1, <1>9, FS_Subset DEF IsDocument
  <2>2. e.projects \in [Slots(e) -> ProjectOf(Years)]
    <3>1. \A i \in Slots(e) : e.projects[i] \in ProjectOf(Years)
      BY <1>1, <1>9 DEF IsDocument
    <3>2. e.projects = [i \in Slots(e) |-> e.projects[i]]
      BY <1>3, <1>7, <1>9
    <3> QED
      BY <3>1, <3>2
  <2>3. /\ DOMAIN e.hours \subseteq Dates \X KnownIds
        /\ e.hours \in [DOMAIN e.hours -> HourValues \ {0}]
    <3>1. /\ DOMAIN d.hours \subseteq Dates \X KnownIds
          /\ d.hours \in [DOMAIN d.hours -> HourValues \ {0}]
      BY <1>1 DEF IsDocument
    <3>2. /\ DOMAIN hours \subseteq DOMAIN d.hours
          /\ hours \in [DOMAIN hours -> HourValues \ {0}]
      BY <1>3, <3>1
    <3> QED
      BY <1>7, <3>1, <3>2
  <2> QED
    BY <1>1, <1>7, <1>8, <2>1, <2>2, <2>3 DEF IsDocument
<1>11. VacationIdsAreVacation(e) /\ IssuedIds(e, c)
  BY <1>1, <1>9 DEF VacationIdsAreVacation, IssuedIds
<1>12. ASSUME Consistent(d) PROVE Consistent(e)
  <2>1. SharedIds(e)
    BY <1>9, <1>12 DEF Consistent, SharedIds
  <2>2. UniqueAssignments(e)
    BY <1>9, <1>12 DEF Consistent, UniqueAssignments
  <2>3. EntriesHaveProjects(e)
    <3> SUFFICES ASSUME NEW k \in DOMAIN e.hours PROVE k[2] \in ProjectIds(e)
      BY DEF EntriesHaveProjects
    <3>1. k \in DOMAIN d.hours /\ k[2] # id
      BY <1>3, <1>7
    <3>2. PICK i \in Slots(d) : d.projects[i].id = k[2]
      BY <1>12, <3>1 DEF Consistent, EntriesHaveProjects, ProjectIds
    <3>3. i \in Slots(e) /\ e.projects[i].id = k[2]
      BY <1>9, <3>1, <3>2
    <3> QED
      BY <3>3 DEF ProjectIds
  <2> QED
    BY <2>1, <2>2, <2>3 DEF Consistent
<1>13. ASSUME Synchronized(d, d.year) PROVE Synchronized(e, e.year)
  <2>1. \A i \in Slots(d) : d.projects[i].vacation => i \in S
    BY <1>9 DEF IsVacation
  <2>2. VacationSlots(e, d.year) = VacationSlots(d, d.year)
    BY <1>9, <2>1 DEF VacationSlots
  <2>3. \A i \in VacationSlots(d, d.year) : e.projects[i].budget = d.projects[i].budget
    BY <1>9, <2>1 DEF VacationSlots
  <2> QED
    BY <1>7, <1>13, <2>2, <2>3, StillSynchronized
<1> QED
  BY <1>7, <1>10, <1>11, <1>12, <1>13 DEF Shaped

\* Imported entries are entries of known projects, and 0 is no entry.
LEMMA WithBatchKeeps ==
    ASSUME NEW d, NEW c, Shaped(d, Years, c), NEW asked \in Batches,
           NEW e, e = WithBatch(d, asked)
    PROVE  Shaped(e, Years, c)
<1>1. IsDocument(d, Years) /\ VacationIdsAreVacation(d) /\ IssuedIds(d, c)
  BY DEF Shaped
<1>2. PICK k \in Dates \X KnownIds : asked \in [{k} -> HourValues]
  BY DEF Batches
<1>3. PICK known, stored : /\ known = Known(d, asked)
                           /\ stored = {x \in known : asked[x] > 0}
  OBVIOUS
<1>4. known \subseteq Dates \X KnownIds
  BY <1>2, <1>3 DEF Known
<1>5. stored \subseteq known /\ \A x \in stored : asked[x] \in HourValues \ {0}
  <2>1. \A x \in known : asked[x] \in HourValues
    BY <1>2, <1>3 DEF Known
  <2> QED
    BY <1>3, <2>1
<1>6. PICK hours : hours = [x \in (DOMAIN d.hours \ known) \cup stored |->
                               IF x \in stored THEN asked[x] ELSE d.hours[x]]
  OBVIOUS
<1>7. e = [d EXCEPT !.hours = hours]
  BY <1>3, <1>6 DEF WithBatch
<1>8. e = [year |-> d.year, days |-> d.days, legacyDays |-> d.legacyDays,
           projects |-> d.projects, hours |-> hours]
  BY <1>1, <1>7, ChangedField DEF IsDocument
<1>9. /\ e.year = d.year /\ e.days = d.days /\ e.legacyDays = d.legacyDays
      /\ e.projects = d.projects /\ e.hours = hours
  BY <1>8
<1>10. e = [year |-> e.year, days |-> e.days, legacyDays |-> e.legacyDays,
            projects |-> e.projects, hours |-> e.hours]
  BY <1>8, <1>9
<1>11. /\ DOMAIN d.hours \subseteq Dates \X KnownIds
       /\ d.hours \in [DOMAIN d.hours -> HourValues \ {0}]
  BY <1>1 DEF IsDocument
<1>12. /\ DOMAIN hours \subseteq Dates \X KnownIds
       /\ hours \in [DOMAIN hours -> HourValues \ {0}]
  BY <1>4, <1>5, <1>6, <1>11
<1>13. IsDocument(e, Years)
  BY <1>1, <1>9, <1>10, <1>12 DEF IsDocument, Slots
<1>14. VacationIdsAreVacation(e) /\ IssuedIds(e, c)
  BY <1>1, <1>9 DEF VacationIdsAreVacation, IssuedIds, Slots
<1> QED
  BY <1>13, <1>14 DEF Shaped

\* Saving the days of a year synchronizes the vacation project of that year.
LEMMA WithDaysKeeps ==
    ASSUME NEW d, NEW c, Shaped(d, Years, c), NEW y \in Years,
           NEW n \in DayCounts \cup {Absent}, NEW e, e = WithDays(d, y, n)
    PROVE  /\ Shaped(e, Years, c)
           /\ e.year = d.year
           /\ Consistent(d) => Consistent(e)
           /\ Synchronized(e, y)
<1>1. IsDocument(d, Years) /\ VacationIdsAreVacation(d) /\ IssuedIds(d, c)
  BY DEF Shaped
<1>2. PICK m : m = (IF n = Absent THEN FYFor(d, y) ELSE n)
  OBVIOUS
<1>3. m \in Nat
  BY <1>1, <1>2, BudgetType, ServiceAssumption
<1>4. PICK days : days = [z \in DOMAIN d.days \cup {y} |-> IF z = y THEN m ELSE d.days[z]]
  OBVIOUS
<1>5. PICK s : s = SetDays(d, y, m)
  OBVIOUS
<1>6. s = [year |-> d.year, days |-> days, legacyDays |-> d.legacyDays,
           projects |-> d.projects, hours |-> d.hours]
  BY <1>1, <1>4, <1>5, ChangedField DEF SetDays, IsDocument
<1>7. /\ s.year = d.year /\ s.days = days /\ s.legacyDays = d.legacyDays
      /\ s.projects = d.projects /\ s.hours = d.hours
  BY <1>6
<1>8. s = [year |-> s.year, days |-> s.days, legacyDays |-> s.legacyDays,
           projects |-> s.projects, hours |-> s.hours]
  BY <1>6, <1>7
<1>9. DOMAIN days \subseteq Years /\ days \in [DOMAIN days -> Nat]
  <2>1. DOMAIN d.days \subseteq Years /\ d.days \in [DOMAIN d.days -> Nat]
    BY <1>1 DEF IsDocument
  <2> QED
    BY <1>3, <1>4, <2>1
<1>10. IsDocument(s, Years)
  BY <1>1, <1>7, <1>8, <1>9 DEF IsDocument, Slots
<1>11. SameProjects(d, s)
  BY <1>7 DEF SameProjects, Slots
<1>12. Shaped(s, Years, c) /\ (Consistent(d) => Consistent(s))
  BY <1>1, <1>7, <1>10, <1>11, SameProjectsConsistent DEF Shaped
<1>13. e = EnsureVacationProject(s, y)
  BY <1>2, <1>5 DEF WithDays
<1>14. /\ Shaped(e, Years, c)
       /\ e.year = s.year
       /\ Consistent(s) => Consistent(e)
       /\ Synchronized(e, y)
  BY <1>12, <1>13, EnsureCorrect
<1> QED
  BY <1>7, <1>12, <1>14

\* Switching the year synchronizes the year switched to.
LEMMA SwitchYearKeeps ==
    ASSUME NEW d, NEW c, Shaped(d, Years, c), NEW y \in Years,
           NEW e, e = SwitchYear(d, y)
    PROVE  /\ Shaped(e, Years, c)
           /\ e.year = y
           /\ Consistent(d) => Consistent(e)
           /\ Synchronized(e, y)
<1>1. IsDocument(d, Years) /\ VacationIdsAreVacation(d) /\ IssuedIds(d, c)
  BY DEF Shaped
<1>2. PICK s : s = [d EXCEPT !.year = y]
  OBVIOUS
<1>3. s = [year |-> y, days |-> d.days, legacyDays |-> d.legacyDays,
           projects |-> d.projects, hours |-> d.hours]
  BY <1>1, <1>2, ChangedField DEF IsDocument
<1>4. /\ s.year = y /\ s.days = d.days /\ s.legacyDays = d.legacyDays
      /\ s.projects = d.projects /\ s.hours = d.hours
  BY <1>3
<1>5. s = [year |-> s.year, days |-> s.days, legacyDays |-> s.legacyDays,
           projects |-> s.projects, hours |-> s.hours]
  BY <1>3, <1>4
<1>6. IsDocument(s, Years)
  BY <1>1, <1>4, <1>5 DEF IsDocument, Slots
<1>7. SameProjects(d, s)
  BY <1>4 DEF SameProjects, Slots
<1>8. Shaped(s, Years, c) /\ (Consistent(d) => Consistent(s))
  BY <1>1, <1>4, <1>6, <1>7, SameProjectsConsistent DEF Shaped
<1>9. e = EnsureVacationProject(s, y)
  BY <1>2 DEF SwitchYear
<1>10. /\ Shaped(e, Years, c)
       /\ e.year = s.year
       /\ Consistent(s) => Consistent(e)
       /\ Synchronized(e, y)
  BY <1>8, <1>9, EnsureCorrect
<1> QED
  BY <1>4, <1>8, <1>10

\* A document stays well shaped, good or loadable when more IDs are issued.
LEMMA MoreIds ==
    ASSUME NEW d, NEW c \in Nat, NEW k \in Nat, c <= k
    PROVE  /\ \A years : Shaped(d, years, c) => Shaped(d, years, k)
           /\ Good(d, c) => Good(d, k)
           /\ Loadable(d, c) => Loadable(d, k)
<1>1. IssuedIds(d, c) => IssuedIds(d, k)
  BY DEF IssuedIds
<1> QED
  BY <1>1 DEF Shaped, Good, Loadable

\* A good document can be loaded.
LEMMA GoodIsLoadable ==
    ASSUME NEW d, NEW c, Good(d, c)
    PROVE  Loadable(d, c) /\ Shaped(d, Years \cup {0}, c)
<1>1. /\ IsDocument(d, Years) /\ VacationIdsAreVacation(d) /\ IssuedIds(d, c)
      /\ d.projects \in [Slots(d) -> ProjectOf(Years)]
      /\ Consistent(d)
  BY DEF Good, Shaped, IsDocument
<1>2. Shaped(d, Years \cup {0}, c)
  <2>1. \A i \in Slots(d) : d.projects[i] \in ProjectOf(Years \cup {0})
    BY <1>1 DEF ProjectOf
  <2> QED
    BY <1>1, <2>1 DEF Shaped, IsDocument
<1>3. PICK m : m = MigrateProjects(d)
  OBVIOUS
<1>4. m.hours = d.hours /\ m.projects = d.projects
  BY <1>1, <1>2, <1>3, MigratedProjects
<1>5. SameProjects(d, m)
  BY <1>4 DEF SameProjects, Slots
<1>6. Consistent(m)
  BY <1>1, <1>4, <1>5, SameProjectsConsistent
<1> QED
  BY <1>1, <1>2, <1>3, <1>6 DEF Loadable, Consistent

-----------------------------------------------------------------------------
(***************************************************************************)
(* The steps.                                                              *)
(***************************************************************************)

\* What every step leaves: a good, synchronized document in memory, and on disk
\* the old one or this one.
StepKeeps ==
    /\ created' \in created .. MaxCreated
    /\ Good(mem', created') /\ Synchronized(mem', mem'.year)
    /\ disk' = disk \/ disk' = mem'
    /\ failures' \in 0 .. MaxFailures

\* What every request promises keeps the invariant.
LEMMA StepKeepsInv == Inv /\ StepKeeps => Inv'
<1> SUFFICES ASSUME Inv, StepKeeps PROVE Inv'
  OBVIOUS
<1>1. created \in Nat /\ created' \in Nat /\ created <= created' /\ created' \in 0 .. MaxCreated
  BY ServiceAssumption DEF Inv, CountsInv, StepKeeps
<1>2. CountsInv'
  BY <1>1 DEF CountsInv, StepKeeps
<1>3. MemoryInv'
  BY DEF MemoryInv, StepKeeps
<1>4. DiskInv'
  <2>1. CASE disk' = disk
    BY <1>1, <2>1, MoreIds DEF Inv, DiskInv
  <2>2. CASE disk' = mem'
    <3>1. Good(mem', created')
      BY DEF StepKeeps
    <3> QED
      BY <2>2, <3>1, GoodIsLoadable DEF DiskInv
  <2> QED
    BY <2>1, <2>2 DEF StepKeeps
<1> QED
  BY <1>2, <1>3, <1>4 DEF Inv

\* A form that leaves a good, synchronized document.
LEMMA UpdateSteps ==
    ASSUME Inv, NEW d, Update(d) \/ UpdateRefused(d),
           created' \in created .. MaxCreated,
           Good(d, created'), Synchronized(d, d.year)
    PROVE  StepKeeps
<1>1. mem' = d
  BY DEF Update, UpdateRefused
<1>2. (disk' = disk \/ disk' = d) /\ failures' \in 0 .. MaxFailures
  BY ServiceAssumption DEF Update, UpdateRefused, Persisted, Inv, CountsInv
<1> QED
  BY <1>1, <1>2 DEF StepKeeps

\* Mutate validates what it stores, so the working copy only has to be well
\* shaped.
LEMMA MutateSteps ==
    ASSUME Inv, NEW d, Mutate(d),
           created' \in created .. MaxCreated,
           Shaped(d, Years, created')
    PROVE  StepKeeps
<1>1. created \in Nat /\ created' \in Nat /\ created <= created'
  BY ServiceAssumption DEF Inv, CountsInv
<1>2. failures' \in 0 .. MaxFailures
  BY ServiceAssumption DEF Mutate, Inv, CountsInv
<1>3. CASE mem' = mem /\ disk' = disk
  <2>1. Good(mem, created') /\ Synchronized(mem, mem.year)
    BY <1>1, MoreIds DEF Inv, MemoryInv
  <2> QED
    BY <1>2, <1>3, <2>1 DEF StepKeeps
<1>4. CASE Validate(Normalize(d)) /\ mem' = Normalize(d) /\ disk' = Normalize(d)
  <2>1. Shaped(d, Years \cup {0}, created')
    <3>1. d.projects \in [Slots(d) -> ProjectOf(Years)]
      BY DEF Shaped, IsDocument
    <3>2. \A i \in Slots(d) : d.projects[i] \in ProjectOf(Years \cup {0})
      BY <3>1 DEF ProjectOf
    <3> QED
      BY <3>1, <3>2 DEF Shaped, IsDocument
  <2>2. PICK e : e = Normalize(d)
    OBVIOUS
  <2>3. Shaped(e, Years, created') /\ Synchronized(e, e.year)
    BY <2>1, <2>2, NormalizeCorrect
  <2>4. UniqueIds(e) /\ UniqueAssignments(e) /\ EntriesHaveProjects(e)
    BY <1>4, <2>2 DEF Validate
  <2>5. SharedIds(e)
    BY <2>4 DEF UniqueIds, SharedIds
  <2> QED
    BY <1>2, <1>4, <2>2, <2>3, <2>4, <2>5 DEF StepKeeps, Good, Consistent
<1> QED
  BY <1>3, <1>4 DEF Mutate

\* A new project is well shaped.
LEMMA NewProjectType ==
    ASSUME Inv, created < MaxCreated,
           NEW name \in Names, NEW a \in Assignments, NEW b \in Budgets, NEW y \in Years,
           NEW w \in Windows, NEW p, p = NewProject(name, a, b, y, w)
    PROVE  /\ created \in Nat /\ created + 1 \in created .. MaxCreated
           /\ p \in ProjectOf(Years)
           /\ p.id = ProjectID(created + 1) /\ p.fy = y /\ p.assignment = a
           /\ ~p.vacation
<1>1. created \in Nat /\ created + 1 \in 1 .. MaxCreated /\ created + 1 \in created .. MaxCreated
  BY ServiceAssumption DEF Inv, CountsInv
<1>2. ProjectID(created + 1) \in KnownIds
  BY <1>1 DEF KnownIds
<1>3. w[1] \in Nat /\ w[2] \in Nat /\ b \in Nat
  BY ServiceAssumption
<1> QED
  BY <1>1, <1>2, <1>3 DEF NewProject, ProjectOf

\* No known project has the ID that stands for none.
LEMMA NobodyHasNobodysID ==
    ASSUME NEW d, IsDocument(d, Years), NEW i \in Slots(d)
    PROVE  d.projects[i].id # NobodysID
<1>1. d.projects[i].id \in KnownIds
  BY DEF IsDocument, ProjectOf
<1>2. NobodysID \notin KnownIds
  <2>1. \A n \in 1 .. MaxCreated : n # 0
    BY ServiceAssumption
  <2> QED
    BY <2>1, DifferentIds DEF KnownIds, NobodysID
<1> QED
  BY <1>1, <1>2

\* The form checks that the assignment is free before it creates a project.
LEMMA CreateSteps ==
    ASSUME Inv, NEW n \in Names, NEW a \in Assignments, NEW b \in Budgets, NEW w \in Windows,
           handleProjectCreate(n, a, b, w)
    PROVE  StepKeeps
<1>1. /\ Shaped(mem, Years, created) /\ Consistent(mem) /\ Synchronized(mem, mem.year)
      /\ mem.year \in Years /\ IsDocument(mem, Years)
  BY DEF Inv, MemoryInv, Good, Shaped, IsDocument
<1>2. PICK p : p = NewProject(n, a, b, mem.year, w)
  OBVIOUS
<1>3. created < MaxCreated /\ created' = created + 1
  BY DEF handleProjectCreate
<1>4. /\ created \in Nat /\ created + 1 \in created .. MaxCreated
      /\ p \in ProjectOf(Years)
      /\ p.id = ProjectID(created + 1) /\ p.fy = mem.year /\ p.assignment = a
      /\ ~p.vacation
  BY <1>1, <1>2, <1>3, NewProjectType
<1>5. PICK e : e = WithProject(mem, p)
  OBVIOUS
<1>6. \A i \in Slots(mem) :
          mem.projects[i].assignment = p.assignment /\ mem.projects[i].fy = p.fy
              => p.assignment = NoAssignment
  <2>1. ~assignmentTaken(a, mem.year, NobodysID)
    BY DEF handleProjectCreate
  <2>2. \A i \in Slots(mem) : mem.projects[i].id # NobodysID
    BY <1>1, NobodyHasNobodysID
  <2> QED
    BY <1>4, <2>1, <2>2 DEF assignmentTaken
<1>7. Shaped(e, Years, created + 1) /\ Consistent(e) /\ Synchronized(e, e.year)
  BY <1>1, <1>4, <1>5, <1>6, CreatedProject
<1>8. Update(e)
  BY <1>2, <1>5 DEF handleProjectCreate
<1> QED
  BY <1>3, <1>4, <1>7, <1>8, UpdateSteps DEF Good

\* The form that edits a project walks all rows with its ID.  It checks the
\* assignment against the rows with other IDs only; that is enough because the
\* rows it writes are of different years.
LEMMA ProjectUpdateSteps ==
    ASSUME Inv, NEW id, NEW n \in Names \cup {Absent}, NEW a \in Assignments \cup {Absent},
           NEW b \in Budgets, NEW w \in Windows,
           handleProjectUpdate(id, n, a, b, w)
    PROVE  StepKeeps
<1>1. /\ Shaped(mem, Years, created) /\ Consistent(mem) /\ Synchronized(mem, mem.year)
      /\ mem.projects \in [Slots(mem) -> ProjectOf(Years)]
  BY DEF Inv, MemoryInv, Good, Shaped, IsDocument
<1>2. PICK Rows : Rows = {i \in Slots(mem) : mem.projects[i].id = id}
  OBVIOUS
<1>3. PICK Taken : Taken = {i \in Rows : a # Absent /\ assignmentTaken(a, mem.projects[i].fy, id)}
  OBVIOUS
<1>4. PICK W : W = {i \in Rows : \A j \in Taken : i < j}
  OBVIOUS
<1>5. PICK ps : ps = [i \in Slots(mem) |->
                         IF i \in W THEN FormRow(mem.projects[i], n, a, b, w)
                         ELSE IF IsFirst(i, Taken) THEN FormName(mem.projects[i], n)
                         ELSE mem.projects[i]]
  OBVIOUS
<1>6. PICK e : e = WithProjects(mem, ps)
  OBVIOUS
<1>7. /\ Update(e) \/ UpdateRefused(e)
      /\ created' = created
  <2>1. e = [mem EXCEPT !.projects =
                [i \in Slots(mem) |->
                    IF i \in Rows /\ \A j \in Taken : i < j
                    THEN FormRow(mem.projects[i], n, a, b, w)
                    ELSE IF IsFirst(i, Taken) THEN FormName(mem.projects[i], n)
                    ELSE mem.projects[i]]]
    BY <1>4, <1>5, <1>6 DEF WithProjects
  <2> QED
    BY <1>2, <1>3, <2>1 DEF handleProjectUpdate
<1>8. \A i \in Slots(mem) :
          /\ ps[i] \in ProjectOf(Years)
          /\ ps[i].id = mem.projects[i].id
          /\ ps[i].fy = mem.projects[i].fy
          /\ ps[i].vacation <=> mem.projects[i].vacation
          /\ ps[i].vacation => ps[i].budget = mem.projects[i].budget
          /\ i \in W /\ a # Absent => ps[i].assignment = a
          /\ i \notin W \/ a = Absent => ps[i].assignment = mem.projects[i].assignment
  <2> SUFFICES ASSUME NEW i \in Slots(mem)
               PROVE  /\ ps[i] \in ProjectOf(Years)
                      /\ ps[i].id = mem.projects[i].id
                      /\ ps[i].fy = mem.projects[i].fy
                      /\ ps[i].vacation <=> mem.projects[i].vacation
                      /\ ps[i].vacation => ps[i].budget = mem.projects[i].budget
                      /\ i \in W /\ a # Absent => ps[i].assignment = a
                      /\ i \notin W \/ a = Absent => ps[i].assignment = mem.projects[i].assignment
    OBVIOUS
  <2>1. mem.projects[i] \in ProjectOf(Years)
    BY <1>1
  <2>2. CASE i \in W
    <3>1. ps[i] = FormRow(mem.projects[i], n, a, b, w)
      BY <1>5, <2>2
    <3>2. PICK p, q : p = mem.projects[i] /\ q = ps[i]
      OBVIOUS
    <3>3. p \in ProjectOf(Years) /\ q = FormRow(p, n, a, b, w)
      BY <2>1, <3>1, <3>2
    <3>4. /\ q \in ProjectOf(Years)
          /\ q.id = p.id /\ q.fy = p.fy
          /\ q.vacation <=> p.vacation
          /\ q.vacation => q.budget = p.budget
          /\ a = Absent => q.assignment = p.assignment
          /\ a # Absent => q.assignment = a
      BY <3>3, FormRowKeeps
    <3> QED
      BY <2>2, <3>2, <3>4
  <2>3. CASE i \notin W /\ IsFirst(i, Taken)
    <3>1. ps[i] = FormName(mem.projects[i], n)
      BY <1>5, <2>3
    <3> QED
      BY <2>1, <2>3, <3>1, FormNameKeeps
  <2>4. CASE i \notin W /\ ~IsFirst(i, Taken)
    <3>1. ps[i] = mem.projects[i]
      BY <1>5, <2>4
    <3> QED
      BY <2>1, <2>4, <3>1
  <2> QED
    BY <2>2, <2>3, <2>4
<1>9. ps \in [Slots(mem) -> ProjectOf(Years)]
  BY <1>5, <1>8
<1>10. SharedIds(mem) /\ UniqueAssignments(mem) /\ EntriesHaveProjects(mem)
  BY <1>1 DEF Consistent
<1>11. /\ Shaped(e, Years, created)
       /\ Synchronized(e, e.year)
       /\ SharedIds(e) /\ EntriesHaveProjects(e)
       /\ e.projects = ps /\ Slots(e) = Slots(mem)
  BY <1>1, <1>6, <1>8, <1>9, <1>10, EditedRows
<1>12. UniqueAssignments(e)
  <2> SUFFICES ASSUME NEW i \in Slots(mem), NEW j \in Slots(mem), i # j,
                      ps[i].assignment # NoAssignment,
                      ps[i].assignment = ps[j].assignment, ps[i].fy = ps[j].fy
               PROVE  FALSE
    BY <1>11 DEF UniqueAssignments
  <2>1. mem.projects[i].fy = mem.projects[j].fy
    BY <1>8
  <2>2. mem.projects[i].id # mem.projects[j].id
    BY <1>10, <2>1 DEF SharedIds
  <2>3. ASSUME NEW k \in W, NEW l \in Slots(mem), a # Absent,
               mem.projects[l].fy = mem.projects[k].fy,
               mem.projects[l].id # id, mem.projects[l].assignment = a
        PROVE  FALSE
    <3>1. k \in Rows /\ k \in Nat
      BY <1>1, <1>2, <1>4 DEF Shaped, IsDocument
    <3>2. k \notin Taken
      BY <1>4, <3>1
    <3>3. ~assignmentTaken(a, mem.projects[k].fy, id)
      BY <1>3, <2>3, <3>1, <3>2
    <3>4. a # NoAssignment
      BY <2>3, ServiceAssumption
    <3> QED
      BY <2>3, <3>3, <3>4 DEF assignmentTaken
  <2>4. CASE a = Absent \/ (i \notin W /\ j \notin W)
    BY <1>8, <1>10, <2>1, <2>4 DEF UniqueAssignments
  <2>5. CASE a # Absent /\ i \in W
    <3>1. mem.projects[j].id # id
      BY <1>2, <1>4, <2>2, <2>5
    <3>2. j \notin W
      BY <1>2, <1>4, <3>1
    <3> QED
      BY <1>8, <2>1, <2>3, <2>5, <3>1, <3>2
  <2>6. CASE a # Absent /\ j \in W
    <3>1. mem.projects[i].id # id
      BY <1>2, <1>4, <2>2, <2>6
    <3>2. i \notin W
      BY <1>2, <1>4, <3>1
    <3> QED
      BY <1>8, <2>1, <2>3, <2>6, <3>1, <3>2
  <2> QED
    BY <2>4, <2>5, <2>6
<1>13. created' \in created .. MaxCreated
  BY <1>7, ServiceAssumption DEF Inv, CountsInv
<1>14. Good(e, created')
  BY <1>7, <1>11, <1>12 DEF Good, Consistent
<1> QED
  BY <1>7, <1>11, <1>13, <1>14, UpdateSteps

\* The JSON API edits the rows with an ID; Validate refuses what clashes.
LEMMA ApiUpdateSteps ==
    ASSUME Inv, NEW id, NEW in \in ProjectInputs, handleUpdateProject(id, in)
    PROVE  StepKeeps
<1>1. Shaped(mem, Years, created) /\ mem.projects \in [Slots(mem) -> ProjectOf(Years)]
  BY DEF Inv, MemoryInv, Good, Shaped, IsDocument
<1>2. PICK ps : ps = [i \in Slots(mem) |->
                         IF mem.projects[i].id = id THEN ApiRow(mem.projects[i], in)
                         ELSE mem.projects[i]]
  OBVIOUS
<1>3. PICK e : e = WithProjects(mem, ps)
  OBVIOUS
<1>4. Mutate(e) /\ created' = created
  BY <1>2, <1>3 DEF handleUpdateProject, WithProjects
<1>5. \A i \in Slots(mem) :
          /\ ps[i] \in ProjectOf(Years)
          /\ ps[i].id = mem.projects[i].id
          /\ ps[i].vacation <=> mem.projects[i].vacation
  <2> SUFFICES ASSUME NEW i \in Slots(mem)
               PROVE  /\ ps[i] \in ProjectOf(Years)
                      /\ ps[i].id = mem.projects[i].id
                      /\ ps[i].vacation <=> mem.projects[i].vacation
    OBVIOUS
  <2>1. mem.projects[i] \in ProjectOf(Years)
    BY <1>1
  <2>2. CASE mem.projects[i].id = id
    <3>1. ps[i] = ApiRow(mem.projects[i], in)
      BY <1>2, <2>2
    <3> QED
      BY <2>1, <3>1, ApiRowKeeps
  <2>3. CASE mem.projects[i].id # id
    <3>1. ps[i] = mem.projects[i]
      BY <1>2, <2>3
    <3> QED
      BY <2>1, <3>1
  <2> QED
    BY <2>2, <2>3
<1>6. ps \in [Slots(mem) -> ProjectOf(Years)]
  BY <1>2, <1>5
<1>7. Shaped(e, Years, created)
  BY <1>1, <1>3, <1>5, <1>6, EditedShape
<1>8. created' \in created .. MaxCreated
  BY <1>4, ServiceAssumption DEF Inv, CountsInv
<1> QED
  BY <1>4, <1>7, <1>8, MutateSteps

\* Deleting a project, from the form or from the API.
LEMMA DeleteSteps ==
    ASSUME Inv, NEW id, handleProjectDelete(id) \/ handleDeleteProject(id)
    PROVE  StepKeeps
<1>1. /\ Good(mem, created) /\ Shaped(mem, Years, created)
      /\ Consistent(mem) /\ Synchronized(mem, mem.year)
  BY DEF Inv, MemoryInv, Good
<1>2. created' = created /\ created' \in created .. MaxCreated
  BY ServiceAssumption DEF Inv, CountsInv, handleProjectDelete, handleDeleteProject
<1>3. PICK e : e = WithoutProject(mem, id)
  OBVIOUS
<1>4. \/ Update(mem) \/ Mutate(mem)
      \/ ~IsVacation(mem, id) /\ (Update(e) \/ Mutate(e))
  <2>1. CASE id \in ProjectIds(mem) /\ ~Undeletable(mem, id)
    <3>1. Update(e) \/ Mutate(e)
      <4>1. CASE handleProjectDelete(id)
        BY <1>3, <2>1, <4>1 DEF handleProjectDelete
      <4>2. CASE handleDeleteProject(id)
        BY <1>3, <2>1, <4>2 DEF handleDeleteProject
      <4> QED
        BY <4>1, <4>2
    <3> QED
      BY <2>1, <3>1 DEF Undeletable
  <2>2. CASE ~(id \in ProjectIds(mem) /\ ~Undeletable(mem, id))
    <3>1. handleProjectDelete(id) => Update(mem)
      BY <2>2 DEF handleProjectDelete
    <3>2. handleDeleteProject(id) => Mutate(mem)
      BY <2>2 DEF handleDeleteProject
    <3> QED
      BY <3>1, <3>2
  <2> QED
    BY <2>1, <2>2
<1>5. CASE Update(mem)
  BY <1>1, <1>2, <1>5, UpdateSteps
<1>6. CASE Mutate(mem)
  BY <1>1, <1>2, <1>6, MutateSteps
<1>7. CASE ~IsVacation(mem, id) /\ (Update(e) \/ Mutate(e))
  <2>1. Shaped(e, Years, created) /\ Consistent(e) /\ Synchronized(e, e.year)
    BY <1>1, <1>3, <1>7, WithoutProjectKeeps
  <2>2. Good(e, created') /\ Shaped(e, Years, created')
    BY <1>2, <2>1 DEF Good
  <2>3. CASE Update(e)
    BY <1>2, <2>1, <2>2, <2>3, UpdateSteps
  <2>4. CASE Mutate(e)
    BY <1>2, <2>2, <2>4, MutateSteps
  <2> QED
    BY <1>7, <2>3, <2>4
<1> QED
  BY <1>4, <1>5, <1>6, <1>7

\* Every request of the forms.
LEMMA WebSteps == ASSUME Inv, WebNext PROVE StepKeeps
<1>1. /\ Good(mem, created) /\ Shaped(mem, Years, created) /\ Consistent(mem)
      /\ Synchronized(mem, mem.year) /\ mem.year \in Years
  BY DEF Inv, MemoryInv, Good, Shaped, IsDocument
<1>2. created' = created => created' \in created .. MaxCreated
  BY ServiceAssumption DEF Inv, CountsInv
<1>3. ASSUME NEW n \in Names, NEW a \in Assignments, NEW b \in Budgets, NEW w \in Windows,
             handleProjectCreate(n, a, b, w)
      PROVE  StepKeeps
  BY <1>3, CreateSteps
<1>4. ASSUME NEW id \in ProjectIds(mem), NEW n \in Names \cup {Absent},
             NEW a \in Assignments \cup {Absent}, NEW b \in Budgets, NEW w \in Windows,
             handleProjectUpdate(id, n, a, b, w)
      PROVE  StepKeeps
  BY <1>4, ProjectUpdateSteps
<1>5. CASE handleProjectActive
  <2>1. Update(mem) /\ created' = created
    BY <1>5 DEF handleProjectActive
  <2> QED
    BY <1>1, <1>2, <2>1, UpdateSteps
<1>6. ASSUME NEW id \in ProjectIds(mem), handleProjectDelete(id) PROVE StepKeeps
  BY <1>6, DeleteSteps
<1>7. ASSUME NEW n \in DayCounts \cup {Absent}, handleSettingsSave(n) PROVE StepKeeps
  <2>1. PICK e : e = WithDays(mem, mem.year, n)
    OBVIOUS
  <2>2. Update(e) /\ created' = created
    BY <1>7, <2>1 DEF handleSettingsSave
  <2>3. /\ Shaped(e, Years, created) /\ Consistent(e)
        /\ e.year = mem.year /\ Synchronized(e, mem.year)
    BY <1>1, <2>1, WithDaysKeeps
  <2>4. Good(e, created') /\ Synchronized(e, e.year)
    BY <2>2, <2>3 DEF Good
  <2> QED
    BY <1>2, <2>2, <2>4, UpdateSteps
<1>8. ASSUME NEW y \in Years, handleSetActiveFY(y) PROVE StepKeeps
  <2>1. PICK e : e = SwitchYear(mem, y)
    OBVIOUS
  <2>2. Update(e) /\ created' = created
    BY <1>8, <2>1 DEF handleSetActiveFY
  <2>3. Shaped(e, Years, created) /\ Consistent(e) /\ e.year = y /\ Synchronized(e, y)
    BY <1>1, <2>1, SwitchYearKeeps
  <2>4. Good(e, created') /\ Synchronized(e, e.year)
    BY <2>2, <2>3 DEF Good
  <2> QED
    BY <1>2, <2>2, <2>4, UpdateSteps
<1> QED
  BY <1>3, <1>4, <1>5, <1>6, <1>7, <1>8 DEF WebNext

\* Every request of the JSON API.
LEMMA ApiSteps == ASSUME Inv, ApiNext PROVE StepKeeps
<1>1. /\ Shaped(mem, Years, created) /\ mem.year \in Years
      /\ created \in Nat
  BY ServiceAssumption DEF Inv, MemoryInv, CountsInv, Good, Shaped, IsDocument
<1>2. created' = created => created' \in created .. MaxCreated
  BY ServiceAssumption DEF Inv, CountsInv
<1>3. ASSUME NEW asked \in Batches, handleSyncEntries(asked) PROVE StepKeeps
  <2>1. PICK e : e = WithBatch(mem, asked)
    OBVIOUS
  <2>2. Mutate(e) /\ created' = created
    BY <1>3, <2>1 DEF handleSyncEntries
  <2>3. Shaped(e, Years, created')
    BY <1>1, <2>1, <2>2, WithBatchKeeps
  <2> QED
    BY <1>2, <2>2, <2>3, MutateSteps
<1>4. ASSUME NEW n \in Names, NEW a \in Assignments, NEW b \in Budgets,
             NEW y \in Years \cup {Absent}, NEW w \in Windows,
             handleCreateProject(n, a, b, y, w)
      PROVE  StepKeeps
  <2>1. PICK z : z = (IF y = Absent THEN mem.year ELSE y)
    OBVIOUS
  <2>2. z \in Years
    BY <1>1, <2>1
  <2>3. PICK p : p = NewProject(n, a, b, z, w)
    OBVIOUS
  <2>4. PICK e : e = WithProject(mem, p)
    OBVIOUS
  <2>5. created < MaxCreated /\ created' = created + 1 /\ Mutate(e)
    BY <1>4, <2>1, <2>3, <2>4 DEF handleCreateProject
  <2>6. /\ created + 1 \in created .. MaxCreated
        /\ p \in ProjectOf(Years) /\ p.id = ProjectID(created + 1) /\ ~p.vacation
    BY <2>2, <2>3, <2>5, NewProjectType
  <2>7. Shaped(e, Years, created + 1)
    BY <1>1, <2>4, <2>6, CreatedProject
  <2> QED
    BY <2>5, <2>6, <2>7, MutateSteps
<1>5. ASSUME NEW id \in ProjectIds(mem), NEW in \in ProjectInputs, handleUpdateProject(id, in)
      PROVE  StepKeeps
  BY <1>5, ApiUpdateSteps
<1>6. ASSUME NEW id \in ProjectIds(mem), handleDeleteProject(id) PROVE StepKeeps
  BY <1>6, DeleteSteps
<1>7. ASSUME NEW y \in Years \cup {Absent}, handleUpdateSettings(y) PROVE StepKeeps
  <2>1. PICK z : z = Sent(y, mem.year)
    OBVIOUS
  <2>2. z \in Years
    BY <1>1, <2>1 DEF Sent
  <2>3. PICK e : e = SwitchYear(mem, z)
    OBVIOUS
  <2>4. Mutate(e) /\ created' = created
    BY <1>7, <2>1, <2>3 DEF handleUpdateSettings
  <2>5. Shaped(e, Years, created')
    BY <1>1, <2>2, <2>3, <2>4, SwitchYearKeeps
  <2> QED
    BY <1>2, <2>4, <2>5, MutateSteps
<1>8. ASSUME NEW y \in Years, NEW n \in DayCounts \cup {Absent}, handleUpdateFYSettings(y, n)
      PROVE  StepKeeps
  <2>1. PICK e : e = WithDays(mem, y, n)
    OBVIOUS
  <2>2. Mutate(e) /\ created' = created
    BY <1>8, <2>1 DEF handleUpdateFYSettings
  <2>3. Shaped(e, Years, created')
    BY <1>1, <2>1, <2>2, WithDaysKeeps
  <2> QED
    BY <1>2, <2>2, <2>3, MutateSteps
<1> QED
  BY <1>3, <1>4, <1>5, <1>6, <1>7, <1>8 DEF ApiNext

\* A start loads the file that is there.
LEMMA RestartSteps == ASSUME Inv, Restart PROVE StepKeeps
<1>1. Loadable(disk, created)
  BY DEF Inv, DiskInv
<1>2. PICK e : e = Normalize(disk)
  OBVIOUS
<1>3. /\ Shaped(e, Years, created) /\ Synchronized(e, e.year)
      /\ Consistent(MigrateProjects(disk)) => Consistent(e)
  BY <1>1, <1>2, NormalizeCorrect DEF Loadable
<1>4. Good(e, created)
  BY <1>1, <1>3 DEF Good, Loadable
<1>5. created \in created .. MaxCreated /\ failures \in 0 .. MaxFailures
  BY ServiceAssumption DEF Inv, CountsInv
<1> QED
  BY <1>2, <1>3, <1>4, <1>5 DEF Restart, StepKeeps

-----------------------------------------------------------------------------
(***************************************************************************)
(* The invariant, and what it says of memory and disk.                     *)
(***************************************************************************)

\* The first data file can be loaded, and its IDs count as issued.
LEMMA FirstStart == Init => Inv
<1> SUFFICES ASSUME Init PROVE Inv
  OBVIOUS
<1>1. /\ IsDocument(disk, Years \cup {0})
      /\ UniqueIds(disk) /\ VacationIdsAreVacation(disk)
      /\ UniqueAssignments(disk) /\ UniqueAssignments(MigrateProjects(disk))
      /\ EntriesHaveProjects(disk)
  BY FileAssumption DEF Init, IsFile
<1>2. PICK S : S = {i \in 0 .. MaxCreated : ProjectID(i) \in ProjectIds(disk)}
  OBVIOUS
<1>3. S \in SUBSET Nat /\ IsFiniteSet(S)
  <2>1. IsFiniteSet(0 .. MaxCreated)
    BY FS_Interval, ServiceAssumption
  <2>2. S \subseteq 0 .. MaxCreated
    BY <1>2
  <2>3. IsFiniteSet(S)
    BY <2>1, <2>2, FS_Subset, Zenon
  <2> QED
    BY <2>2, <2>3, ServiceAssumption
<1>4. /\ created \in Nat /\ \A n \in S : n <= created
      /\ created = 0 \/ created \in S
  BY <1>2, <1>3, TopIsBound DEF Init
<1>5. CountsInv
  BY <1>2, <1>4, ServiceAssumption DEF CountsInv, Init
<1>6. IssuedIds(disk, created)
  <2> SUFFICES ASSUME NEW i \in Slots(disk), NEW n \in Nat,
                      disk.projects[i].id = ProjectID(n)
               PROVE  n \in S
    BY <1>4 DEF IssuedIds
  <2>1. ProjectID(n) \in KnownIds
    <3>1. disk.projects[i] \in ProjectOf(Years \cup {0})
      BY <1>1 DEF IsDocument
    <3> QED
      BY <3>1 DEF ProjectOf
  <2>2. n \in 1 .. MaxCreated
    BY <2>1, DifferentIds DEF KnownIds
  <2>3. ProjectID(n) \in ProjectIds(disk)
    BY DEF ProjectIds
  <2> QED
    BY <1>2, <2>2, <2>3, ServiceAssumption
<1>7. Shaped(disk, Years \cup {0}, created)
  BY <1>1, <1>6 DEF Shaped
<1>8. PICK m : m = MigrateProjects(disk)
  OBVIOUS
<1>9. /\ m.hours = disk.hours
      /\ Slots(m) = Slots(disk) /\ ProjectIds(m) = ProjectIds(disk)
      /\ \A i \in Slots(disk) : m.projects[i].id = disk.projects[i].id
  BY <1>7, <1>8, MigratedProjects
<1>10. Consistent(m)
  <2>1. SharedIds(m)
    BY <1>1, <1>9 DEF UniqueIds, SharedIds
  <2>2. EntriesHaveProjects(m)
    BY <1>1, <1>9 DEF EntriesHaveProjects
  <2> QED
    BY <1>1, <1>8, <2>1, <2>2 DEF Consistent
<1>11. DiskInv
  BY <1>1, <1>7, <1>8, <1>10 DEF DiskInv, Loadable
<1>12. PICK e : e = Normalize(disk)
  OBVIOUS
<1>13. Shaped(e, Years, created) /\ Consistent(e) /\ Synchronized(e, e.year)
  BY <1>7, <1>8, <1>10, <1>12, NormalizeCorrect
<1>14. MemoryInv
  BY <1>12, <1>13 DEF MemoryInv, Good, Init
<1> QED
  BY <1>5, <1>11, <1>14 DEF Inv

\* Whatever requests arrive, in any order, and whichever persists fail: the
\* document in memory is good, and the one on disk can be loaded.
THEOREM DocumentCorrect == Spec => []Inv
<1>1. Init => Inv
  BY FirstStart
<1>2. Inv /\ [Next]_vars => Inv'
  <2> SUFFICES ASSUME Inv, [Next]_vars PROVE Inv'
    OBVIOUS
  <2>1. CASE WebNext
    BY <2>1, WebSteps, StepKeepsInv
  <2>2. CASE ApiNext
    BY <2>2, ApiSteps, StepKeepsInv
  <2>3. CASE Restart
    BY <2>3, RestartSteps, StepKeepsInv
  <2>4. CASE UNCHANGED vars
    BY <2>4 DEF vars, Inv, MemoryInv, DiskInv, CountsInv, Synchronized
  <2> QED
    BY <2>1, <2>2, <2>3, <2>4 DEF Next
<1> QED
  BY <1>1, <1>2, PTL DEF Spec

\* Types of the variables.
THEOREM TypeCorrect == Spec => []TypeOK
<1>1. Inv => TypeOK
  BY DEF Inv, MemoryInv, DiskInv, CountsInv, Good, Loadable, Shaped, TypeOK
<1> QED
  BY <1>1, DocumentCorrect, PTL

\* No request, form or API, valid or refused, leaves an entry without its
\* project, in memory or on disk.
THEOREM OrphansCorrect == Spec => []NoOrphanEntries
<1>1. Inv => NoOrphanEntries
  <2> SUFFICES ASSUME Inv PROVE NoOrphanEntries
    OBVIOUS
  <2>1. EntriesHaveProjects(mem)
    BY DEF Inv, MemoryInv, Good, Consistent
  <2>2. /\ Shaped(disk, Years \cup {0}, created)
        /\ EntriesHaveProjects(MigrateProjects(disk))
    BY DEF Inv, DiskInv, Loadable, Consistent
  <2>3. PICK m : m = MigrateProjects(disk)
    OBVIOUS
  <2>4. m.hours = disk.hours /\ ProjectIds(m) = ProjectIds(disk)
    BY <2>2, <2>3, MigratedProjects
  <2>5. EntriesHaveProjects(disk)
    BY <2>2, <2>3, <2>4 DEF EntriesHaveProjects
  <2> QED
    BY <2>1, <2>5 DEF NoOrphanEntries
<1> QED
  BY <1>1, DocumentCorrect, PTL

\* An assignment appears at most once per fiscal year, in memory and on disk,
\* although the forms do not validate the document they write.
THEOREM AssignmentsCorrect == Spec => []AssignmentOncePerYear
<1>1. Inv => AssignmentOncePerYear
  BY DEF Inv, MemoryInv, DiskInv, Good, Loadable, Consistent, AssignmentOncePerYear
<1> QED
  BY <1>1, DocumentCorrect, PTL

\* The active year has a vacation project, and the first one has the budget of
\* its days.
THEOREM VacationCorrect == Spec => []ActiveVacationBudgetFollowsDays
<1>1. Inv => ActiveVacationBudgetFollowsDays
  <2> SUFFICES ASSUME Inv PROVE ActiveVacationBudgetFollowsDays
    OBVIOUS
  <2>1. Synchronized(mem, mem.year)
    BY DEF Inv, MemoryInv
  <2> QED
    BY <2>1 DEF Synchronized, ActiveVacationBudgetFollowsDays
<1> QED
  BY <1>1, DocumentCorrect, PTL

\* Normalizing the document in memory moves no project, entry or number of days.
THEOREM NormalizingCorrect == Spec => []NormalizeKeepsMeaning
<1>1. Inv => NormalizeKeepsMeaning
  <2> SUFFICES ASSUME Inv PROVE NormalizeKeepsMeaning
    OBVIOUS
  <2>1. Shaped(mem, Years, created) /\ Synchronized(mem, mem.year)
    BY DEF Inv, MemoryInv, Good
  <2>2. PICK e : e = Normalize(mem)
    OBVIOUS
  <2>3. /\ e.projects = mem.projects
        /\ e.hours = mem.hours
        /\ \A y \in Years : FYFor(e, y) = FYFor(mem, y)
    BY <2>1, <2>2, NormalizeStutters
  <2> QED
    BY <2>2, <2>3 DEF NormalizeKeepsMeaning
<1> QED
  BY <1>1, DocumentCorrect, PTL

\* Two projects have one ID only after the API moved a vacation project out of
\* the year its ID names.
THEOREM SharedIdsCorrect == Spec => []DuplicateIdsOnlyByMovedVacation
<1>1. Inv => DuplicateIdsOnlyByMovedVacation
  <2> SUFFICES ASSUME Inv, ~UniqueIds(mem)
               PROVE  \E i \in Slots(mem) :
                          /\ mem.projects[i].vacation
                          /\ mem.projects[i].id # VacationProjectID(mem.projects[i].fy)
    BY DEF DuplicateIdsOnlyByMovedVacation
  <2>1. SharedIds(mem)
    BY DEF Inv, MemoryInv, Good, Consistent
  <2>2. PICK i \in Slots(mem), j \in Slots(mem) :
            /\ mem.projects[i].vacation /\ mem.projects[j].vacation
            /\ mem.projects[i].id = mem.projects[j].id
            /\ mem.projects[i].fy # mem.projects[j].fy
    BY <2>1 DEF UniqueIds, SharedIds
  <2>3. \/ mem.projects[i].id # VacationProjectID(mem.projects[i].fy)
        \/ mem.projects[j].id # VacationProjectID(mem.projects[j].fy)
    BY <2>2, DifferentIds
  <2> QED
    BY <2>2, <2>3
<1> QED
  BY <1>1, DocumentCorrect, PTL

-----------------------------------------------------------------------------
(***************************************************************************)
(* The loop of handleSyncEntries: SyncEntries, for any keys, any batch and *)
(* any list of entries the loop starts with.                               *)
(***************************************************************************)

-----------------------------------------------------------------------------
(***************************************************************************)
(* Compaction.  Places number the live positions from 1 on.                *)
(***************************************************************************)

\* There are finitely many live positions.
LEMMA LiveIsFinite ==
    ASSUME SyncTypeOK
    PROVE  /\ IsFiniteSet(Live) /\ Cardinality(Live) \in Nat
           /\ Live \subseteq Nat
<1>1. Positions = 1 .. Len(entries) /\ Len(entries) \in Nat
  BY DEF SyncTypeOK, Positions
<1>2. IsFiniteSet(Positions)
  BY <1>1, FS_Interval
<1>3. Live \subseteq Positions
  BY DEF Live
<1>4. IsFiniteSet(Live)
  BY <1>2, <1>3, FS_Subset
<1>5. Live \subseteq Nat
  BY <1>1, <1>3
<1>6. QED
  BY <1>4, <1>5, FS_CardinalityType

\* A later position gets a later place.
LEMMA PlacesIncrease ==
    ASSUME SyncTypeOK, NEW i \in Live, NEW j \in Live, i < j
    PROVE  Place(i) < Place(j)
<1> DEFINE A == {l \in Live : l <= i}
           B == {l \in Live : l <= j}
<1>1. i \in Nat /\ j \in Nat /\ \A l \in Live : l \in Nat
  BY LiveIsFinite
<1>2. A \subseteq B \ {j} /\ j \in B /\ B \subseteq Live
  <2>1. ASSUME NEW l \in Live, l <= i PROVE l <= j /\ l # j
    BY <1>1, <2>1
  <2>2. j <= j
    BY <1>1
  <2>3. QED
    BY <2>1, <2>2
<1>3. IsFiniteSet(B) /\ IsFiniteSet(B \ {j}) /\ IsFiniteSet(A)
  BY <1>2, LiveIsFinite, FS_Subset
<1>4. Cardinality(A) <= Cardinality(B \ {j})
  BY <1>2, <1>3, FS_Subset
<1>5. Cardinality(B \ {j}) = Cardinality(B) - 1
  BY <1>2, <1>3, FS_RemoveElement
<1>6. Cardinality(A) \in Nat /\ Cardinality(B) \in Nat
  BY <1>3, FS_CardinalityType
<1>7. QED
  BY <1>4, <1>5, <1>6 DEF Place

\* Every place is taken by exactly one live position.
LEMMA PlacesNumberLive ==
    ASSUME SyncTypeOK
    PROVE  /\ \A j \in Live : Place(j) \in 1 .. Cardinality(Live)
           /\ \A i, j \in Live : Place(i) = Place(j) => i = j
           /\ \A n \in 1 .. Cardinality(Live) : \E j \in Live : Place(j) = n
<1> DEFINE place == [j \in Live |-> Place(j)]
           Places == 1 .. Cardinality(Live)
<1>1. IsFiniteSet(Live) /\ Cardinality(Live) \in Nat /\ Live \subseteq Nat
  BY LiveIsFinite
<1>2. ASSUME NEW j \in Live PROVE Place(j) \in Places
  <2>1. j \in {l \in Live : l <= j} /\ {l \in Live : l <= j} \subseteq Live
    BY <1>1
  <2>2. /\ IsFiniteSet({l \in Live : l <= j})
        /\ Cardinality({l \in Live : l <= j}) <= Cardinality(Live)
    BY <1>1, <2>1, FS_Subset
  <2>3. Cardinality({l \in Live : l <= j}) # 0 /\ Cardinality({l \in Live : l <= j}) \in Nat
    BY <2>1, <2>2, FS_EmptySet, FS_CardinalityType
  <2>4. QED
    BY <1>1, <2>2, <2>3 DEF Place
<1>3. ASSUME NEW i \in Live, NEW j \in Live, Place(i) = Place(j) PROVE i = j
  <2>1. i \in Nat /\ j \in Nat /\ Place(i) \in Nat /\ Place(j) \in Nat
    BY <1>1, <1>2
  <2>2. ~(i < j) /\ ~(j < i)
    BY <1>3, <2>1, PlacesIncrease
  <2>3. QED
    BY <2>1, <2>2
<1>4. place \in Injection(Live, Places)
  BY <1>2, <1>3 DEF Injection, IsInjective
<1>5. IsFiniteSet(Places) /\ Cardinality(Places) = Cardinality(Live)
  BY <1>1, FS_Interval
<1>6. place \in Surjection(Live, Places)
  BY <1>4, <1>5, FS_Injection
<1>7. QED
  BY <1>2, <1>3, <1>6 DEF Surjection

\* An entry of the compacted list was live, and every live one is in it.
LEMMA RemainingEntries ==
    ASSUME SyncTypeOK
    PROVE  /\ DOMAIN Remaining = 1 .. Cardinality(Live)
           /\ Remaining \in Seq(Entry)
           /\ \A n \in DOMAIN Remaining :
                  \E j \in Live : Place(j) = n /\ Remaining[n] = entries[j]
           /\ \A j \in Live : Place(j) \in DOMAIN Remaining /\ Remaining[Place(j)] = entries[j]
<1>1. DOMAIN Remaining = 1 .. Cardinality(Live) /\ Cardinality(Live) \in Nat
  BY LiveIsFinite DEF Remaining
<1>2. ASSUME NEW n \in 1 .. Cardinality(Live)
      PROVE  \E j \in Live : Place(j) = n /\ Remaining[n] = entries[j]
  <2>1. \E j \in Live : Place(j) = n
    BY PlacesNumberLive
  <2>2. QED
    BY <2>1 DEF Remaining
<1>3. ASSUME NEW j \in Live
      PROVE  Place(j) \in DOMAIN Remaining /\ Remaining[Place(j)] = entries[j]
  <2>1. Place(j) \in 1 .. Cardinality(Live)
    BY PlacesNumberLive
  <2>2. PICK i \in Live : Place(i) = Place(j) /\ Remaining[Place(j)] = entries[i]
    BY <1>2, <2>1
  <2>3. i = j
    BY <2>2, PlacesNumberLive
  <2>4. QED
    BY <1>1, <2>1, <2>2, <2>3
<1>4. \A j \in Live : entries[j] \in Entry
  BY DEF SyncTypeOK, Live, Positions
<1>5. Remaining \in [1 .. Cardinality(Live) -> Entry]
  <2>1. \A n \in 1 .. Cardinality(Live) : Remaining[n] \in Entry
    BY <1>2, <1>4
  <2>2. QED
    BY <2>1 DEF Remaining
<1>6. QED
  BY <1>1, <1>2, <1>3, <1>5

-----------------------------------------------------------------------------
(***************************************************************************)
(* The loop.  The index is made anew at the start and kept up at every     *)
(* item; nobody looks at it after the compaction.                          *)
(***************************************************************************)
FinishedInv == finished => pos = Len(batch) /\ toDelete = {}

\* What is appended or overwritten is an entry.
LEMMA CurrentIsItem ==
    ASSUME SyncTypeOK, Handles, Usable(Current)
    PROVE  /\ pos + 1 \in DOMAIN batch /\ Current \in Item
           /\ Current.key \in Keys
           /\ Current.hours # 0 => Current \in Entry
<1>1. pos + 1 \in 1 .. Len(batch)
  BY DEF SyncTypeOK, Handles
<1>2. Current \in Item
  BY <1>1 DEF SyncTypeOK, Current
<1>3. QED
  BY <1>1, <1>2 DEF SyncTypeOK, Item, Entry, Usable

\* The index points at live entries with the key it was asked for.
LEMMA IndexPointsAtLive ==
    ASSUME SyncTypeOK, IndexFindsLiveEntries, ~finished, NEW k \in DOMAIN idx
    PROVE  idx[k] \in Live /\ entries[idx[k]].key = k
  BY DEF IndexFindsLiveEntries, KeysAt

\* Type correctness, and an index that finds exactly the entries that stay.
THEOREM IndexCorrect == SyncSpec => [](SyncTypeOK /\ FinishedInv /\ IndexFindsLiveEntries)
<1> USE SyncAssumption DEF SyncAssumption
<1> DEFINE LoopInv == SyncTypeOK /\ FinishedInv /\ IndexFindsLiveEntries
<1>1. SyncInit => LoopInv
  <2> SUFFICES ASSUME SyncInit PROVE LoopInv
    OBVIOUS
  <2>1. batch \in Seq(Item) /\ Len(batch) \in Nat
    BY DEF SyncInit, BatchesUpTo
  <2>2. entries \in Seq(Entry) /\ \A i, j \in Positions : entries[i].key = entries[j].key => i = j
    BY DEF SyncInit, Lists, Positions
  <2>3. Live = Positions /\ finished = FALSE /\ pos = 0 /\ toDelete = {}
    BY DEF SyncInit, Live
  <2>4. \A j \in Positions : entries[j] \in Entry /\ entries[j].key \in Keys
    <3>1. Positions = 1 .. Len(entries)
      BY <2>2 DEF Positions
    <3>2. \A j \in Positions : entries[j] \in Entry
      BY <2>2, <3>1
    <3>3. QED
      BY <3>2 DEF Entry
  <2>5. /\ DOMAIN idx = KeysAt(Positions) /\ KeysAt(Positions) \subseteq Keys
        /\ \A k \in DOMAIN idx : idx[k] \in Positions /\ entries[idx[k]].key = k
    BY <2>4 DEF SyncInit, KeysAt
  <2>6. \A j \in Positions : entries[j].key \in DOMAIN idx /\ idx[entries[j].key] = j
    BY <2>2, <2>5 DEF KeysAt
  <2>7. QED
    <3>1. SyncTypeOK
      <4>1. pos \in 0 .. Len(batch) /\ toDelete \subseteq Positions
        BY <2>1, <2>3
      <4>2. DOMAIN idx \subseteq Keys /\ \A k \in DOMAIN idx : idx[k] \in Positions
        BY <2>5
      <4>3. QED
        BY <2>1, <2>2, <2>3, <4>1, <4>2, Zenon DEF SyncTypeOK
    <3>2. IndexFindsLiveEntries
      BY <2>3, <2>5, <2>6 DEF IndexFindsLiveEntries
    <3>3. QED
      BY <2>3, <3>1, <3>2 DEF FinishedInv
<1>2. LoopInv /\ [SyncNext]_syncVars => LoopInv'
  <2> SUFFICES ASSUME LoopInv, [SyncNext]_syncVars PROVE LoopInv'
    OBVIOUS
  <2> USE DEF SyncTypeOK, FinishedInv, IndexFindsLiveEntries, Live, Positions, KeysAt
  <2>1. ASSUME Handles PROVE pos' \in 0 .. Len(batch') /\ batch' = batch /\ finished' = finished /\ ~finished
    BY <2>1 DEF Handles
  <2>2. CASE Skip
    BY <2>1, <2>2 DEF Skip
  <2>3. CASE Delete
    <3>1. CASE Current.key \in DOMAIN idx
      <4>1. PICK k \in DOMAIN idx : k = Current.key
        BY <3>1
      <4>2. idx[k] \in Live /\ entries[idx[k]].key = k
        BY <2>1, <2>3, IndexPointsAtLive DEF Delete
      <4>3. /\ toDelete' = toDelete \cup {idx[k]} /\ entries' = entries
            /\ idx' = [x \in DOMAIN idx \ {k} |-> idx[x]]
        BY <2>3, <3>1, <4>1 DEF Delete, Forgotten
      <4>4. Live' = Live \ {idx[k]}
        BY <4>3
      <4>5. \A j \in Live' : entries[j].key # k /\ idx[entries[j].key] = j
                              /\ entries[j].key \in DOMAIN idx
        BY <2>1, <2>3, <4>4 DEF Delete
      <4>6. KeysAt(Live)' = DOMAIN idx'
        BY <2>1, <2>3, <4>2, <4>3, <4>4, <4>5 DEF Delete
      <4>7. SyncTypeOK'
        BY <2>1, <2>3, <4>2, <4>3 DEF Delete
      <4>8. QED
        BY <2>1, <2>3, <4>3, <4>5, <4>6, <4>7 DEF Delete
    <3>2. CASE Current.key \notin DOMAIN idx
      BY <2>1, <2>3, <3>2 DEF Delete
    <3>3. QED
      BY <3>1, <3>2
  <2>4. CASE Overwrite
    <3>1. PICK k \in DOMAIN idx : k = Current.key
      BY <2>4 DEF Overwrite
    <3>2. PICK p : p = idx[k]
      OBVIOUS
    <3>3. p \in Live /\ entries[p].key = k
      BY <2>1, <2>4, <3>2, IndexPointsAtLive DEF Overwrite
    <3>4. /\ entries' = [entries EXCEPT ![p] = [entries[p] EXCEPT !.hours = Current.hours]]
          /\ toDelete' = toDelete /\ idx' = idx
      BY <2>4, <3>1, <3>2, <3>3 DEF Overwrite
    <3>5. entries[p] \in Entry /\ Current \in Entry
      BY <2>1, <2>4, <3>3, CurrentIsItem DEF Overwrite
    <3>6. [entries[p] EXCEPT !.hours = Current.hours] \in Entry
          /\ [entries[p] EXCEPT !.hours = Current.hours].key = k
      BY <3>3, <3>5 DEF Entry
    <3>7. entries' \in Seq(Entry) /\ DOMAIN entries' = DOMAIN entries
      <4>1. PICK n \in Nat : n = Len(entries) /\ entries \in [1 .. n -> Entry]
        OBVIOUS
      <4>2. entries' \in [1 .. n -> Entry]
        BY <3>4, <3>6, <4>1
      <4>3. QED
        BY <4>1, <4>2
    <3>8. \A j \in Positions : entries'[j].key = entries[j].key
      BY <3>3, <3>4, <3>6
    <3>9. SyncTypeOK'
      BY <2>1, <2>4, <3>4, <3>7 DEF Overwrite
    <3>10. Live' = Live /\ KeysAt(Live)' = KeysAt(Live)
      BY <3>4, <3>7, <3>8
    <3>11. QED
      BY <2>1, <2>4, <3>4, <3>8, <3>9, <3>10 DEF Overwrite
  <2>5. CASE Add
    <3>1. PICK k \in Keys : k = Current.key /\ k \notin DOMAIN idx
      BY <2>5, CurrentIsItem DEF Add
    <3>2. PICK n \in Nat : n = Len(entries)
      OBVIOUS
    <3>3. Current \in Entry /\ Current.key = k
      BY <2>5, <3>1, CurrentIsItem DEF Add
    <3>4. /\ entries' = Append(entries, Current) /\ toDelete' = toDelete
          /\ idx' = [x \in DOMAIN idx \cup {k} |-> IF x = k THEN n + 1 ELSE idx[x]]
      BY <2>5, <3>1, <3>2 DEF Add, Indexed
    <3>5. /\ entries' \in Seq(Entry) /\ Len(entries') = n + 1
          /\ entries'[n + 1] = Current /\ \A j \in 1 .. n : entries'[j] = entries[j]
      BY <3>2, <3>3, <3>4
    <3>6. DOMAIN entries = 1 .. n /\ DOMAIN entries' = (1 .. n) \cup {n + 1} /\ n + 1 \notin 1 .. n
      BY <3>2, <3>5
    <3>7. Live' = Live \cup {n + 1} /\ Live \subseteq 1 .. n
      BY <3>4, <3>6
    <3>8. \A j \in Live : entries'[j] = entries[j]
      BY <3>5, <3>7
    <3>9. KeysAt(Live)' = KeysAt(Live) \cup {k}
      BY <3>3, <3>5, <3>7, <3>8
    <3>10. \A j \in Live : entries[j].key \in DOMAIN idx /\ idx[entries[j].key] = j /\ entries[j].key # k
      BY <2>1, <2>5, <3>1 DEF Add
    <3>11. SyncTypeOK'
      BY <2>1, <2>5, <3>4, <3>5, <3>6 DEF Add
    <3>12. DOMAIN idx' = KeysAt(Live)'
      BY <2>1, <2>5, <3>4, <3>9 DEF Add
    <3>13. \A j \in Live' : idx'[entries'[j].key] = j
      BY <3>3, <3>4, <3>5, <3>7, <3>8, <3>10
    <3>14. QED
      BY <2>1, <2>5, <3>11, <3>12, <3>13 DEF Add
  <2>6. CASE Compact
    BY <2>6, RemainingEntries DEF Compact
  <2>7. CASE UNCHANGED syncVars
    BY <2>7 DEF syncVars
  <2>8. QED
    BY <2>2, <2>3, <2>4, <2>5, <2>6, <2>7 DEF SyncNext
<1>3. QED
  BY <1>1, <1>2, PTL DEF SyncSpec

-----------------------------------------------------------------------------
(***************************************************************************)
(* The refinement.  While the loop runs the book of EntryBook can be read  *)
(* off the index; the compaction moves the entries and leaves the book as  *)
(* it is.                                                                  *)
(***************************************************************************)
BookNow ==
    [k \in KeysAt(Live) |-> entries[CHOOSE j \in Live : entries[j].key = k].hours]

\* The refinement: the loop applies the items one by one.
THEOREM LoopImplementsBook == SyncSpec => ImplementsEntryBook
<1> DEFINE LoopInv == SyncTypeOK /\ FinishedInv /\ IndexFindsLiveEntries
<1>1. SyncInit => pos = 0
  BY DEF SyncInit
<1>2. LoopInv /\ LoopInv' /\ [SyncNext]_syncVars => [Book!NextItem]_<<batch, pos, BookNow>>
  <2> SUFFICES ASSUME LoopInv, LoopInv', [SyncNext]_syncVars
               PROVE  [Book!NextItem]_<<batch, pos, BookNow>>
    OBVIOUS
  <2> USE DEF SyncTypeOK, FinishedInv, IndexFindsLiveEntries
  <2>1. ~finished => /\ BookNow = [k \in DOMAIN idx |-> entries[idx[k]].hours]
                     /\ DOMAIN BookNow = DOMAIN idx
                     /\ \A k \in DOMAIN idx : BookNow[k] = entries[idx[k]].hours
    BY DEF BookNow, KeysAt
  <2>2. ~finished' => BookNow' = [k \in DOMAIN idx' |-> entries'[idx'[k]].hours]
    BY DEF BookNow, KeysAt
  <2>3. ASSUME Handles, BookNow' = Book!Applied(BookNow, Current) PROVE Book!NextItem
    BY <2>3 DEF Handles, Current, BookNow, Book!NextItem
  <2> USE DEF Book!Applied, Book!Put, Book!Remove
  <2>4. CASE Skip
    <3>1. BookNow' = BookNow
      BY <2>4 DEF Skip, BookNow, KeysAt, Live, Positions
    <3>2. QED
      BY <2>3, <2>4, <3>1 DEF Skip
  <2>5. CASE Delete
    <3>1. ~finished /\ ~finished' /\ Usable(Current) /\ Current.hours = 0 /\ entries' = entries
      BY <2>5 DEF Delete, Handles
    <3>2. DOMAIN idx' = DOMAIN idx \ {Current.key} /\ \A x \in DOMAIN idx' : idx'[x] = idx[x]
      BY <2>5 DEF Delete, Forgotten
    <3>3. BookNow' = Book!Remove(BookNow, Current.key)
      <4>1. BookNow' = [x \in DOMAIN idx \ {Current.key} |-> entries[idx[x]].hours]
        BY <2>2, <3>1, <3>2
      <4>2. QED
        BY <2>1, <3>1, <4>1
    <3>4. QED
      BY <2>3, <2>5, <3>1, <3>3 DEF Delete
  <2>6. CASE Overwrite
    <3>1. PICK k \in DOMAIN idx : k = Current.key
      BY <2>6 DEF Overwrite
    <3>2. ~finished /\ ~finished' /\ Usable(Current) /\ Current.hours # 0 /\ idx' = idx
      BY <2>6 DEF Overwrite, Handles
    <3>3. /\ \A x \in DOMAIN idx : idx[x] \in Live /\ entries[idx[x]].key = x
          /\ Live \subseteq DOMAIN entries
      BY <3>2, IndexPointsAtLive DEF Live, Positions
    <3>4. /\ entries'[idx[k]].hours = Current.hours
          /\ \A x \in DOMAIN idx \ {k} : entries'[idx[x]] = entries[idx[x]]
      BY <2>6, <3>1, <3>3 DEF Overwrite
    <3>5. BookNow' = Book!Put(BookNow, k, Current.hours)
      BY <2>1, <2>2, <3>2, <3>4
    <3>6. QED
      BY <2>3, <2>6, <3>1, <3>2, <3>5 DEF Overwrite
  <2>7. CASE Add
    <3>1. PICK n \in Nat : n = Len(entries)
      OBVIOUS
    <3>2. ~finished /\ ~finished' /\ Usable(Current) /\ Current.hours # 0
      BY <2>7 DEF Add, Handles
    <3>3. /\ Current.key \notin DOMAIN idx
          /\ idx' = [x \in DOMAIN idx \cup {Current.key} |-> IF x = Current.key THEN n + 1 ELSE idx[x]]
      BY <2>7, <3>1 DEF Add, Indexed
    <3>4. \A x \in DOMAIN idx : idx[x] \in 1 .. n
      BY <3>1, <3>2, IndexPointsAtLive DEF Live, Positions
    <3>5. entries'[n + 1] = Current /\ \A j \in 1 .. n : entries'[j] = entries[j]
      BY <2>7, <3>1, CurrentIsItem DEF Add
    <3>6. BookNow' = Book!Put(BookNow, Current.key, Current.hours)
      <4>1. DOMAIN idx' = DOMAIN idx \cup {Current.key}
        BY <3>3
      <4>2. entries'[idx'[Current.key]].hours = Current.hours
        BY <3>3, <3>5
      <4>3. \A x \in DOMAIN idx : x # Current.key /\ entries'[idx'[x]].hours = entries[idx[x]].hours
        BY <3>3, <3>4, <3>5
      <4>4. BookNow' = [x \in DOMAIN idx \cup {Current.key} |->
                            IF x = Current.key THEN Current.hours ELSE entries[idx[x]].hours]
        <5>1. \A x \in DOMAIN idx \cup {Current.key} :
                  entries'[idx'[x]].hours =
                      IF x = Current.key THEN Current.hours ELSE entries[idx[x]].hours
          BY <4>2, <4>3
        <5>2. BookNow' = [x \in DOMAIN idx \cup {Current.key} |-> entries'[idx'[x]].hours]
          BY <2>2, <3>2, <4>1
        <5>3. QED
          BY <5>1, <5>2, Zenon
      <4>5. QED
        BY <2>1, <3>2, <4>3, <4>4
    <3>7. QED
      BY <2>3, <2>7, <3>2, <3>6 DEF Add
  <2>8. CASE Compact
    <3>1. entries' = Remaining /\ toDelete' = {} /\ ~finished /\ UNCHANGED <<batch, pos>>
      BY <2>8 DEF Compact
    <3>2. Live' = DOMAIN Remaining
      BY <3>1 DEF Live, Positions
    <3>3. /\ \A n \in Live' : \E j \in Live : Place(j) = n /\ entries'[n] = entries[j]
          /\ \A j \in Live : Place(j) \in Live' /\ entries'[Place(j)] = entries[j]
      BY <3>1, <3>2, RemainingEntries
    <3>4. \A i, j \in Live : entries[i].key = entries[j].key => i = j
      BY <3>1
    <3>5. \A m, n \in Live' : entries'[m].key = entries'[n].key => m = n
      BY <3>3, <3>4
    <3>6. KeysAt(Live)' = KeysAt(Live)
      BY <3>3 DEF KeysAt
    <3>7. ASSUME NEW k \in KeysAt(Live) PROVE BookNow'[k] = BookNow[k]
      <4>1. PICK j \in Live : entries[j].key = k
        BY DEF KeysAt
      <4>2. BookNow[k] = entries[j].hours
        BY <3>4, <4>1 DEF BookNow
      <4>3. Place(j) \in Live' /\ entries'[Place(j)] = entries[j]
        BY <3>3
      <4>4. (CHOOSE n \in Live' : entries'[n].key = k) = Place(j)
        BY <3>5, <4>1, <4>3
      <4>5. BookNow'[k] = entries'[Place(j)].hours
        BY <3>6, <4>4 DEF BookNow
      <4>6. QED
        BY <4>2, <4>3, <4>5
    <3>8. BookNow' = BookNow
      BY <3>6, <3>7 DEF BookNow
    <3>9. QED
      BY <3>1, <3>8
  <2>9. CASE UNCHANGED syncVars
    BY <2>9 DEF syncVars, BookNow, KeysAt, Live, Positions
  <2>10. QED
    BY <2>4, <2>5, <2>6, <2>7, <2>8, <2>9 DEF SyncNext
<1>3. QED
  BY IndexCorrect, <1>1, <1>2, PTL DEF SyncSpec, ImplementsEntryBook, Book!BookSpec, BookNow

=============================================================================
