------------------------ MODULE ForecastFiguresProofs ------------------------
(***************************************************************************)
(* Proofs about the figures, for any document, any edits and any day on    *)
(* which the program runs: imports, stale accuracies, carried budgets, the *)
(* horizon of the dashboard, the burn-down, the views of a year and the    *)
(* working time.                                                           *)
(***************************************************************************)

EXTENDS ForecastFigures, DataLemmas

\* Types of the variables, in three parts.
ProjectsTyped ==
    /\ DOMAIN projects \subseteq DOMAIN FirstProjects
    /\ projects = [p \in DOMAIN projects |-> projects[p]]
    /\ \A p \in DOMAIN projects : IsProject(projects[p])

HoursTyped ==
    /\ DOMAIN hours \subseteq Days \X DOMAIN projects /\ IsFiniteSet(DOMAIN hours)
    /\ hours \in [DOMAIN hours -> Nat \ {0}]

OthersTyped ==
    /\ startMonth \in 1..12
    /\ DOMAIN accuracy \subseteq Years
    /\ accuracy \in [DOMAIN accuracy -> [asOf : Days, startMonth : 1..12]]
    /\ today \in Todays
    /\ edits \in 0..MaxEdits

\* The types of the projects, of the entries and of the rest.
LEMMA TypeParts == TypeOK <=> ProjectsTyped /\ HoursTyped /\ OthersTyped
  BY DEF TypeOK, ProjectsTyped, HoursTyped, OthersTyped

\* An entry that is put.
LEMMA PutTyped ==
    ASSUME HoursTyped, NEW n \in Days, NEW p \in DOMAIN projects, NEW h \in Amounts \cup {0},
           PutEntry(n, p, h)
    PROVE  HoursTyped'
<1>1. PICK k : k = <<n, p>>
  BY Zenon
<1>2. PICK D : D = (DOMAIN hours \cup {k}) \ {f \in {k} : h = 0}
  BY Zenon
<1>3. hours' = [e \in D |-> IF e = k THEN h ELSE hours[e]]
  BY <1>1, <1>2 DEF PutEntry
<1>4. DOMAIN hours' = D /\ D \subseteq DOMAIN hours \cup {k}
  BY <1>2, <1>3
<1>5. D \subseteq Days \X DOMAIN projects
  BY <1>1, <1>4 DEF HoursTyped
<1>6. IsFiniteSet(D)
  <2>1. IsFiniteSet(DOMAIN hours \cup {k})
    BY FS_AddElement, Zenon DEF HoursTyped
  <2> QED
    BY <1>4, <2>1, FS_Subset
<1>7. ASSUME NEW e \in D PROVE hours'[e] \in Nat \ {0}
  <2>1. CASE e = k
    <3>1. h # 0 /\ hours'[e] = h
      BY <1>2, <1>3, <2>1
    <3> QED
      BY <3>1, FiguresAssumption
  <2>2. CASE e # k
    BY <1>3, <1>4, <2>2 DEF HoursTyped
  <2> QED
    BY <2>1, <2>2
<1>8. hours' \in [D -> Nat \ {0}]
  BY <1>3, <1>7
<1>9. projects' = projects
  BY DEF PutEntry
<1> QED
  BY <1>4, <1>5, <1>6, <1>8, <1>9 DEF HoursTyped

\* A row that a request makes of a row.
LEMMA RowTyped ==
    ASSUME ProjectsTyped, NEW p \in DOMAIN projects, NEW row \in UpdatedRows(p)
    PROVE  IsProject(row)
<1>1. PICK r : r = projects[p]
  BY Zenon
<1>2. IsProject(r)
  BY <1>1 DEF ProjectsTyped
<1>3. CASE row = [r EXCEPT !.active = ~r.active]
  BY <1>2, <1>3 DEF IsProject
<1>4. ASSUME NEW w \in Windows, row = [r EXCEPT !.start = w[1], !.end = w[2]] PROVE IsProject(row)
  <2>1. PICK v, u : v = w[1] /\ u = w[2]
    BY Zenon
  <2>2. v \in Nat /\ u \in Nat
    BY <2>1, FiguresAssumption
  <2>3. row = [r EXCEPT !.start = v, !.end = u]
    BY <1>4, <2>1
  <2> QED
    BY <1>2, <2>2, <2>3 DEF IsProject
<1>5. ASSUME NEW b \in Budgets, row = [r EXCEPT !.budget = b] PROVE IsProject(row)
  <2>1. b \in Nat
    BY FiguresAssumption
  <2> QED
    BY <1>2, <1>5, <2>1 DEF IsProject
<1>6. ASSUME NEW y \in Years, row = [r EXCEPT !.fiscalYear = y] PROVE IsProject(row)
  BY <1>2, <1>6 DEF IsProject
<1>7. ASSUME NEW a \in Assignments, row = [r EXCEPT !.assignment = a] PROVE IsProject(row)
  BY <1>2, <1>7 DEF IsProject
<1>8. \/ row = [r EXCEPT !.active = ~r.active]
      \/ \E w \in Windows : row = [r EXCEPT !.start = w[1], !.end = w[2]]
      \/ \E b \in Budgets : row = [r EXCEPT !.budget = b]
      \/ \E y \in Years : row = [r EXCEPT !.fiscalYear = y]
      \/ \E a \in Assignments : row = [r EXCEPT !.assignment = a]
  BY <1>1, Zenon DEF UpdatedRows
<1> QED
  BY <1>3, <1>4, <1>5, <1>6, <1>7, <1>8

\* A project that is deleted, with its entries.
LEMMA DeleteTyped ==
    ASSUME ProjectsTyped, HoursTyped, NEW p \in DOMAIN projects, DeleteProject(p)
    PROVE  ProjectsTyped' /\ HoursTyped'
<1>1. PICK K : K = DOMAIN projects \ {p}
  BY Zenon
<1>2. PICK D : D = {e \in DOMAIN hours : e[2] # p}
  BY Zenon
<1>3. projects' = [q \in K |-> projects[q]] /\ hours' = [e \in D |-> hours[e]]
  BY <1>1, <1>2, Zenon DEF DeleteProject, Restrict
<1>4. DOMAIN projects' = K /\ DOMAIN hours' = D /\ D \subseteq DOMAIN hours
  BY <1>2, <1>3
<1>5. ASSUME NEW e \in D PROVE e \in Days \X K
  <2>1. e \in Days \X DOMAIN projects /\ e[2] # p
    BY <1>2 DEF HoursTyped
  <2> QED
    BY <1>1, <2>1
<1>6. IsFiniteSet(D)
  BY <1>4, FS_Subset DEF HoursTyped
<1>7. hours' \in [D -> Nat \ {0}]
  BY <1>3, <1>4 DEF HoursTyped
<1>8. HoursTyped'
  BY <1>4, <1>5, <1>6, <1>7 DEF HoursTyped
<1>9. ProjectsTyped'
  BY <1>1, <1>3, <1>4 DEF ProjectsTyped
<1> QED
  BY <1>8, <1>9

\* No edit, valid or refused, and no new day changes a type.
LEMMA TypeStep == TypeOK /\ [Next]_vars => TypeOK'
<1> SUFFICES ASSUME ProjectsTyped, HoursTyped, OthersTyped, [Next]_vars
             PROVE  ProjectsTyped' /\ HoursTyped' /\ OthersTyped'
  BY TypeParts DEF TypeOK, ProjectsTyped, HoursTyped, OthersTyped
<1> DEFINE Counted == edits < MaxEdits /\ edits' = edits + 1 /\ UNCHANGED today
<1>1. /\ StartMonths \subseteq 1..12 /\ MaxEdits \in Nat
  BY FiguresAssumption
<1>2. ASSUME Counted, NEW n \in Days, NEW p \in DOMAIN projects, NEW h \in Amounts \cup {0},
             PutEntry(n, p, h)
      PROVE  ProjectsTyped' /\ HoursTyped' /\ OthersTyped'
  BY <1>1, <1>2, PutTyped DEF ProjectsTyped, OthersTyped, PutEntry
<1>3. ASSUME Counted, NEW p \in DOMAIN projects, NEW row \in UpdatedRows(p), UpdateProject(p, row)
      PROVE  ProjectsTyped' /\ HoursTyped' /\ OthersTyped'
  <2>1. IsProject(row)
    BY RowTyped
  <2>2. projects' = [projects EXCEPT ![p] = row]
    BY <1>3 DEF UpdateProject
  <2>3. /\ DOMAIN projects' = DOMAIN projects
        /\ projects' = [q \in DOMAIN projects |-> IF q = p THEN row ELSE projects[q]]
    BY <2>2 DEF ProjectsTyped
  <2>4. ProjectsTyped'
    BY <2>1, <2>3 DEF ProjectsTyped
  <2>5. HoursTyped'
    BY <1>3, <2>3 DEF UpdateProject, HoursTyped
  <2>6. OthersTyped'
    BY <1>1, <1>3 DEF UpdateProject, OthersTyped
  <2> QED
    BY <2>4, <2>5, <2>6
<1>4. ASSUME Counted, NEW p \in DOMAIN projects, DeleteProject(p)
      PROVE  ProjectsTyped' /\ HoursTyped' /\ OthersTyped'
  <2>1. OthersTyped'
    BY <1>1, <1>4 DEF DeleteProject, OthersTyped
  <2> QED
    BY <1>4, <2>1, DeleteTyped
<1>5. ASSUME Counted, NEW m \in StartMonths, ChangeStartMonth(m)
      PROVE  ProjectsTyped' /\ HoursTyped' /\ OthersTyped'
  BY <1>1, <1>5 DEF ChangeStartMonth, ProjectsTyped, HoursTyped, OthersTyped
<1>6. ASSUME Counted, NEW y \in Years, NEW n \in Days, PutForecastAccuracy(y, n)
      PROVE  ProjectsTyped' /\ HoursTyped' /\ OthersTyped'
  <2>1. ProjectsTyped' /\ HoursTyped'
    BY <1>6 DEF PutForecastAccuracy, ProjectsTyped, HoursTyped
  <2>2. OthersTyped'
    BY <1>1, <1>6 DEF PutForecastAccuracy, OthersTyped
  <2> QED
    BY <2>1, <2>2
<1>7. CASE DayPasses
  BY <1>7 DEF DayPasses, ProjectsTyped, HoursTyped, OthersTyped
<1>8. CASE UNCHANGED vars
  BY <1>8 DEF vars, ProjectsTyped, HoursTyped, OthersTyped
<1> QED
  BY <1>2, <1>3, <1>4, <1>5, <1>6, <1>7, <1>8 DEF Next, Edit

\* Every variable of the figures keeps its type, whatever is edited.
THEOREM TypeCorrect == Spec => []TypeOK
<1>1. Init => TypeOK
  <2> SUFFICES ASSUME Init PROVE TypeOK
    OBVIOUS
  <2>1. IsFiniteSet(DOMAIN hours) /\ DOMAIN hours = {} /\ DOMAIN accuracy = {}
    BY FS_EmptySet DEF Init
  <2>2. hours \in [DOMAIN hours -> Nat \ {0}]
    BY <2>1 DEF Init
  <2>3. accuracy \in [DOMAIN accuracy -> [asOf : Days, startMonth : 1..12]]
    BY <2>1 DEF Init
  <2> QED
    BY <2>1, <2>2, <2>3, FiguresAssumption DEF Init, TypeOK, DefaultStartMonth
<1> QED
  BY <1>1, TypeStep, PTL DEF Spec

-----------------------------------------------------------------------------
\* An import replaces a value by one that is not older, and nothing else touches
\* them.
THEOREM AccuracyCorrect == Spec => AccuracyNeverGoesBack
<1>1. ASSUME TypeOK, [Next]_vars, NEW y \in Years, y \in DOMAIN accuracy
      PROVE  y \in DOMAIN accuracy' /\ accuracy[y].asOf <= accuracy'[y].asOf
  <2>1. accuracy[y].asOf \in Nat
    BY <1>1, FiguresAssumption DEF TypeOK
  <2>2. CASE accuracy' = accuracy
    BY <1>1, <2>1, <2>2
  <2>3. ASSUME NEW z \in Years, NEW n \in Days, PutForecastAccuracy(z, n)
        PROVE  y \in DOMAIN accuracy' /\ accuracy[y].asOf <= accuracy'[y].asOf
    BY <1>1, <2>1, <2>3 DEF PutForecastAccuracy, NotOlder
  <2> QED
    BY <1>1, <2>2, <2>3 DEF Next, Edit, PutEntry, UpdateProject, DeleteProject, ChangeStartMonth,
                            DayPasses, vars
<1>2. TypeOK /\ [Next]_vars =>
          [\A y \in Years : y \in DOMAIN accuracy =>
              y \in DOMAIN accuracy' /\ accuracy[y].asOf <= accuracy'[y].asOf]_vars
  BY <1>1
<1> QED
  BY <1>2, TypeCorrect, PTL DEF Spec, AccuracyNeverGoesBack

-----------------------------------------------------------------------------
(***************************************************************************)
(* The calendar.                                                           *)
(***************************************************************************)

\* A fiscal year has 365 or 366 days, whatever month it starts in.
LEMMA YearLength ==
    ASSUME NEW y \in Int, NEW m
    PROVE  /\ FYStart(y, m) \in Int /\ FYStart(y + 1, m) \in Int
           /\ FYStart(y + 1, m) - FYStart(y, m) \in 365..366
<1>1. PICK k \in 1..12 : k = NormMonth(m)
  BY DEF NormMonth
<1>2. PICK z \in Int : z = IF k > 1 THEN y - 1 ELSE y
  OBVIOUS
<1>3. FYStart(y, m) = Date(z, k, 1) /\ FYStart(y + 1, m) = Date(z + 1, k, 1)
  BY <1>1, <1>2 DEF FYStart
<1>4. PICK f \in Int : f = IF k <= 2 THEN z - 1 ELSE z
  OBVIOUS
<1>5. PICK c \in Int : c = (153 * ((k + 9) % 12) + 2) \div 5 + 1 - 1 - 719468
  OBVIOUS
<1>6. (k - 1) \div 12 = 0 /\ (k - 1) % 12 = k - 1
  OBVIOUS
<1>7. /\ Date(z, k, 1) = 365 * f + f \div 4 - f \div 100 + f \div 400 + c
      /\ Date(z + 1, k, 1) = 365 * (f + 1) + (f + 1) \div 4 - (f + 1) \div 100 + (f + 1) \div 400 + c
  BY <1>4, <1>5, <1>6 DEF Date
<1>8. (f + 1) \div 4 - (f + 1) \div 100 + (f + 1) \div 400
          - (f \div 4 - f \div 100 + f \div 400) \in 0..1
  OBVIOUS
<1> QED
  BY <1>3, <1>5, <1>7, <1>8

\* Weeks begin on Monday and end on Sunday.
LEMMA WeekOf ==
    ASSUME NEW n \in Int
    PROVE  /\ MondayOf(n) \in Int /\ MondayOf(n) <= n /\ n <= MondayOf(n) + 6
           /\ (MondayOf(n) + 3) % 7 = 0
  BY DEF MondayOf, Weekday

\* A fiscal year touches 53 or 54 weeks.
LEMMA YearWeeks ==
    ASSUME NEW y \in Int, NEW m
    PROVE  FYWeeks(y, m) \in 53..54
<1>1. PICK s, e \in Int : s = FYStart(y, m) /\ e = FYStart(y + 1, m) /\ e - s \in 365..366
  BY YearLength
<1>2. PICK monday \in Int : monday = MondayOf(s) /\ monday <= s /\ s <= monday + 6
  BY <1>1, WeekOf
<1>3. FYWeeks(y, m) = (e - 1 - monday + 1 + 6) \div 7
  BY <1>1, <1>2 DEF FYWeeks, FYEnd
<1> QED
  BY <1>1, <1>2, <1>3

-----------------------------------------------------------------------------
(***************************************************************************)
(* Months.  Civil turns a day number back into a date: the months of a     *)
(* year follow one another without a gap, and every day lies in one of     *)
(* them.                                                                   *)
(***************************************************************************)

\* An era is 400 years that begin on 1 March; each of its days is in the year
\* that YearOfEra finds, and only the last year of an era and the fourth year of
\* a century, but for the hundredth, have a day 365.
LEMMA EraYear ==
    ASSUME NEW d \in Nat, d <= 146096, NEW y, y = YearOfEra(d)
    PROVE  /\ y \in 0..399
           /\ FirstOfYear(y) <= d
           /\ d < FirstOfYear(y + 1) \/ (y = 399 /\ d = FirstOfYear(400))
<1>1. CASE d = 146096
  BY <1>1, SMT DEF YearOfEra, FirstOfYear
<1>2. CASE d < 146096
  <2>1. PICK b \in 0..3, r \in Nat : d = 36524 * b + r /\ r < 36524 /\ d \div 36524 = b
    <3>1. PICK b \in Int, r \in Int : d = 36524 * b + r /\ 0 <= r /\ r < 36524 /\ d \div 36524 = b
      BY SMT
    <3> QED
      BY <1>2, <3>1, SMT
  <2>2. PICK q \in 0..24, t \in 0..1460 : r = 1461 * q + t /\ (q < 24 \/ t < 1460)
    <3>1. PICK q \in Int, t \in 0..1460 : r = 1461 * q + t
      <4>1. PICK q \in Int : q = r \div 1461
        BY SMT
      <4>2. PICK t \in Int : t = r - 1461 * q
        BY SMT
      <4>3. t >= 0 /\ t <= 1460
        BY <4>1, <4>2, SMT
      <4>4. r = 1461 * q + t /\ t \in 0..1460
        BY <4>2, <4>3, SMT
      <4> QED
        BY <4>4, SMT
    <3>2. q >= 0 /\ q <= 24
      BY <2>1, <3>1, SMT
    <3> QED
      BY <2>1, <3>1, <3>2, SMT
  <2>3. PICK u \in 0..1 : u = IF 24 * b + q + t >= 1460 THEN 1 ELSE 0
    BY SMT
  <2>4. d \div 1460 = 25 * b + q + u
    BY <2>1, <2>2, <2>3, SMT
  <2>5. d - d \div 1460 + d \div 36524 - d \div 146096 = 36500 * b + 1460 * q + t - u
    BY <1>2, <2>1, <2>2, <2>4, SMT
  <2>6. PICK v \in 0..3 : 365 * v <= t - u /\ t - u < 365 * v + 365
    BY <2>3, SMT
  <2>7. y = 100 * b + 4 * q + v
    BY <2>5, <2>6, SMT DEF YearOfEra
  <2>8. FirstOfYear(y) = 36524 * b + 1461 * q + 365 * v
    BY <2>7, SMT DEF FirstOfYear
  <2>9. t < 365 * v + 365 \/ v = 3
    BY <2>3, <2>6, SMT
  <2>10. CASE v < 3
    <3>1. FirstOfYear(y + 1) = 36524 * b + 1461 * q + 365 * v + 365
      BY <2>7, <2>10, SMT DEF FirstOfYear
    <3>2. y \in 0..399
      BY <2>7, SMT
    <3>3. 365 * v <= t /\ t < 365 * v + 365
      BY <2>6, <2>9, <2>10, SMT
    <3>4. d = 36524 * b + 1461 * q + t
      BY <2>1, <2>2, SMT
    <3>5. FirstOfYear(y) <= d
      BY <2>8, <3>3, <3>4, SMT
    <3>6. d < FirstOfYear(y + 1)
      BY <3>1, <3>3, <3>4, SMT
    <3> QED
      BY <3>2, <3>5, <3>6, SMT
  <2>11. CASE v >= 3 /\ q < 24
    <3>1. FirstOfYear(y + 1) = 36524 * b + 1461 * q + 1461
      <4>1. PICK z \in 1..24 : z = q + 1 /\ y + 1 = 100 * b + 4 * z
        BY <2>7, <2>11, SMT
      <4>2. (y + 1) \div 100 = b
        BY <4>1, SMT
      <4>3. (y + 1) \div 4 = 25 * b + z
        BY <4>1, SMT
      <4> QED
        BY <4>1, <4>2, <4>3, SMT DEF FirstOfYear
    <3>2. y \in 0..399
      BY <2>7, SMT
    <3> QED
      BY <2>1, <2>2, <2>6, <2>8, <2>11, <3>1, <3>2, SMT
  <2>12. CASE v >= 3 /\ q >= 24
    <3>1. FirstOfYear(y + 1) = 36524 * b + 36524
      BY <2>7, <2>12, SMT DEF FirstOfYear
    <3>2. y \in 0..399
      BY <2>7, SMT
    <3>3. q = 24 /\ v = 3
      BY <2>12, SMT
    <3>4. t < 1460
      BY <2>2, <3>3, SMT
    <3>5. t >= 1095
      BY <2>6, <3>3, SMT
    <3>6. r = 35064 + t
      BY <2>2, <3>3, SMT
    <3>7. FirstOfYear(y) = 36524 * b + 36159
      BY <2>8, <3>3, SMT
    <3>8. d = 36524 * b + 35064 + t
      BY <2>1, <3>6, SMT
    <3>9. FirstOfYear(y) <= d
      BY <3>5, <3>7, <3>8, SMT
    <3>10. d < FirstOfYear(y + 1)
      BY <3>1, <3>4, <3>8, SMT
    <3> QED
      BY <3>2, <3>9, <3>10, SMT
  <2> QED
    BY <2>10, <2>11, <2>12, SMT
<1>3. d = 146096 \/ d < 146096
  BY SMT
<1> QED
  BY <1>1, <1>2, <1>3, SMT

\* The days before month m of a year that begins in March.
DaysBefore(m) == (153 * m + 2) \div 5

\* The month of a day in such a year.
LEMMA MonthOfDay ==
    ASSUME NEW d \in 0..365, NEW m, m = (5 * d + 2) \div 153
    PROVE  m \in 0..11 /\ DaysBefore(m) <= d /\ d < DaysBefore(m + 1)
  BY SMTT(30), SMT DEF DaysBefore

\* The first day of a month, counted in months.
MonthDay(k) == Date(k \div 12, (k % 12) + 1, 1)

\* A date, by the first day of its month.
LEMMA DateOfMonth ==
    ASSUME NEW y \in Int, NEW m \in Int, NEW d \in Int
    PROVE  MonthDay(12 * y + m - 1) \in Int /\ Date(y, m, d) = MonthDay(12 * y + m - 1) + d - 1
<1>1. PICK a \in Int, r \in 0..11 : m - 1 = 12 * a + r
  <2>1. m - 1 = 12 * ((m - 1) \div 12) + ((m - 1) % 12)
    BY SMT
  <2> QED
    BY <2>1, SMT
<1>2. (m - 1) \div 12 = a /\ ((m - 1) % 12) = r
  BY <1>1, SMT
<1>3. PICK k \in Int : k = 12 * y + m - 1
  OBVIOUS
<1>4. k \div 12 = y + a /\ (k % 12) = r
  BY <1>1, <1>3, SMT
<1>5. PICK z \in Int : z = y + a
  OBVIOUS
<1>6. PICK g \in Int : g = IF r + 1 <= 2 THEN z - 1 ELSE z
  BY SMT
<1>7. PICK c \in Int : c = (153 * ((r + 1 + 9) % 12) + 2) \div 5
  BY SMT
<1>8. Date(y, m, d) = 365 * g + g \div 4 - g \div 100 + g \div 400 + (c + d - 1) - 719468
  BY <1>2, <1>5, <1>6, <1>7, SMT DEF Date
<1>9. (r + 1 - 1) \div 12 = 0 /\ ((r + 1 - 1) % 12) = r
  BY SMT
<1>10. Date(z, r + 1, 1) = 365 * g + g \div 4 - g \div 100 + g \div 400 + (c + 1 - 1) - 719468
  BY <1>6, <1>7, <1>9, SMT DEF Date
<1>11. MonthDay(k) = Date(z, r + 1, 1)
  BY <1>4, <1>5 DEF MonthDay
<1> QED
  BY <1>3, <1>8, <1>10, <1>11, SMT

\* The first day of month m of the year that begins in March of the year f.
YearBase(f) == 365 * f + f \div 4 - f \div 100 + f \div 400 - 719468

LEMMA FirstOfMonth ==
    ASSUME NEW f \in Int, NEW m \in 0..11
    PROVE  MonthDay(12 * f + m + 2) = YearBase(f) + DaysBefore(m)
<1>1. PICK k \in Int : k = 12 * f + m + 2
  OBVIOUS
<1>2. /\ k \div 12 = IF m < 10 THEN f ELSE f + 1
      /\ (k % 12) = IF m < 10 THEN m + 2 ELSE m - 10
  BY <1>1, SMT
<1>3. CASE m < 10
  <2>1. (m + 3 + 9) % 12 = m /\ (m + 3 - 1) \div 12 = 0 /\ (m + 3 - 1) % 12 = m + 2
    BY <1>3, SMT
  <2>2. Date(f, m + 3, 1) = YearBase(f) + DaysBefore(m)
    BY <1>3, <2>1, SMT DEF Date, DaysBefore, YearBase
  <2> QED
    BY <1>1, <1>2, <1>3, <2>2, SMT DEF MonthDay
<1>4. CASE m >= 10
  <2>1. (m - 9 + 9) % 12 = m /\ (m - 9 - 1) \div 12 = 0 /\ (m - 9 - 1) % 12 = m - 10
    BY <1>4, SMT
  <2>2. Date(f + 1, m - 9, 1) = YearBase(f) + DaysBefore(m)
    BY <1>4, <2>1, SMT DEF Date, DaysBefore, YearBase
  <2> QED
    BY <1>1, <1>2, <1>4, <2>2, SMT DEF MonthDay
<1> QED
  BY <1>3, <1>4, SMT

\* A month has 28 to 31 days.
LEMMA MonthLength ==
    ASSUME NEW k \in Int
    PROVE  /\ MonthDay(k) \in Int /\ MonthDay(k + 1) \in Int
           /\ MonthDay(k + 1) - MonthDay(k) \in 28..31
<1>1. PICK f \in Int, m \in 0..11 : k = 12 * f + m + 2
  <2>1. k - 2 = 12 * ((k - 2) \div 12) + ((k - 2) % 12)
    BY SMT
  <2> QED
    BY <2>1, SMT
<1>2. MonthDay(k) = YearBase(f) + DaysBefore(m)
  BY <1>1, FirstOfMonth
<1>3. YearBase(f) \in Int /\ YearBase(f + 1) \in Int /\ YearBase(f + 1) - YearBase(f) \in 365..366
  BY SMT DEF YearBase
<1>4. CASE m < 11
  <2>1. MonthDay(k + 1) = YearBase(f) + DaysBefore(m + 1)
    <3>1. m + 1 \in 0..11 /\ 12 * f + (m + 1) + 2 = k + 1
      BY <1>1, <1>4, SMT
    <3> QED
      BY <3>1, FirstOfMonth
  <2>2. /\ DaysBefore(m) \in Int /\ DaysBefore(m + 1) \in Int
        /\ DaysBefore(m + 1) - DaysBefore(m) \in 30..31
    BY <1>4, SMT DEF DaysBefore
  <2> QED
    BY <1>2, <1>3, <2>1, <2>2, SMT
<1>5. CASE m = 11
  <2>1. MonthDay(k + 1) = YearBase(f + 1) + DaysBefore(0)
    <3>1. 0 \in 0..11 /\ f + 1 \in Int /\ 12 * (f + 1) + 0 + 2 = k + 1
      BY <1>1, <1>5, SMT
    <3> QED
      BY <3>1, FirstOfMonth
  <2>2. DaysBefore(m) = 337 /\ DaysBefore(0) = 0
    BY <1>5, SMT DEF DaysBefore
  <2> QED
    BY <1>2, <1>3, <2>1, <2>2, SMT
<1> QED
  BY <1>4, <1>5, SMT

\* Months follow each other.
LEMMA MonthsGrow ==
    ASSUME NEW k \in Int, NEW n \in Nat
    PROVE  MonthDay(k + n) \in Int /\ MonthDay(k + n) >= MonthDay(k) + 28 * n
<1> DEFINE N == {i \in Nat : MonthDay(k + i) >= MonthDay(k) + 28 * i}
<1>1. \A i \in Int : /\ MonthDay(i) \in Int /\ MonthDay(i + 1) \in Int
                     /\ MonthDay(i + 1) >= MonthDay(i) + 28
  BY MonthLength
<1>2. 0 \in N
  BY <1>1
<1>3. ASSUME NEW i \in N PROVE i + 1 \in N
  <2>1. PICK j \in Int : j = k + i
    OBVIOUS
  <2>2. MonthDay(j + 1) >= MonthDay(j) + 28 /\ MonthDay(j) \in Int /\ MonthDay(j + 1) \in Int
    BY <1>1
  <2>3. MonthDay(j) >= MonthDay(k) + 28 * i /\ k + (i + 1) = j + 1 /\ MonthDay(k) \in Int
    BY <1>1, <2>1
  <2> QED
    BY <2>2, <2>3
<1>4. N = Nat
  <2>1. N \in SUBSET Nat
    OBVIOUS
  <2> HIDE DEF N
  <2> QED
    BY <1>2, <1>3, <2>1, SetInduction
<1>5. n \in N
  BY <1>4
<1>6. k + n \in Int
  OBVIOUS
<1>7. MonthDay(k + n) \in Int
  BY <1>1, <1>6
<1> QED
  BY <1>5, <1>7

\* The month a day is in, counted in months.
MonthIndex(n) == 12 * Civil(n).year + Civil(n).month - 1

\* A day is in the month Civil says.
LEMMA CivilMonth ==
    ASSUME NEW n \in Int
    PROVE  /\ Civil(n).year \in Int /\ Civil(n).month \in 1..12 /\ Civil(n).day \in 1..31
           /\ MonthIndex(n) \in Int
           /\ MonthDay(MonthIndex(n)) \in Int
           /\ n = MonthDay(MonthIndex(n)) + Civil(n).day - 1
           /\ n < MonthDay(MonthIndex(n) + 1)
<1>1. PICK s \in Int : s = n + 719468
  BY SMT
<1>2. PICK era \in Int : era = s \div 146097
  BY SMT
<1>3. PICK d \in Int : d = s - 146097 * era
  BY SMT
<1>4. d \in Nat /\ d <= 146096
  BY <1>2, <1>3, SMT
<1>5. PICK y : y = YearOfEra(d)
  BY Zenon
<1>6. /\ y \in 0..399
      /\ FirstOfYear(y) <= d
      /\ d < FirstOfYear(y + 1) \/ (y = 399 /\ d = FirstOfYear(400))
  BY <1>4, <1>5, EraYear, SMT
<1>7. PICK t \in Int : t = d - FirstOfYear(y)
  BY <1>4, <1>6, SMT DEF FirstOfYear
<1>8. t \in 0..365
  BY <1>6, <1>7, SMT DEF FirstOfYear
<1>9. PICK m : m = (5 * t + 2) \div 153
  BY SMT
<1>10. m \in 0..11 /\ DaysBefore(m) <= t /\ t < DaysBefore(m + 1)
  BY <1>8, <1>9, MonthOfDay, SMT
<1>11. PICK c : c = Civil(n)
  BY Zenon
<1>12. c = DayMonth(t, m, y + 400 * era)
  <2>1. (s % 146097) = d
    BY <1>2, <1>3, SMT
  <2> QED
    BY <1>1, <1>2, <1>5, <1>7, <1>9, <1>11, <2>1 DEF Civil, DayOfEra, DayOfYear
<1>13. PICK f \in Int : f = y + 400 * era
  BY <1>6
<1>14. /\ c.year = IF m < 10 THEN f ELSE f + 1
       /\ c.month = IF m < 10 THEN m + 3 ELSE m - 9
       /\ c.day = t - DaysBefore(m) + 1
  BY <1>12, <1>13 DEF DayMonth, DaysBefore
<1>15. MonthIndex(n) = 12 * f + m + 2
  BY <1>10, <1>11, <1>14 DEF MonthIndex
<1>16. MonthDay(MonthIndex(n)) = YearBase(f) + DaysBefore(m)
  BY <1>10, <1>15, FirstOfMonth
<1>17. YearBase(f) = 146097 * era + FirstOfYear(y) - 719468
  BY <1>6, <1>13, SMT DEF YearBase, FirstOfYear
<1>18. n = YearBase(f) + t
  BY <1>1, <1>3, <1>6, <1>7, <1>17, SMT DEF FirstOfYear
<1>19. n < MonthDay(MonthIndex(n) + 1)
  <2>1. CASE m < 11
    <3>1. m + 1 \in 0..11 /\ 12 * f + (m + 1) + 2 = MonthIndex(n) + 1
      BY <1>10, <1>15, <2>1
    <3>2. MonthDay(MonthIndex(n) + 1) = YearBase(f) + DaysBefore(m + 1)
      BY <3>1, FirstOfMonth
    <3> QED
      BY <1>10, <1>18, <3>2, SMT DEF DaysBefore, YearBase
  <2>2. CASE m = 11
    <3>1. 0 \in 0..11 /\ f + 1 \in Int /\ 12 * (f + 1) + 0 + 2 = MonthIndex(n) + 1
      BY <1>15, <2>2
    <3>2. MonthDay(MonthIndex(n) + 1) = YearBase(f + 1) + DaysBefore(0)
      BY <3>1, FirstOfMonth
    <3>3. t < YearBase(f + 1) - YearBase(f)
      <4>1. CASE d < FirstOfYear(y + 1)
        BY <1>6, <1>7, <1>13, <4>1, SMT DEF YearBase, FirstOfYear
      <4>2. CASE y = 399 /\ d = FirstOfYear(400)
        BY <1>7, <1>13, <4>2, SMT DEF YearBase, FirstOfYear
      <4> QED
        BY <1>6, <4>1, <4>2, SMT
    <3>4. DaysBefore(0) = 0
      BY SMT DEF DaysBefore
    <3>5. YearBase(f) \in Int /\ YearBase(f + 1) \in Int
      BY SMT DEF YearBase
    <3> QED
      BY <1>18, <3>2, <3>3, <3>4, <3>5, SMT
  <2> QED
    BY <1>10, <2>1, <2>2
<1>20. DaysBefore(m) \in Int /\ YearBase(f) \in Int
  BY <1>10, SMT DEF DaysBefore, YearBase
<1>21. n = MonthDay(MonthIndex(n)) + c.day - 1 /\ c.day >= 1 /\ c.day \in Int
  BY <1>10, <1>14, <1>16, <1>18, <1>20, SMT
<1>22. MonthIndex(n) \in Int
  BY <1>10, <1>15
<1>23. c.day <= 31
  <2>1. MonthDay(MonthIndex(n) + 1) - MonthDay(MonthIndex(n)) <= 31 /\ MonthDay(MonthIndex(n)) \in Int
        /\ MonthDay(MonthIndex(n) + 1) \in Int
    BY <1>22, MonthLength
  <2> QED
    BY <1>19, <1>21, <2>1
<1>24. c.year \in Int /\ c.month \in 1..12
  BY <1>10, <1>13, <1>14
<1> QED
  BY <1>11, <1>16, <1>19, <1>20, <1>21, <1>22, <1>23, <1>24

\* Only one month holds a day.
LEMMA OneMonth ==
    ASSUME NEW n \in Int, NEW k \in Int
    PROVE  /\ MonthDay(k) <= n <=> k <= MonthIndex(n)
           /\ n < MonthDay(k) <=> MonthIndex(n) < k
           /\ MonthDay(k) \in Int
<1>1. PICK i \in Int : i = MonthIndex(n) /\ MonthDay(i) <= n /\ n < MonthDay(i + 1)
  <2>1. PICK i \in Int : i = MonthIndex(n)
    BY CivilMonth, Zenon
  <2>2. /\ MonthDay(i) \in Int /\ Civil(n).day \in 1..31
        /\ n = MonthDay(i) + Civil(n).day - 1 /\ n < MonthDay(i + 1)
    BY <2>1, CivilMonth, Zenon
  <2> QED
    BY <2>1, <2>2
<1>2. \A j \in Int : MonthDay(j) \in Int
  BY MonthLength
<1>3. CASE k <= i
  <2>1. PICK d \in Nat : d = i - k
    BY <1>3
  <2>2. k + d = i
    BY <2>1
  <2>3. MonthDay(k + d) >= MonthDay(k) + 28 * d
    BY MonthsGrow, Zenon
  <2> QED
    BY <1>1, <1>2, <1>3, <2>2, <2>3
<1>4. CASE i < k
  <2>1. PICK d \in Nat : d = k - (i + 1)
    BY <1>4
  <2>2. PICK j \in Int : j = i + 1 /\ j + d = k
    BY <2>1
  <2>3. MonthDay(j + d) >= MonthDay(j) + 28 * d
    BY MonthsGrow, Zenon
  <2> QED
    BY <1>1, <1>2, <1>4, <2>2, <2>3
<1> QED
  BY <1>1, <1>3, <1>4

\* The first month of a fiscal year, counted in months.
FirstMonth(y, m) == 12 * (IF m > 1 THEN y - 1 ELSE y) + m - 1

\* A fiscal year is twelve months.
LEMMA YearMonths ==
    ASSUME NEW y \in Int, NEW m \in 1..12
    PROVE  /\ FirstMonth(y, m) \in Int
           /\ FYStart(y, m) = MonthDay(FirstMonth(y, m))
           /\ FYStart(y + 1, m) = MonthDay(FirstMonth(y, m) + 12)
           /\ FYEnd(y, m) = MonthDay(FirstMonth(y, m) + 12) - 1
<1>1. NormMonth(m) = m
  BY DEF NormMonth
<1>2. \A z \in Int : /\ FirstMonth(z, m) \in Int
                     /\ FYStart(z, m) = MonthDay(FirstMonth(z, m))
  <2>1. TAKE z \in Int
  <2>2. PICK x \in Int : x = IF m > 1 THEN z - 1 ELSE z
    OBVIOUS
  <2>3. FYStart(z, m) = Date(x, m, 1) /\ FirstMonth(z, m) = 12 * x + m - 1
    BY <1>1, <2>2 DEF FYStart, FirstMonth
  <2>4. m \in Int /\ 1 \in Int
    OBVIOUS
  <2>5. MonthDay(12 * x + m - 1) \in Int /\ Date(x, m, 1) = MonthDay(12 * x + m - 1) + 1 - 1
    BY <2>4, DateOfMonth, Zenon
  <2> QED
    BY <2>3, <2>5
<1>3. FirstMonth(y + 1, m) = FirstMonth(y, m) + 12 /\ y + 1 \in Int
  BY DEF FirstMonth
<1> QED
  BY <1>2, <1>3 DEF FYEnd

\* The days FiscalYear lists are those that FiscalYearOf counts to the year.
LEMMA SameYear ==
    ASSUME NEW n \in Int, NEW y \in Int, NEW m \in 1..12
    PROVE  FiscalYearOf(n, m) = y <=> n \in FYDays(y, m)
<1>1. PICK k \in Int : k = FirstMonth(y, m) /\ FYStart(y, m) = MonthDay(k) /\ FYEnd(y, m) = MonthDay(k + 12) - 1
  BY YearMonths
<1>2. PICK i \in Int : i = MonthIndex(n)
  BY CivilMonth
<1>3. n \in FYDays(y, m) <=> k <= i /\ i < k + 12
  <2>1. MonthDay(k) <= n <=> k <= i
    BY <1>2, OneMonth
  <2>2. (n < MonthDay(k + 12) <=> i < k + 12) /\ MonthDay(k + 12) \in Int /\ MonthDay(k) \in Int
    <3>1. k + 12 \in Int
      OBVIOUS
    <3> QED
      BY <1>2, <3>1, OneMonth
  <2> QED
    BY <1>1, <2>1, <2>2 DEF FYDays
<1>4. PICK z \in Int, c \in 1..12 : z = Civil(n).year /\ c = Civil(n).month /\ i = 12 * z + c - 1
  BY <1>2, CivilMonth DEF MonthIndex
<1>5. FiscalYearOf(n, m) = IF m # 1 /\ c >= m THEN z + 1 ELSE z
  BY <1>4 DEF FiscalYearOf, NormMonth
<1>6. k = 12 * (IF m > 1 THEN y - 1 ELSE y) + m - 1
  BY <1>1 DEF FirstMonth
<1>7. CASE m = 1
  <2>1. FiscalYearOf(n, m) = z /\ k = 12 * y
    BY <1>5, <1>6, <1>7
  <2> QED
    BY <1>3, <1>4, <2>1
<1>8. CASE m > 1
  <2>1. k = 12 * y + m - 13
    BY <1>6, <1>8
  <2>2. CASE c >= m
    <3>1. FiscalYearOf(n, m) = z + 1
      BY <1>5, <1>8, <2>2
    <3> QED
      BY <1>3, <1>4, <1>8, <2>1, <2>2, <3>1
  <2>3. CASE c < m
    <3>1. FiscalYearOf(n, m) = z
      BY <1>5, <1>8, <2>3
    <3> QED
      BY <1>3, <1>4, <1>8, <2>1, <2>3, <3>1
  <2> QED
    BY <1>4, <2>2, <2>3
<1> QED
  BY <1>7, <1>8

\* One of the twelve months of a fiscal year.
LEMMA MonthOfYear ==
    ASSUME NEW n \in Int, NEW m \in 1..12
    PROVE  FYMonthOf(n, m) \in 0..11
<1>1. PICK c \in 1..12 : c = Civil(n).month
  BY CivilMonth
<1> QED
  BY <1>1 DEF FYMonthOf, NormMonth

\* A day of another month; it may overflow into the month after that.
LEMMA AddedMonths ==
    ASSUME NEW n \in Int, NEW k \in Int
    PROVE  /\ MonthIndex(n) + k \in Int /\ MonthDay(MonthIndex(n) + k) \in Int
           /\ AddMonths(n, k) = MonthDay(MonthIndex(n) + k) + Civil(n).day - 1
           /\ AddMonths(n, k) \in Int
<1>1. PICK z \in Int, c \in Int, d \in Int : /\ z = Civil(n).year /\ c = Civil(n).month /\ d = Civil(n).day
                                            /\ MonthIndex(n) = 12 * z + c - 1
  <2>1. Civil(n).year \in Int /\ Civil(n).month \in 1..12 /\ Civil(n).day \in 1..31
    BY CivilMonth, Zenon
  <2>2. MonthIndex(n) = 12 * Civil(n).year + Civil(n).month - 1
    BY DEF MonthIndex
  <2>3. PICK z, c, d : z = Civil(n).year /\ c = Civil(n).month /\ d = Civil(n).day
    BY Zenon
  <2>4. z \in Int /\ c \in 1..12 /\ d \in 1..31 /\ MonthIndex(n) = 12 * z + c - 1
    BY <2>1, <2>2, <2>3, Zenon
  <2>5. c \in Int /\ d \in Int
    BY <2>4
  <2> QED
    BY <2>3, <2>4, <2>5, Zenon
<1>2. AddMonths(n, k) = Date(z, c + k, d)
  BY <1>1 DEF AddMonths, AddMonthsTo
<1>3. PICK e \in Int : e = c + k
  OBVIOUS
<1>4. MonthDay(12 * z + e - 1) \in Int /\ Date(z, e, d) = MonthDay(12 * z + e - 1) + d - 1
  BY DateOfMonth
<1>5. 12 * z + e - 1 = MonthIndex(n) + k
  BY <1>1, <1>3
<1> QED
  BY <1>1, <1>2, <1>3, <1>4, <1>5

\* A month ago is at least 28 and at most 31 days ago, and so ahead.
LEMMA MonthAway ==
    ASSUME NEW n \in Int
    PROVE  /\ AddMonths(n, -1) \in Int /\ AddMonths(n, 1) \in Int
           /\ n - AddMonths(n, -1) \in 28..31
           /\ AddMonths(n, 1) - n \in 28..31
<1>1. PICK i \in Int, d \in Int : i = MonthIndex(n) /\ d = Civil(n).day /\ n = MonthDay(i) + d - 1
  <2>1. MonthIndex(n) \in Int /\ Civil(n).day \in 1..31 /\ n = MonthDay(MonthIndex(n)) + Civil(n).day - 1
    BY CivilMonth, Zenon
  <2> QED
    BY <2>1
<1>2. /\ MonthDay(i) \in Int /\ MonthDay(i + 1) \in Int /\ MonthDay(i + (-1)) \in Int
      /\ MonthDay(i + 1) - MonthDay(i) \in 28..31
      /\ MonthDay(i) - MonthDay(i + (-1)) \in 28..31
  <2>1. i + (-1) \in Int /\ (i + (-1)) + 1 = i
    OBVIOUS
  <2> QED
    BY <2>1, MonthLength
<1>3. AddMonths(n, -1) = MonthDay(i + (-1)) + d - 1 /\ AddMonths(n, 1) = MonthDay(i + 1) + d - 1
  <2>1. -1 \in Int /\ 1 \in Int
    OBVIOUS
  <2> QED
    BY <1>1, <2>1, AddedMonths
<1> QED
  BY <1>1, <1>2, <1>3

-----------------------------------------------------------------------------
(***************************************************************************)
(* Stale accuracies.                                                       *)
(***************************************************************************)

\* The last day of a week inside the fiscal year.
LastDay(y, w) == AtMost(FYWeekMonday(y, startMonth, w) + 6, FYEnd(y, startMonth))

WeeksOver(y, asOf) == {w \in 1..FYWeeks(y, startMonth) : LastDay(y, w) < asOf}

\* Week ends are Sundays, and the end of the year.
LEMMA WeekEnds ==
    ASSUME NEW y \in Int
    PROVE  /\ \A w \in 1..FYWeeks(y, startMonth) :
                 /\ LastDay(y, w) \in Period(y)
                 /\ Sunday(LastDay(y, w)) \/ LastDay(y, w) = FYEnd(y, startMonth)
           /\ \A n \in Period(y) : Sunday(n) \/ n = FYEnd(y, startMonth) =>
                 \E w \in 1..FYWeeks(y, startMonth) : LastDay(y, w) = n
<1>1. PICK s, e \in Int : s = FYStart(y, startMonth) /\ e = FYEnd(y, startMonth) /\ e - s \in 364..365
  <2>1. FYEnd(y, startMonth) = FYStart(y + 1, startMonth) - 1
    BY DEF FYEnd
  <2> QED
    BY <2>1, YearLength
<1>2. PICK monday \in Int : /\ monday = MondayOf(s) /\ monday <= s /\ s <= monday + 6
                           /\ (monday + 3) % 7 = 0
  BY <1>1, WeekOf
<1>3. FYWeeks(y, startMonth) = (e - monday + 1 + 6) \div 7
  BY <1>1, <1>2 DEF FYWeeks
<1>4. Period(y) = s..e
  BY <1>1 DEF Period, FYDays
<1>5. \A w \in Int : LastDay(y, w) = IF monday + (w - 1) * 7 + 6 > e THEN e ELSE monday + (w - 1) * 7 + 6
  BY <1>1, <1>2 DEF LastDay, FYWeekMonday, AtMost
<1>6. ASSUME NEW w \in 1..FYWeeks(y, startMonth)
      PROVE  /\ LastDay(y, w) \in Period(y)
             /\ Sunday(LastDay(y, w)) \/ LastDay(y, w) = FYEnd(y, startMonth)
  <2>1. PICK d \in Int : d = monday + (w - 1) * 7 + 6
    BY <1>3
  <2>2. d >= s /\ (d + 3) % 7 = 6
    BY <1>2, <1>3, <2>1
  <2>3. LastDay(y, w) = IF d > e THEN e ELSE d
    BY <1>3, <1>5, <2>1
  <2> QED
    BY <1>1, <1>4, <2>2, <2>3 DEF Sunday, Weekday
<1>7. ASSUME NEW n \in Period(y), Sunday(n) \/ n = FYEnd(y, startMonth)
      PROVE  \E w \in 1..FYWeeks(y, startMonth) : LastDay(y, w) = n
  <2>1. PICK w \in Int : w = (n - monday) \div 7 + 1
    BY <1>4
  <2>2. n \in s..e /\ ((n + 3) % 7 = 6 \/ n = e)
    BY <1>1, <1>4, <1>7 DEF Sunday, Weekday
  <2>3. w \in 1..FYWeeks(y, startMonth)
    BY <1>2, <1>3, <2>1, <2>2
  <2>4. LastDay(y, w) = n
    <3>1. PICK d \in Int : d = monday + (w - 1) * 7 + 6
      OBVIOUS
    <3>2. d >= n /\ ((n + 3) % 7 = 6 => d = n)
      BY <1>2, <2>1, <2>2, <3>1
    <3>3. LastDay(y, w) = IF d > e THEN e ELSE d
      BY <1>5, <3>1
    <3> QED
      BY <2>2, <3>2, <3>3
  <2> QED
    BY <2>3, <2>4
<1> QED
  BY <1>6, <1>7

\* An accuracy is called stale exactly when a week has ended since its date.
THEOREM StaleCorrect == Spec => []StaleMeansAWeekEnded
<1>1. ASSUME TypeOK, NEW y \in Years, AccuracySummary(y).known
      PROVE  AccuracySummary(y).stale
                 <=> \E n \in accuracy[y].asOf..(today - 1) :
                         n \in Period(y) /\ (Sunday(n) \/ n = FYEnd(y, startMonth))
  <2>1. PICK a \in Nat : a = accuracy[y].asOf /\ a <= today /\ today \in Nat /\ y \in Int
    BY <1>1, FiguresAssumption DEF TypeOK, AccuracySummary, ValidAccuracy
  <2>2. PICK W : W = 1..FYWeeks(y, startMonth) /\ IsFiniteSet(W)
    <3>1. FYWeeks(y, startMonth) \in Int
      BY <2>1, YearWeeks
    <3>2. IsFiniteSet(1..FYWeeks(y, startMonth))
      BY <3>1, FS_Interval
    <3> QED
      BY <3>2, Zenon
  <2>3. \A w \in W : LastDay(y, w) \in Int
    BY <2>1, <2>2, WeekEnds, YearLength DEF Period, FYDays, FYEnd
  <2>4. WeeksOver(y, a) \subseteq WeeksOver(y, today) /\ WeeksOver(y, today) \subseteq W
    BY <2>1, <2>2, <2>3 DEF WeeksOver
  <2>5. IsFiniteSet(WeeksOver(y, a)) /\ IsFiniteSet(WeeksOver(y, today))
    BY <2>2, <2>4, FS_Subset
  <2>6. Cardinality(WeeksOver(y, today)) > Cardinality(WeeksOver(y, a))
            <=> WeeksOver(y, today) # WeeksOver(y, a)
    BY <2>4, <2>5, FS_Subset, FS_CardinalityType
  <2>7. AccuracySummary(y).stale <=> WeeksOver(y, today) # WeeksOver(y, a)
    <3>1. /\ CompletedWeeks(y, startMonth, a) = Cardinality(WeeksOver(y, a))
          /\ CompletedWeeks(y, startMonth, today) = Cardinality(WeeksOver(y, today))
      BY DEF CompletedWeeks, WeeksOver, LastDay
    <3> QED
      BY <1>1, <2>1, <2>6, <3>1 DEF AccuracySummary
  <2>8. WeeksOver(y, today) # WeeksOver(y, a) <=> \E w \in W : LastDay(y, w) \in a..(today - 1)
    BY <2>1, <2>2, <2>3, <2>4 DEF WeeksOver
  <2>9. (\E w \in W : LastDay(y, w) \in a..(today - 1))
            <=> \E n \in a..(today - 1) :
                    n \in Period(y) /\ (Sunday(n) \/ n = FYEnd(y, startMonth))
    BY <2>1, <2>2, WeekEnds
  <2> QED
    BY <2>1, <2>7, <2>8, <2>9
<1>2. TypeOK => StaleMeansAWeekEnded
  BY <1>1 DEF StaleMeansAWeekEnded
<1> QED
  BY <1>2, TypeCorrect, PTL

-----------------------------------------------------------------------------
(***************************************************************************)
(* Budgets that cross the border of a fiscal year.                         *)
(***************************************************************************)

\* Hours are pooled year by year.
LEMMA PoolsAdd ==
    ASSUME HoursTyped, NEW g, NEW y \in Nat
    PROVE  /\ PooledHours(g, {y}) \in Nat
           /\ PooledHours(g, 0..(y - 1)) \in Nat
           /\ PooledHours(g, 0..y) = PooledHours(g, 0..(y - 1)) + PooledHours(g, {y})
<1> DEFINE Pool(years) == {e \in Known : GroupKey(e[2]) = g /\ FiscalYearOf(e[1], startMonth) \in years}
<1>1. \A years : PooledHours(g, years) = SumFunctionOnSet(hours, Pool(years))
  BY DEF PooledHours, SumHours
<1>2. \A years : IsFiniteSet(Pool(years)) /\ \A e \in Pool(years) : hours[e] \in Nat
  <2>1. \A years : Pool(years) \subseteq DOMAIN hours
    BY DEF Known
  <2>2. \A e \in DOMAIN hours : hours[e] \in Nat
    BY DEF HoursTyped
  <2> QED
    BY <2>1, <2>2, FS_Subset DEF HoursTyped
<1>3. Pool(0..y) = Pool(0..(y - 1)) \cup Pool({y}) /\ Pool(0..(y - 1)) \cap Pool({y}) = {}
  <2>1. 0..y = (0..(y - 1)) \cup {y} /\ y \notin 0..(y - 1)
    OBVIOUS
  <2> QED
    BY <2>1
<1>4. PICK before, now, both : before = Pool(0..(y - 1)) /\ now = Pool({y}) /\ both = Pool(0..y)
  BY Zenon
<1> HIDE DEF Pool
<1>5. SumFunctionOnSet(hours, both) = SumFunctionOnSet(hours, before) + SumFunctionOnSet(hours, now)
  <2>1. IsFiniteSet(before) /\ IsFiniteSet(now) /\ before \cap now = {} /\ both = before \cup now
    BY <1>2, <1>3, <1>4
  <2>2. \A e \in before \cup now : hours[e] \in Int
    BY <1>2, <1>4
  <2> QED
    BY <2>1, <2>2, SumUnion
<1>6. SumFunctionOnSet(hours, before) \in Nat /\ SumFunctionOnSet(hours, now) \in Nat
  BY <1>2, <1>4, SumIsNat
<1> QED
  BY <1>1, <1>4, <1>5, <1>6

\* An assignment that runs on starts the new year with exactly what the old one
\* left over, whatever was booked, released or edited.
THEOREM CarryCorrect == Spec => []CarriedBudgetIsLeftover
<1>1. ASSUME TypeOK, NEW p \in DOMAIN projects, NEW q \in DOMAIN projects,
             projects[p].assignment # NoAssignment,
             projects[p].assignment = projects[q].assignment,
             projects[q].fiscalYear = projects[p].fiscalYear + 1,
             projects[p].budget = projects[q].budget,
             NEW old, old = ProjectSummary(p, projects[p].fiscalYear),
             NEW new, new = ProjectSummary(q, projects[q].fiscalYear)
      PROVE  new.available + new.released = AtLeast(0, old.remaining + old.released)
  <2>1. PICK y : y = projects[p].fiscalYear
    BY Zenon
  <2>2. PICK b : b = projects[p].budget
    BY Zenon
  <2>3. y \in Nat /\ b \in Nat
    BY <1>1, <2>1, <2>2, FiguresAssumption DEF TypeOK, IsProject
  <2>4. PICK g : g = GroupKey(p)
    BY Zenon
  <2>5. GroupKey(q) = g
    BY <1>1, <2>4 DEF GroupKey
  <2>6. PICK A, C : A = PooledHours(g, 0..(y - 1)) /\ C = PooledHours(g, {y})
    BY Zenon
  <2>7. A \in Nat /\ C \in Nat /\ PooledHours(g, 0..y) = A + C
    BY <1>1, <2>3, <2>6, TypeParts, PoolsAdd
  <2>8. old.remaining + old.released = b - AtMost(A, b) - C
    <3>1. PICK r : r = old.released
      BY Zenon
    <3>2. old.remaining = b - AtMost(A, b) - r - C
      BY <1>1, <2>1, <2>2, <2>4, <2>6, <3>1, Zenon DEF ProjectSummary
    <3>3. r \in Int
      BY <1>1, <2>1, <2>2, <2>3, <2>4, <2>6, <2>7, <3>1 DEF ProjectSummary, AtMost
    <3>4. AtMost(A, b) \in Int
      BY <2>3, <2>7 DEF AtMost
    <3> QED
      BY <2>3, <2>7, <3>1, <3>2, <3>3, <3>4
  <2>9. new.available + new.released = b - AtMost(A + C, b)
    <3>1. PICK r : r = new.released
      BY Zenon
    <3>2. PICK z : z = projects[q].fiscalYear
      BY Zenon
    <3>3. z \in Nat /\ 0..(z - 1) = 0..y
      BY <1>1, <2>1, <2>3, <3>2
    <3>4. PICK D : D = PooledHours(g, {z})
      BY Zenon
    <3>5. D \in Nat /\ PooledHours(g, 0..(z - 1)) = A + C
      BY <1>1, <2>7, <3>3, <3>4, TypeParts, PoolsAdd
    <3>6. new.available = b - AtMost(PooledHours(g, 0..(z - 1)), b) - r
      BY <1>1, <2>2, <2>5, <3>1, <3>2, Zenon DEF ProjectSummary
    <3>7. r \in Int
      BY <1>1, <2>2, <2>3, <2>5, <2>7, <3>1, <3>2, <3>4, <3>5 DEF ProjectSummary, AtMost
    <3>8. AtMost(A + C, b) \in Int
      BY <2>3, <2>7 DEF AtMost
    <3> QED
      BY <2>3, <2>7, <3>1, <3>5, <3>6, <3>7, <3>8
  <2> QED
    BY <2>3, <2>7, <2>8, <2>9 DEF AtMost, AtLeast
<1>2. TypeOK => CarriedBudgetIsLeftover
  BY <1>1, Zenon DEF CarriedBudgetIsLeftover
<1> QED
  BY <1>2, TypeCorrect, PTL

-----------------------------------------------------------------------------
(***************************************************************************)
(* The horizon of the dashboard.                                           *)
(***************************************************************************)

\* Go's division loses less than the divisor.
LEMMA Division ==
    ASSUME NEW n \in Nat, NEW w \in Nat \ {0}
    PROVE  /\ n \div w \in Nat /\ n \div w <= n
           /\ (n \div w) * w <= n /\ n < (n \div w) * w + w
<1>1. PICK q : q = n \div w
  BY Zenon
<1>2. PICK r : r = n % w
  BY Zenon
<1>3. q \in Int /\ r \in 0..(w - 1) /\ n = w * q + r
  BY <1>1, <1>2
<1>4. q * w = w * q
  BY <1>3
<1>5. q >= 0
  BY <1>3
<1>6. q <= n
  BY <1>3, <1>5
<1> QED
  BY <1>1, <1>3, <1>4, <1>5, <1>6

\* The offset that is shown lies at most one span beside the way gone, and has
\* its direction.
LEMMA OffsetShown ==
    ASSUME NEW delta \in Int, NEW w \in Nat \ {0}, NEW a, a = AppliedOffset(delta, w)
    PROVE  /\ a \in Int
           /\ delta < a * w + w /\ a * w - w < delta
           /\ (a >= 0 <=> delta >= 0) /\ (a <= 0 <=> delta <= 0)
           /\ delta >= 0 => a <= delta /\ (a * w <= delta \/ delta < w)
           /\ delta <= 0 => delta <= a /\ (delta <= a * w \/ -w < delta)
<1>1. CASE delta >= 0
  <2>1. PICK q : q = delta \div w
    BY Zenon
  <2>2. q \in Nat /\ q <= delta /\ q * w <= delta /\ delta < q * w + w /\ Quotient(delta, w) = q
    BY <1>1, <2>1, Division DEF Quotient
  <2>3. a = IF q # 0 \/ delta = 0 THEN q ELSE 1
    BY <1>1, <2>2 DEF AppliedOffset
  <2>4. CASE q # 0 \/ delta = 0
    <3>1. a = q
      BY <2>3, <2>4
    <3>2. delta > 0 => q >= 1
      BY <2>2, <2>4
    <3> QED
      BY <1>1, <2>2, <3>1, <3>2
  <2>5. CASE q = 0 /\ delta # 0
    <3>1. a = 1 /\ a * w = w
      BY <2>3, <2>5
    <3>2. delta < w
      BY <2>2, <2>5
    <3> QED
      BY <1>1, <2>5, <3>1, <3>2
  <2> QED
    BY <2>2, <2>4, <2>5
<1>2. CASE delta < 0
  <2>1. PICK m \in Nat : m = -delta /\ m > 0
    BY <1>2
  <2>2. PICK q : q = m \div w
    BY Zenon
  <2>3. q \in Nat /\ q <= m /\ q * w <= m /\ m < q * w + w /\ Quotient(delta, w) = -q
    BY <1>2, <2>1, <2>2, Division DEF Quotient
  <2>4. a = IF q # 0 THEN -q ELSE -1
    BY <1>2, <2>3 DEF AppliedOffset
  <2>5. CASE q # 0
    <3>1. a = -q /\ a * w = -(q * w) /\ q >= 1
      BY <2>3, <2>4, <2>5
    <3> QED
      BY <2>1, <2>3, <3>1
  <2>6. CASE q = 0
    <3>1. a = -1 /\ a * w = -w
      BY <2>4, <2>6
    <3>2. m < w
      BY <2>3, <2>6
    <3> QED
      BY <2>1, <3>1, <3>2
  <2> QED
    BY <2>3, <2>5, <2>6
<1> QED
  BY <1>1, <1>2

\* A number forced between two bounds.
Between(x, first, latest) == AtMost(AtLeast(x, first), latest)

\* What forcing does below, between and above the bounds.
LEMMA Clamped ==
    ASSUME NEW x \in Int, NEW first \in Int, NEW latest \in Int, first <= latest
    PROVE  /\ Between(x, first, latest) \in Int
           /\ first <= Between(x, first, latest) /\ Between(x, first, latest) <= latest
           /\ first <= x /\ x <= latest => Between(x, first, latest) = x
           /\ x < first => Between(x, first, latest) = first
           /\ x > latest => Between(x, first, latest) = latest
BY DEF Between, AtMost, AtLeast

\* One whole span is the least that a link goes.
LEMMA WholeSpan ==
    ASSUME NEW k \in Int, NEW w \in Nat \ {0}, NEW s, s = k * w
    PROVE  /\ s \in Int
           /\ k >= 1 => s >= w
           /\ k <= -1 => s <= -w
           /\ k = 0 => s = 0
<1>1. (k - 1) * w = s - w /\ (k + 1) * w = s + w
  OBVIOUS
<1>2. k >= 1 => (k - 1) * w >= 0
  OBVIOUS
<1>3. k <= -1 => (k + 1) * w <= 0
  OBVIOUS
<1> QED
  BY <1>1, <1>2, <1>3

\* A view of w of the weeks up to last, and the views its two links lead to.
Linked(last, w, view, next, prev) ==
    /\ view.week \in Int /\ view.offset \in Int
    /\ 1 <= view.week /\ view.week + w - 1 <= last
    /\ view.week + w - 1 < last <=> next.week > view.week
    /\ view.week > 1 <=> prev.week < view.week
    /\ view.offset >= 0 => next.week <= view.week + w
    /\ view.offset <= 0 => prev.week + w >= view.week

\* Whatever span and offset a request asks for, the links lead where they say.
LEMMA LinksWork ==
    ASSUME NEW last \in 1..54, NEW w \in 1..last, NEW base \in Int, NEW offset \in Int,
           NEW view, view = ShiftSankeySpan(base, w, last, offset),
           NEW next, next = ShiftSankeySpan(base, w, last, view.offset + 1),
           NEW prev, prev = ShiftSankeySpan(base, w, last, view.offset - 1)
    PROVE  Linked(last, w, view, next, prev)
<1>1. PICK latest \in Int : latest = last - w + 1 /\ latest >= 1 /\ AtLeast(1, last - w + 1) = latest
  BY DEF AtLeast
<1>2. PICK o : o = Between(base, 1, latest)
  BY Zenon
<1>3. o \in Int /\ 1 <= o /\ o <= latest
  BY <1>1, <1>2, Clamped
<1>4. PICK k : k = Between(offset, -SankeyMaxOffset, SankeyMaxOffset)
  BY Zenon
<1>5. k \in Int
  BY <1>4, Clamped DEF SankeyMaxOffset
<1>6. PICK s : s = k * w
  BY Zenon
<1>7. w \in Nat \ {0} /\ s \in Int /\ o + s \in Int
  BY <1>3, <1>5, <1>6
<1>8. PICK v : v = Between(o + s, 1, latest)
  BY Zenon
<1>9. /\ v \in Int /\ 1 <= v /\ v <= latest
      /\ 1 <= o + s /\ o + s <= latest => v = o + s
      /\ o + s < 1 => v = 1
      /\ o + s > latest => v = latest
  <2>1. 1 \in Int /\ 1 <= latest
    BY <1>1
  <2> QED
    BY <1>1, <1>7, <1>8, <2>1, Clamped, Zenon
\* The span moves only by whole spans, or to the border of the year.
<1>10. /\ v > o => s >= w
       /\ v < o => s <= -w
  <2>1. (k >= 1 /\ s >= w) \/ (k = 0 /\ s = 0) \/ (k <= -1 /\ s <= -w)
    <3>1. (k >= 1 => s >= w) /\ (k <= -1 => s <= -w) /\ (k = 0 => s = 0)
      BY <1>5, <1>6, <1>7, WholeSpan
    <3> QED
      BY <1>5, <3>1
  <2> QED
    BY <1>1, <1>3, <1>5, <1>7, <1>9, <2>1
<1>11. PICK a : a = AppliedOffset(v - o, w)
  BY Zenon
<1>12. view.week = v /\ view.offset = a
  <2>1. /\ AtMost(AtLeast(base, 1), latest) = o
        /\ AtMost(AtLeast(offset, -SankeyMaxOffset), SankeyMaxOffset) = k
        /\ AtMost(AtLeast(o + k * w, 1), latest) = v
    BY <1>2, <1>4, <1>6, <1>8, Zenon DEF Between
  <2> QED
    BY <1>1, <1>11, <2>1 DEF ShiftSankeySpan
<1>13. PICK x : x = a * w
  BY Zenon
<1>14. PICK delta \in Int : delta = v - o
  BY <1>3, <1>9
<1>15. /\ a \in Int
       /\ delta < x + w /\ x - w < delta
       /\ (a >= 0 <=> delta >= 0) /\ (a <= 0 <=> delta <= 0)
       /\ delta >= 0 => a <= delta /\ (x <= delta \/ delta < w)
       /\ delta <= 0 => delta <= a /\ (delta <= x \/ -w < delta)
  BY <1>7, <1>11, <1>13, <1>14, OffsetShown
<1>16. /\ x \in Int /\ (a + 1) * w = x + w /\ (a - 1) * w = x - w
       /\ a = 0 => x = 0
  BY <1>7, <1>13, <1>15
<1>17. -SankeyMaxOffset <= a - 1 /\ a + 1 <= SankeyMaxOffset
  BY <1>1, <1>3, <1>9, <1>14, <1>15 DEF SankeyMaxOffset
<1>18. next.week = Between(o + x + w, 1, latest)
  <2>1. Between(a + 1, -SankeyMaxOffset, SankeyMaxOffset) = a + 1
    BY <1>15, <1>17, Clamped DEF SankeyMaxOffset
  <2>2. next.week = Between(o + (a + 1) * w, 1, latest)
    BY <1>1, <1>2, <1>12, <2>1 DEF ShiftSankeySpan, Between
  <2>3. o + (a + 1) * w = o + x + w
    BY <1>3, <1>7, <1>16
  <2> QED
    BY <2>2, <2>3
<1>19. prev.week = Between(o + x - w, 1, latest)
  <2>1. Between(a - 1, -SankeyMaxOffset, SankeyMaxOffset) = a - 1
    BY <1>15, <1>17, Clamped DEF SankeyMaxOffset
  <2>2. prev.week = Between(o + (a - 1) * w, 1, latest)
    BY <1>1, <1>2, <1>12, <2>1 DEF ShiftSankeySpan, Between
  <2>3. o + (a - 1) * w = o + x - w
    BY <1>3, <1>7, <1>16
  <2> QED
    BY <2>2, <2>3
<1>20. /\ next.week \in Int /\ 1 <= next.week /\ next.week <= latest
       /\ 1 <= o + x + w /\ o + x + w <= latest => next.week = o + x + w
       /\ o + x + w < 1 => next.week = 1
       /\ o + x + w > latest => next.week = latest
  <2>1. PICK e \in Int : e = o + x + w
    BY <1>3, <1>7, <1>16
  <2>2. PICK b : b = Between(e, 1, latest)
    BY Zenon
  <2>3. /\ b \in Int /\ 1 <= b /\ b <= latest
        /\ 1 <= e /\ e <= latest => b = e
        /\ e < 1 => b = 1
        /\ e > latest => b = latest
    <3>1. 1 \in Int /\ 1 <= latest
      BY <1>1
    <3> QED
      BY <2>2, <3>1, Clamped, Zenon
  <2>4. next.week = b
    BY <1>18, <2>1, <2>2
  <2> QED
    BY <2>1, <2>3, <2>4
<1>21. /\ prev.week \in Int /\ 1 <= prev.week /\ prev.week <= latest
       /\ 1 <= o + x - w /\ o + x - w <= latest => prev.week = o + x - w
       /\ o + x - w < 1 => prev.week = 1
       /\ o + x - w > latest => prev.week = latest
  <2>1. PICK e \in Int : e = o + x - w
    BY <1>3, <1>7, <1>16
  <2>2. PICK b : b = Between(e, 1, latest)
    BY Zenon
  <2>3. /\ b \in Int /\ 1 <= b /\ b <= latest
        /\ 1 <= e /\ e <= latest => b = e
        /\ e < 1 => b = 1
        /\ e > latest => b = latest
    <3>1. 1 \in Int /\ 1 <= latest
      BY <1>1
    <3> QED
      BY <2>2, <3>1, Clamped, Zenon
  <2>4. prev.week = b
    BY <1>19, <2>1, <2>2
  <2> QED
    BY <2>1, <2>3, <2>4
<1>22. v < latest <=> next.week > v
  BY <1>1, <1>3, <1>7, <1>9, <1>14, <1>15, <1>16, <1>20
<1>23. v > 1 <=> prev.week < v
  BY <1>1, <1>3, <1>7, <1>9, <1>14, <1>15, <1>16, <1>21
<1>24. ASSUME a >= 0 PROVE next.week <= v + w
  <2>1. delta >= 0 /\ (x <= delta \/ delta < w)
    BY <1>15, <1>24
  <2>2. CASE x <= delta
    BY <1>1, <1>3, <1>7, <1>9, <1>14, <1>16, <1>20, <2>2
  <2>3. CASE delta < w /\ delta > 0
    <3>1. v = latest
      BY <1>3, <1>7, <1>9, <1>10, <1>14, <2>3
    <3> QED
      BY <1>1, <1>7, <1>20, <3>1
  <2>4. CASE delta = 0
    <3>1. a = 0 /\ x = 0
      BY <1>15, <1>16, <2>4
    <3> QED
      BY <1>1, <1>3, <1>7, <1>9, <1>14, <1>20, <2>4, <3>1
  <2> QED
    BY <1>14, <2>1, <2>2, <2>3, <2>4
<1>25. ASSUME a <= 0 PROVE prev.week + w >= v
  <2>1. delta <= 0 /\ (delta <= x \/ -w < delta)
    BY <1>15, <1>25
  <2>2. CASE delta <= x
    BY <1>1, <1>3, <1>7, <1>9, <1>14, <1>16, <1>21, <2>2
  <2>3. CASE -w < delta /\ delta < 0
    <3>1. v = 1
      BY <1>3, <1>7, <1>9, <1>10, <1>14, <2>3
    <3> QED
      BY <1>1, <1>7, <1>21, <3>1
  <2>4. CASE delta = 0
    <3>1. a = 0 /\ x = 0
      BY <1>15, <1>16, <2>4
    <3> QED
      BY <1>1, <1>3, <1>7, <1>9, <1>14, <1>21, <2>4, <3>1
  <2> QED
    BY <1>14, <2>1, <2>2, <2>3, <2>4
<1>26. v + w - 1 < last <=> v < latest
  BY <1>1, <1>9
<1> QED
  BY <1>1, <1>9, <1>12, <1>15, <1>22, <1>23, <1>24, <1>25, <1>26 DEF Linked

\* The links of the dashboard lead where they say, in every fiscal year, on
\* every day and for every horizon a request names.
THEOREM LinksCorrect == Spec => []HorizonLinksWork
<1>1. ASSUME TypeOK, NEW y \in Years, NEW key \in Ranges, NEW offset \in Offsets,
             NEW current, current = CurrentFYWeek(y, startMonth, today),
             NEW last, last = FYWeeks(y, startMonth),
             NEW view, view = Sankey(current, last, key, offset),
             NEW next, next = Sankey(current, last, key, view.offset + 1),
             NEW prev, prev = Sankey(current, last, key, view.offset - 1)
      PROVE  /\ 1 <= view.week /\ view.week + view.weeks - 1 <= last
             /\ view.canNext <=> next.week > view.week
             /\ view.canPrev <=> prev.week < view.week
             /\ view.offset >= 0 => next.week <= view.week + view.weeks
             /\ view.offset <= 0 => prev.week + prev.weeks >= view.week
  <2>1. y \in Int /\ today \in Int /\ offset \in Int
    BY <1>1, FiguresAssumption DEF TypeOK
  <2>2. last \in 53..54
    BY <1>1, <2>1, YearWeeks
  <2>3. current \in Int
    <3>1. PICK e \in Int : e = MondayOf(today) - MondayOf(FYStart(y, startMonth))
      BY <2>1, YearLength, WeekOf
    <3>2. Quotient(e, 7) \in Int
      BY <3>1 DEF Quotient
    <3> QED
      BY <1>1, <2>2, <3>1, <3>2 DEF CurrentFYWeek, AtMost, AtLeast
  <2>4. PICK span : span = SankeySpan(current, last, key)
    BY Zenon
  <2>5. span.week \in Int /\ span.weeks \in Int
    BY <2>2, <2>3, <2>4 DEF SankeySpan, Ranges
  <2>6. PICK w \in 1..last : w = AtMost(AtLeast(span.weeks, 1), last)
    BY <2>2, <2>5 DEF AtMost, AtLeast
  <2>7. PICK sv : sv = ShiftSankeySpan(span.week, w, last, offset)
    BY Zenon
  <2>8. PICK sn : sn = ShiftSankeySpan(span.week, w, last, sv.offset + 1)
    BY Zenon
  <2>9. PICK sp : sp = ShiftSankeySpan(span.week, w, last, sv.offset - 1)
    BY Zenon
  <2>10. /\ view.week = sv.week /\ view.weeks = w /\ view.offset = sv.offset
         /\ view.canPrev <=> sv.week > 1
         /\ view.canNext <=> sv.week + w - 1 < last
    BY <1>1, <2>4, <2>6, <2>7 DEF Sankey
  <2>11. next.week = sn.week
    BY <1>1, <2>4, <2>6, <2>8, <2>10 DEF Sankey
  <2>12. prev.week = sp.week /\ prev.weeks = w
    BY <1>1, <2>4, <2>6, <2>9, <2>10 DEF Sankey
  <2>13. last \in 1..54
    BY <2>2
  <2>14. Linked(last, w, sv, sn, sp)
    <3>1. PICK base \in Int : base = span.week
      BY <2>5
    <3>2. /\ sv = ShiftSankeySpan(base, w, last, offset)
          /\ sn = ShiftSankeySpan(base, w, last, sv.offset + 1)
          /\ sp = ShiftSankeySpan(base, w, last, sv.offset - 1)
      BY <2>7, <2>8, <2>9, <3>1
    <3> QED
      BY <2>1, <2>6, <2>13, <3>1, <3>2, LinksWork, Zenon
  <2> QED
    BY <2>10, <2>11, <2>12, <2>14 DEF Linked
<1>2. TypeOK => HorizonLinksWork
  BY <1>1 DEF HorizonLinksWork
<1> QED
  BY <1>2, TypeCorrect, PTL

-----------------------------------------------------------------------------
(***************************************************************************)
(* The burn-down.                                                          *)
(***************************************************************************)

\* Entries, added up over a set: a number, if the set is one of entries.
LEMMA EntriesAdd ==
    ASSUME HoursTyped
    PROVE  /\ \A S \in SUBSET DOMAIN hours : IsFiniteSet(S) /\ SumHours(S) \in Nat
           /\ \A S, T \in SUBSET DOMAIN hours :
                  S \cap T = {} => SumHours(S \cup T) = SumHours(S) + SumHours(T)
           /\ SumHours({}) = 0
<1>1. ASSUME NEW S \in SUBSET DOMAIN hours
      PROVE  IsFiniteSet(S) /\ (\A e \in S : hours[e] \in Nat) /\ SumHours(S) \in Nat
  <2>1. IsFiniteSet(S) /\ \A e \in S : hours[e] \in Nat
    BY FS_Subset DEF HoursTyped
  <2> QED
    BY <2>1, SumIsNat DEF SumHours
<1>2. ASSUME NEW S \in SUBSET DOMAIN hours, NEW T \in SUBSET DOMAIN hours, S \cap T = {}
      PROVE  SumHours(S \cup T) = SumHours(S) + SumHours(T)
  <2>1. IsFiniteSet(S) /\ IsFiniteSet(T) /\ \A e \in S \cup T : hours[e] \in Int
    BY <1>1
  <2>2. SumFunctionOnSet(hours, S \cup T) = SumFunctionOnSet(hours, S) + SumFunctionOnSet(hours, T)
    BY <1>2, <2>1, SumUnion
  <2> QED
    BY <2>2 DEF SumHours
<1>3. SumHours({}) = 0
  BY FS_EmptySet, SumOfZeros DEF SumHours
<1> QED
  BY <1>1, <1>2, <1>3

\* Every entry belongs to a project, and its day is a number.
LEMMA EntryParts ==
    ASSUME HoursTyped
    PROVE  /\ Known = DOMAIN hours
           /\ \A e \in Known : e[1] \in Nat /\ e[2] \in DOMAIN projects
<1>1. \A e \in DOMAIN hours : e[1] \in Nat /\ e[2] \in DOMAIN projects
  BY FiguresAssumption DEF HoursTyped
<1> QED
  BY <1>1 DEF Known

\* The window of a row lies in its fiscal year.
LEMMA WindowInYear ==
    ASSUME ProjectsTyped, NEW p \in DOMAIN projects, NEW y \in Int
    PROVE  /\ WindowStart(p, y) \in Int /\ WindowEnd(p, y) \in Int
           /\ FYStart(y, startMonth) \in Int /\ FYEnd(y, startMonth) \in Int
           /\ FYStart(y, startMonth) <= WindowStart(p, y)
           /\ WindowEnd(p, y) <= FYEnd(y, startMonth)
           /\ FYStart(y, startMonth) <= FYEnd(y, startMonth)
<1>1. projects[p].start \in Nat /\ projects[p].end \in Nat
  BY DEF ProjectsTyped, IsProject
<1>2. PICK s \in Int, e \in Int : /\ s = FYStart(y, startMonth) /\ e = FYEnd(y, startMonth)
                                /\ s <= e
  BY YearLength DEF FYEnd
<1> QED
  BY <1>1, <1>2 DEF WindowStart, WindowEnd, AtLeast, AtMost

\* The days from start to end, as weeks of a curve: all after the first week, none
\* after the last.
InCurve(first, weeks, start, end) ==
    \A n \in start..end : /\ ~((n - first) \div 7 + 1 <= 1)
                           /\ (n - first) \div 7 + 1 <= weeks

\* The weeks of a curve reach from before the first day to the week of the last.
LEMMA CurveWeeks ==
    ASSUME NEW start \in Int, NEW end \in Int, start <= end,
           NEW first, first = MondayOf(AddMonths(start, -1)),
           NEW weeks, weeks = AtLeast(1, Quotient(AddMonths(end, 1) - first, 7) + 1)
    PROVE  first \in Int /\ weeks \in Nat /\ weeks >= 1 /\ InCurve(first, weeks, start, end)
<1>1. PICK a \in Int : a = AddMonths(start, -1) /\ start - a \in 28..31
  BY MonthAway
<1>2. PICK b \in Int : b = AddMonths(end, 1) /\ b - end \in 28..31
  BY MonthAway
<1>3. first \in Int /\ first <= a /\ a <= first + 6
  BY <1>1, WeekOf
<1>4. weeks = AtLeast(1, (b - first) \div 7 + 1)
  BY <1>1, <1>2, <1>3 DEF Quotient
<1>5. weeks = (b - first) \div 7 + 1 /\ weeks \in Nat /\ weeks >= 1
  BY <1>1, <1>2, <1>3, <1>4 DEF AtLeast
<1>6. ASSUME NEW n \in start..end
      PROVE  ~((n - first) \div 7 + 1 <= 1) /\ (n - first) \div 7 + 1 <= weeks
  BY <1>1, <1>2, <1>3, <1>5
<1> QED
  BY <1>3, <1>5, <1>6 DEF InCurve

\* A curve starts at its budget and ends at what its entries leave of it.
LEMMA CurveEnds ==
    ASSUME HoursTyped, NEW p, NEW from \in Int, NEW to \in Int, NEW budget \in Int, NEW y \in Int,
           NEW start, start = IF to < from THEN FYStart(y, startMonth) ELSE from,
           NEW end, end = IF to < from THEN FYEnd(y, startMonth) ELSE to,
           start \in Int, end \in Int, start <= end,
           NEW curve, curve = Burndown(p, from, to, budget, y),
           NEW counted,
           counted = {e \in Known : e[2] \in AssignmentRows(p) /\ start <= e[1] /\ e[1] <= end}
    PROVE  /\ curve[1] = budget
           /\ curve[Cardinality(DOMAIN curve)] = budget - SumHours(counted)
<1>1. PICK first : first = MondayOf(AddMonths(start, -1))
  BY Zenon
<1>2. PICK weeks : weeks = AtLeast(1, Quotient(AddMonths(end, 1) - first, 7) + 1)
  BY Zenon
<1>3. first \in Int /\ weeks \in Nat /\ weeks >= 1 /\ InCurve(first, weeks, start, end)
  BY <1>1, <1>2, CurveWeeks, Zenon
<1>4. curve = [i \in 1..weeks |-> budget - SumHours({e \in counted : (e[1] - first) \div 7 + 1 <= i})]
  BY <1>1, <1>2, Zenon DEF Burndown
<1>5. \A e \in counted : e[1] \in start..end
  BY EntryParts
<1>6. {e \in counted : (e[1] - first) \div 7 + 1 <= 1} = {}
  BY <1>3, <1>5 DEF InCurve
<1>7. {e \in counted : (e[1] - first) \div 7 + 1 <= weeks} = counted
  BY <1>3, <1>5 DEF InCurve
<1>8. 1 \in 1..weeks /\ weeks \in 1..weeks
  BY <1>3
<1>9. curve[1] = budget - SumHours({}) /\ curve[weeks] = budget - SumHours(counted)
  BY <1>4, <1>6, <1>7, <1>8
<1>10. Cardinality(DOMAIN curve) = weeks
  <2>1. DOMAIN curve = 1..weeks
    BY <1>4
  <2>2. Cardinality(1..weeks) = weeks
    <3>1. Cardinality(1..weeks) = IF 1 > weeks THEN 0 ELSE weeks - 1 + 1
      <4>1. 1 \in Int /\ weeks \in Int
        BY <1>3
      <4> QED
        BY <4>1, FS_Interval
    <3> QED
      BY <1>3, <3>1
  <2> QED
    BY <2>1, <2>2
<1> QED
  BY <1>9, <1>10, EntriesAdd

\* What the curve counts and the hours outside the window are what the table
\* calls consumed.
THEOREM BurndownCorrect == Spec => []BurndownMeetsTable
<1>1. ASSUME TypeOK, NEW y \in Years, NEW p \in ProjectsForFY(y),
             NEW row, row = ProjectSummary(p, y),
             NEW curve, curve = Burndown(p, row.startDate, row.endDate, row.available, y),
             NEW outside, outside = {e \in Known :
                /\ GroupKey(e[2]) = GroupKey(p) /\ FiscalYearOf(e[1], startMonth) = y
                /\ row.startDate <= row.endDate
                /\ e[1] < row.startDate \/ e[1] > row.endDate}
      PROVE  /\ curve[1] = row.available
             /\ curve[Cardinality(DOMAIN curve)] = row.remaining + SumHours(outside)
  <2>1. ProjectsTyped /\ HoursTyped /\ startMonth \in 1..12
    BY <1>1, TypeParts DEF OthersTyped
  <2>2. y \in Nat /\ y \in Int /\ p \in DOMAIN projects
    BY FiguresAssumption DEF ProjectsForFY
  <2>3. PICK from \in Int, to \in Int : /\ from = WindowStart(p, y) /\ to = WindowEnd(p, y)
                                       /\ FYStart(y, startMonth) <= from /\ to <= FYEnd(y, startMonth)
    BY <2>1, <2>2, WindowInYear
  <2>4. /\ FYStart(y, startMonth) \in Int /\ FYEnd(y, startMonth) \in Int
        /\ FYStart(y, startMonth) <= FYEnd(y, startMonth)
    BY <2>1, <2>2, WindowInYear
  <2>5. PICK g : g = GroupKey(p)
    BY Zenon
  <2>6. PICK C : C = PooledHours(g, {y})
    BY Zenon
  <2>7. PICK A : A = PooledHours(g, 0..(y - 1))
    BY Zenon
  <2>8. C \in Nat /\ A \in Nat
    BY <2>1, <2>2, <2>6, <2>7, PoolsAdd
  <2>9. /\ row.startDate = from /\ row.endDate = to
        /\ row.available \in Int /\ row.remaining = row.available - C
    <3>1. PICK b \in Nat : b = projects[p].budget
      BY <2>1, <2>2 DEF ProjectsTyped, IsProject
    <3>2. PICK granted \in Int : granted = b - AtMost(A, b)
      BY <2>8, <3>1 DEF AtMost
    <3>3. PICK r : r = IF ~projects[p].active /\ granted > C THEN granted - C ELSE 0
      BY Zenon
    <3>4. r \in Int
      <4>1. r = granted - C \/ r = 0
        BY <3>3, Zenon
      <4> QED
        BY <2>8, <4>1
    <3>5. row.available = granted - r /\ row.remaining = granted - r - C
      BY <1>1, <2>5, <2>6, <2>7, <3>1, <3>2, <3>3, Zenon DEF ProjectSummary
    <3>6. row.startDate = from /\ row.endDate = to
      BY <1>1, <2>3, Zenon DEF ProjectSummary
    <3> QED
      BY <2>8, <3>5, <3>6, <3>4
  <2>10. PICK start \in Int, end \in Int :
            /\ start = IF to < from THEN FYStart(y, startMonth) ELSE from
            /\ end = IF to < from THEN FYEnd(y, startMonth) ELSE to
    BY <2>3, <2>4
  <2>11. start <= end /\ FYStart(y, startMonth) <= start /\ end <= FYEnd(y, startMonth)
    BY <2>3, <2>4, <2>10
  <2>12. PICK counted : counted = {e \in Known : e[2] \in AssignmentRows(p) /\ start <= e[1] /\ e[1] <= end}
    BY Zenon
  <2>13. curve[1] = row.available /\ curve[Cardinality(DOMAIN curve)] = row.available - SumHours(counted)
    <3>1. curve = Burndown(p, from, to, row.available, y)
      BY <1>1, <2>9
    <3> QED
      BY <2>1, <2>2, <2>9, <2>10, <2>11, <2>12, <3>1, CurveEnds
  <2>14. PICK pool : pool = {e \in Known : GroupKey(e[2]) = g /\ FiscalYearOf(e[1], startMonth) \in {y}}
    BY Zenon
  <2>15. C = SumHours(pool)
    BY <2>6, <2>14 DEF PooledHours
  <2>16. \A e \in Known : /\ e[1] \in Int
                          /\ FiscalYearOf(e[1], startMonth) = y
                                <=> FYStart(y, startMonth) <= e[1] /\ e[1] <= FYEnd(y, startMonth)
    <3>1. \A e \in Known : e[1] \in Int
      BY <2>1, EntryParts
    <3>2. \A e \in Known : FiscalYearOf(e[1], startMonth) = y <=> e[1] \in FYDays(y, startMonth)
      BY <2>1, <2>2, <3>1, SameYear
    <3> QED
      BY <2>4, <3>1, <3>2 DEF FYDays
  <2>17. \A e \in Known : e[2] \in AssignmentRows(p) <=> GroupKey(e[2]) = g
    BY <2>1, <2>5, EntryParts DEF AssignmentRows
  <2>18. counted \cup outside = pool /\ counted \cap outside = {}
    <3>1. \A e \in Known : e \in pool <=> /\ GroupKey(e[2]) = g /\ FYStart(y, startMonth) <= e[1]
                                          /\ e[1] <= FYEnd(y, startMonth)
      BY <2>14, <2>16
    <3>2. \A e \in Known : e \in counted <=> GroupKey(e[2]) = g /\ start <= e[1] /\ e[1] <= end
      BY <2>12, <2>17
    <3>3. \A e \in Known : e \in outside <=> /\ e \in pool /\ from <= to
                                             /\ e[1] < from \/ e[1] > to
      BY <1>1, <2>5, <2>9, <2>14
    <3>4. pool \subseteq Known /\ counted \subseteq Known /\ outside \subseteq Known
      BY <1>1, <2>12, <2>14
    <3>5. \A e \in Known : (e \in counted \/ e \in outside <=> e \in pool) /\ ~(e \in counted /\ e \in outside)
      BY <2>3, <2>4, <2>10, <2>11, <2>16, <3>1, <3>2, <3>3
    <3> QED
      BY <3>4, <3>5
  <2>19. C = SumHours(counted) + SumHours(outside) /\ SumHours(counted) \in Nat /\ SumHours(outside) \in Nat
    <3>1. counted \in SUBSET DOMAIN hours /\ outside \in SUBSET DOMAIN hours
      BY <1>1, <2>1, <2>12, EntryParts
    <3> QED
      BY <2>1, <2>15, <2>18, <3>1, EntriesAdd
  <2> QED
    BY <2>8, <2>9, <2>13, <2>19
<1>2. TypeOK => BurndownMeetsTable
  BY <1>1 DEF BurndownMeetsTable
<1> QED
  BY <1>2, TypeCorrect, PTL

-----------------------------------------------------------------------------
(***************************************************************************)
(* The views of a year.                                                    *)
(***************************************************************************)

\* The dates of a year, as days and as FiscalYearOf says.
LEMMA DatedInYear ==
    ASSUME HoursTyped, startMonth \in 1..12, NEW y \in Int
    PROVE  \A e \in Known : /\ e[1] \in Int
                            /\ FiscalYearOf(e[1], startMonth) = y <=> e[1] \in Period(y)
<1>1. \A e \in Known : e[1] \in Int
  BY EntryParts
<1> QED
  BY <1>1, SameYear DEF Period

\* The entries with one key and those with a key of a set.
Keyed(S, f, k) == {e \in S : f[e] = k}
KeyedIn(S, f, K) == {e \in S : f[e] \in K}

\* Adding up by project, month or week: parts of a set of entries.
LEMMA EntriesByKey ==
    ASSUME HoursTyped, NEW S \in SUBSET DOMAIN hours, NEW K, IsFiniteSet(K), NEW f, NEW g,
           \A k \in K : g[k] = SumHours(Keyed(S, f, k))
    PROVE  SumFunctionOnSet(g, K) = SumHours(KeyedIn(S, f, K))
<1>1. IsFiniteSet(S) /\ \A e \in S : hours[e] \in Int
  BY FS_Subset DEF HoursTyped
<1>2. PICK C : C = [k \in K |-> Keyed(S, f, k)]
  BY Zenon
<1>3. \A k \in K : C[k] = {e \in S : f[e] = k}
  BY <1>2 DEF Keyed
<1>4. \A k \in K : C[k] \subseteq S /\ g[k] = SumFunctionOnSet(hours, C[k])
  BY <1>2, <1>3 DEF SumHours
<1>5. \A k, l \in K : k # l => C[k] \cap C[l] = {}
  BY <1>3
<1>6. SumFunctionOnSet(g, K) = SumFunctionOnSet(hours, {e \in S : \E k \in K : e \in C[k]})
  BY <1>1, <1>4, <1>5, SumOfParts
<1>7. {e \in S : \E k \in K : e \in C[k]} = KeyedIn(S, f, K)
  BY <1>3 DEF KeyedIn
<1> QED
  BY <1>6, <1>7 DEF SumHours

\* The projects of a document are finitely many.
LEMMA FiniteProjects ==
    ASSUME ProjectsTyped, NEW y
    PROVE  /\ DOMAIN projects \subseteq Nat /\ IsFiniteSet(DOMAIN projects)
           /\ RolledUp(y) \subseteq DOMAIN projects /\ IsFiniteSet(RolledUp(y))
<1>1. DOMAIN projects \subseteq Nat /\ IsFiniteSet(DOMAIN projects)
  BY FS_Subset, FiguresAssumption DEF ProjectsTyped
<1>2. RolledUp(y) \subseteq DOMAIN projects
  BY DEF RolledUp, ProjectsForFY
<1> QED
  BY <1>1, <1>2, FS_Subset

\* Each assignment of the year has one row that the totals count, the first one.
LEMMA RowPerKey ==
    ASSUME ProjectsTyped, NEW y
    PROVE  /\ RowKeys(y) = {GroupKey(p) : p \in RolledUp(y)}
           /\ \A p, q \in RolledUp(y) : GroupKey(p) = GroupKey(q) => p = q
<1> DEFINE Rows == {q \in ProjectsForFY(y) : ~IsVacation(q)}
<1>1. Rows \subseteq Nat /\ ProjectsForFY(y) \subseteq Nat /\ RolledUp(y) \subseteq Rows
  BY FiniteProjects DEF ProjectsForFY, RolledUp
<1>2. ASSUME NEW p \in Rows PROVE \E r \in RolledUp(y) : GroupKey(r) = GroupKey(p)
  <2>1. PICK S : S = {q \in Rows : GroupKey(q) = GroupKey(p)}
    BY Zenon
  <2>2. S \in SUBSET Nat /\ p \in S
    BY <1>1, <2>1
  <2>3. PICK r \in S : \A q \in S : r <= q
    BY <2>2, LeastNumber
  <2>4. r \in Rows /\ GroupKey(r) = GroupKey(p)
    BY <2>1
  <2>5. ASSUME NEW q \in ProjectsForFY(y), q < r, ~IsVacation(q), GroupKey(q) = GroupKey(r) PROVE FALSE
    <3>1. q \in S
      BY <2>1, <2>4, <2>5
    <3>2. r <= q /\ q \in Nat /\ r \in Nat
      BY <1>1, <2>3, <2>4, <3>1
    <3> QED
      BY <2>5, <3>2
  <2>6. r \in RolledUp(y)
    BY <2>4, <2>5 DEF RolledUp
  <2> QED
    BY <2>4, <2>6
<1>3. ASSUME NEW p \in RolledUp(y), NEW q \in RolledUp(y), GroupKey(p) = GroupKey(q) PROVE p = q
  <2>1. p \in Nat /\ q \in Nat /\ ~IsVacation(p) /\ ~IsVacation(q)
    BY <1>1
  <2>2. ~(q < p) /\ ~(p < q)
    BY <1>3, <2>1 DEF RolledUp
  <2> QED
    BY <2>1, <2>2
<1>4. RowKeys(y) = {GroupKey(p) : p \in Rows}
  BY DEF RowKeys
<1> QED
  BY <1>1, <1>2, <1>3, <1>4

\* The hours of the rows are those of their assignments in the year: of all
\* entries, or of those up to yesterday.
LEMMA TableHours ==
    ASSUME ProjectsTyped, HoursTyped, NEW y, NEW T \in SUBSET Known, NEW part,
           \A p \in RolledUp(y) : part[p] = SumHours({e \in T : GroupKey(e[2]) = GroupKey(p)})
    PROVE  SumFunctionOnSet(part, RolledUp(y)) = SumHours({e \in T : GroupKey(e[2]) \in RowKeys(y)})
<1>1. PICK K : K = RolledUp(y) /\ IsFiniteSet(K)
  BY FiniteProjects
<1>2. PICK C : C = [p \in K |-> {e \in T : GroupKey(e[2]) = GroupKey(p)}]
  BY Zenon
<1>3. \A p \in K : C[p] = {e \in T : GroupKey(e[2]) = GroupKey(p)}
  BY <1>2
<1>4. \A p \in K : C[p] \subseteq T /\ part[p] = SumFunctionOnSet(hours, C[p])
  BY <1>1, <1>3 DEF SumHours
<1>5. \A p, q \in K : p # q => C[p] \cap C[q] = {}
  BY <1>1, <1>3, RowPerKey
<1>6. IsFiniteSet(T) /\ \A e \in T : hours[e] \in Int
  <2>1. T \in SUBSET DOMAIN hours
    BY EntryParts
  <2> QED
    BY <2>1, FS_Subset DEF HoursTyped
<1>7. SumFunctionOnSet(part, K) = SumFunctionOnSet(hours, {e \in T : \E p \in K : e \in C[p]})
  BY <1>1, <1>4, <1>5, <1>6, SumOfParts
<1>8. {e \in T : \E p \in K : e \in C[p]} = {e \in T : GroupKey(e[2]) \in RowKeys(y)}
  BY <1>1, <1>3, RowPerKey
<1> QED
  BY <1>1, <1>7, <1>8 DEF SumHours

\* Work with the vacation that the rows pool is the rows with the work that has
\* none.
LEMMA TableAgrees ==
    ASSUME HoursTyped, NEW keys, NEW T \in SUBSET Known
    PROVE  SumHours({e \in T : e \in Work}) + SumHours({e \in T : e \notin Work /\ GroupKey(e[2]) \in keys})
               = SumHours({e \in T : GroupKey(e[2]) \in keys})
                     + SumHours({e \in T : e \in Work /\ GroupKey(e[2]) \notin keys})
<1> DEFINE InRow(e) == GroupKey(e[2]) \in keys
<1> HIDE DEF InRow
<1>1. PICK A, B, C : /\ A = {e \in T : e \in Work /\ InRow(e)}
                     /\ B = {e \in T : e \in Work /\ ~InRow(e)}
                     /\ C = {e \in T : e \notin Work /\ InRow(e)}
  BY Zenon
<1>2. /\ A \in SUBSET DOMAIN hours /\ B \in SUBSET DOMAIN hours /\ C \in SUBSET DOMAIN hours
      /\ A \cap B = {} /\ A \cap C = {}
  BY <1>1, EntryParts
<1>3. {e \in T : e \in Work} = A \cup B /\ {e \in T : InRow(e)} = A \cup C
  BY <1>1
<1>4. /\ SumHours(A \cup B) = SumHours(A) + SumHours(B)
      /\ SumHours(A \cup C) = SumHours(A) + SumHours(C)
      /\ SumHours(A) \in Nat /\ SumHours(B) \in Nat /\ SumHours(C) \in Nat
  BY <1>2, EntriesAdd
<1>5. SumHours({e \in T : e \in Work}) + SumHours({e \in T : e \notin Work /\ InRow(e)})
          = SumHours({e \in T : InRow(e)}) + SumHours({e \in T : e \in Work /\ ~InRow(e)})
  <2>1. SumHours({e \in T : e \in Work}) = SumHours(A) + SumHours(B)
    BY <1>3, <1>4
  <2>2. SumHours({e \in T : InRow(e)}) = SumHours(A) + SumHours(C)
    BY <1>3, <1>4
  <2>3. SumHours({e \in T : e \notin Work /\ InRow(e)}) = SumHours(C)
    BY <1>1
  <2>4. SumHours({e \in T : e \in Work /\ ~InRow(e)}) = SumHours(B)
    BY <1>1
  <2> QED
    BY <1>4, <2>1, <2>2, <2>3, <2>4
<1> QED
  BY <1>5 DEF InRow

\* The table and the goal page.
LEMMA TableMeetsGoal ==
    ASSUME ProjectsTyped, HoursTyped, startMonth \in 1..12, today \in Int, NEW y \in Int,
           NEW goal, goal = GoalSummary(y), NEW totals, totals = YearTotals(y)
    PROVE  /\ goal.projected + SumHours(PooledVacation(y))
                  = totals.hours + SumHours(RowlessEntries(y))
           /\ goal.actual + SumHours({e \in PooledVacation(y) : e[1] < today})
                  = totals.actual + SumHours({e \in RowlessEntries(y) : e[1] < today})
<1>1. PICK T : T = {e \in Known : e[1] \in Period(y)}
  BY Zenon
<1>2. PICK P : P = {e \in T : e[1] < today}
  BY Zenon
<1>3. T \in SUBSET Known /\ P \in SUBSET Known
  BY <1>1, <1>2
<1>4. \A e \in Known : FiscalYearOf(e[1], startMonth) = y <=> e[1] \in Period(y)
  BY DatedInYear
<1>5. PICK part : part = [p \in RolledUp(y) |-> ProjectSummary(p, y).consumed]
  BY Zenon
<1>6. PICK done : done = [p \in RolledUp(y) |-> ProjectSummary(p, y).actual]
  BY Zenon
<1>7. /\ totals.hours = SumFunctionOnSet(part, RolledUp(y))
      /\ totals.actual = SumFunctionOnSet(done, RolledUp(y))
  <2> DEFINE row == [p \in RolledUp(y) |-> ProjectSummary(p, y)]
  <2>1. /\ totals.hours = SumFunction([p \in RolledUp(y) |-> row[p].consumed])
        /\ totals.actual = SumFunction([p \in RolledUp(y) |-> row[p].actual])
    BY Zenon DEF YearTotals
  <2>2. \A p \in RolledUp(y) : row[p] = ProjectSummary(p, y)
    BY Zenon
  <2> HIDE DEF row
  <2>3. /\ [p \in RolledUp(y) |-> row[p].consumed] = part
        /\ [p \in RolledUp(y) |-> row[p].actual] = done
    BY <1>5, <1>6, <2>2
  <2>4. DOMAIN part = RolledUp(y) /\ DOMAIN done = RolledUp(y)
    BY <1>5, <1>6
  <2> QED
    BY <2>1, <2>3, <2>4 DEF SumFunction
<1>8. \A p \in RolledUp(y) : part[p] = SumHours({e \in T : GroupKey(e[2]) = GroupKey(p)})
  <2> TAKE p \in RolledUp(y)
  <2>1. PICK g : g = GroupKey(p)
    BY Zenon
  <2>2. part[p] = PooledHours(g, {y})
    <3>1. part[p] = ProjectSummary(p, y).consumed
      BY <1>5
    <3> QED
      BY <2>1, <3>1, Zenon DEF ProjectSummary
  <2>3. {e \in Known : GroupKey(e[2]) = g /\ FiscalYearOf(e[1], startMonth) \in {y}}
            = {e \in T : GroupKey(e[2]) = g}
    BY <1>1, <1>4
  <2> QED
    BY <2>1, <2>2, <2>3 DEF PooledHours
<1>9. \A p \in RolledUp(y) : done[p] = SumHours({e \in P : GroupKey(e[2]) = GroupKey(p)})
  <2> TAKE p \in RolledUp(y)
  <2>1. PICK g : g = GroupKey(p)
    BY Zenon
  <2>2. done[p] = SumHours({e \in Known : /\ GroupKey(e[2]) = g /\ e[1] < today
                                          /\ FiscalYearOf(e[1], startMonth) = y})
    <3>1. done[p] = ProjectSummary(p, y).actual
      BY <1>6
    <3> QED
      BY <2>1, <3>1, Zenon DEF ProjectSummary
  <2>3. {e \in Known : /\ GroupKey(e[2]) = g /\ e[1] < today
                       /\ FiscalYearOf(e[1], startMonth) = y}
            = {e \in P : GroupKey(e[2]) = g}
    BY <1>1, <1>2, <1>4
  <2> QED
    BY <2>1, <2>2, <2>3
<1>10. PICK keys : keys = RowKeys(y)
  BY Zenon
<1>11. /\ totals.hours = SumHours({e \in T : GroupKey(e[2]) \in keys})
       /\ totals.actual = SumHours({e \in P : GroupKey(e[2]) \in keys})
  <2>1. SumFunctionOnSet(part, RolledUp(y)) = SumHours({e \in T : GroupKey(e[2]) \in RowKeys(y)})
    BY Zenon, <1>3, <1>8, TableHours
  <2>2. SumFunctionOnSet(done, RolledUp(y)) = SumHours({e \in P : GroupKey(e[2]) \in RowKeys(y)})
    BY Zenon, <1>3, <1>9, TableHours
  <2> QED
    BY <1>7, <1>10, <2>1, <2>2
<1>12. /\ goal.projected = SumHours({e \in T : e \in Work})
       /\ goal.actual = SumHours({e \in P : e \in Work})
  <2> DEFINE inYear == {e \in Work : e[1] \in Period(y)}
  <2>1. /\ goal.projected = SumHours(inYear)
        /\ goal.actual = SumHours({e \in inYear : e[1] < today})
    BY Zenon DEF GoalSummary
  <2>2. Work \subseteq Known
    BY DEF Work
  <2>3. /\ inYear = {e \in T : e \in Work}
        /\ {e \in inYear : e[1] < today} = {e \in P : e \in Work}
    BY <1>1, <1>2, <2>2
  <2> QED
    BY <2>1, <2>3
<1>13. /\ PooledVacation(y) = {e \in T : e \notin Work /\ GroupKey(e[2]) \in keys}
       /\ {e \in PooledVacation(y) : e[1] < today}
              = {e \in P : e \notin Work /\ GroupKey(e[2]) \in keys}
  BY <1>1, <1>2, <1>10 DEF PooledVacation
<1>14. /\ RowlessEntries(y) = {e \in T : e \in Work /\ GroupKey(e[2]) \notin keys}
       /\ {e \in RowlessEntries(y) : e[1] < today}
              = {e \in P : e \in Work /\ GroupKey(e[2]) \notin keys}
  <2>1. Work \subseteq Known
    BY DEF Work
  <2> QED
    BY <1>1, <1>2, <1>10, <2>1 DEF RowlessEntries
<1>15. SumHours({e \in T : e \in Work}) + SumHours({e \in T : e \notin Work /\ GroupKey(e[2]) \in keys})
          = SumHours({e \in T : GroupKey(e[2]) \in keys})
                + SumHours({e \in T : e \in Work /\ GroupKey(e[2]) \notin keys})
  BY Zenon, <1>3, TableAgrees
<1>16. SumHours({e \in P : e \in Work}) + SumHours({e \in P : e \notin Work /\ GroupKey(e[2]) \in keys})
          = SumHours({e \in P : GroupKey(e[2]) \in keys})
                + SumHours({e \in P : e \in Work /\ GroupKey(e[2]) \notin keys})
  BY Zenon, <1>3, TableAgrees
<1> QED
  BY Zenon, <1>11, <1>12, <1>13, <1>14, <1>15, <1>16

\* The flow diagram and the goal page: projects, months, quarters and halves.
LEMMA FlowAgrees ==
    ASSUME ProjectsTyped, HoursTyped, startMonth \in 1..12, NEW y \in Int,
           NEW goal, goal = GoalSummary(y), NEW flow, flow = GoalFlow(y)
    PROVE  /\ goal.projected = SumFunction(flow.projects)
           /\ \A m \in 0..11 : flow.months[m] = goal.months[m].projected
           /\ \A q \in 0..3 : flow.quarters[q] = goal.quarters[q].projected
           /\ flow.halves = goal.halves
<1> DEFINE Year == {e \in Work : e[1] \in Period(y)}
           Flow == {e \in Work : FYStart(y, startMonth) <= e[1] /\ e[1] <= FYEnd(y, startMonth)}
           MonthOfYearEntry == [e \in Year |-> FYMonthOf(e[1], startMonth)]
           Cell == [p \in DOMAIN projects |-> [m \in 0..11 |->
                       SumHours({e \in Flow : e[2] = p /\ [d \in Flow |-> FYMonthOf(d[1], startMonth)][e] = m})]]
           Months == [m \in 0..11 |-> SumFunction([p \in DOMAIN projects |-> Cell[p][m]])]
<1>1. /\ flow.projects = [p \in DOMAIN projects |-> SumFunction(Cell[p])]
      /\ flow.months = Months
      /\ flow.quarters = [q \in 0..3 |-> SumFunctionOnSet(Months, {m \in 0..11 : m \div 3 = q})]
      /\ flow.halves = [h \in 0..1 |-> SumFunctionOnSet(Months, {m \in 0..11 : m \div 6 = h})]
  BY Zenon DEF GoalFlow
<1>2. goal.projected = SumHours(Year)
  BY Zenon DEF GoalSummary
<1> DEFINE Dated(S, m) == SumHours({e \in S : MonthOfYearEntry[e] = m})
           Done == {e \in Year : e[1] < today}
           GoalMonths == [m \in 0..11 |-> [projected |-> Dated(Year, m), actual |-> Dated(Done, m),
                                           forecast |-> Dated(Year \ Done, m)]]
<1>3. /\ goal.months = GoalMonths
      /\ goal.halves = [h \in 0..1 |-> SumFunction([m \in 6 * h .. 6 * h + 5 |-> GoalMonths[m].projected])]
  BY Zenon DEF GoalSummary
<1>4. ASSUME NEW q \in 0..3
      PROVE  goal.quarters[q].projected = SumHours({e \in Year : MonthOfYearEntry[e] \div 3 = q})
  <2> DEFINE Quarter(S, r) == SumHours({e \in S : MonthOfYearEntry[e] \div 3 = r})
  <2>1. goal.quarters = [r \in 0..3 |-> [projected |-> Quarter(Year, r), actual |-> Quarter(Done, r),
                                         forecast |-> Quarter(Year \ Done, r)]]
    BY Zenon DEF GoalSummary
  <2> HIDE DEF Quarter
  <2>2. goal.quarters[q].projected = Quarter(Year, q)
    BY <2>1
  <2> QED
    BY <2>2 DEF Quarter
<1>5. PICK Y, fm, cell, months : Y = Year /\ fm = MonthOfYearEntry /\ cell = Cell /\ months = Months
  BY Zenon
<1>6. /\ Y \in SUBSET DOMAIN hours
      /\ \A e \in Y : e[2] \in DOMAIN projects /\ fm[e] \in 0..11
  <2>1. \A e \in Known : e \in DOMAIN hours /\ e[1] \in Int /\ e[2] \in DOMAIN projects
    BY EntryParts
  <2>2. \A e \in Y : e \in Known /\ fm[e] = FYMonthOf(e[1], startMonth)
    BY <1>5 DEF Work
  <2> QED
    BY <2>1, <2>2, MonthOfYear
<1>7. Flow = Y
  <2>1. FYStart(y, startMonth) \in Int /\ FYEnd(y, startMonth) \in Int
    BY YearLength DEF FYEnd
  <2>2. \A e \in Work : e[1] \in Int
    BY EntryParts DEF Work
  <2> QED
    BY <1>5, <2>1, <2>2 DEF Period, FYDays
<1>8. \A p \in DOMAIN projects :
          /\ DOMAIN cell[p] = 0..11
          /\ \A m \in 0..11 : cell[p][m] = SumHours({e \in Y : e[2] = p /\ fm[e] = m})
  <2>1. fm = [d \in Flow |-> FYMonthOf(d[1], startMonth)]
    BY <1>5, <1>7
  <2>2. cell = [p \in DOMAIN projects |-> [m \in 0..11 |->
                    SumHours({e \in Y : e[2] = p /\ fm[e] = m})]]
    BY <1>5, <1>7, <2>1, Zenon
  <2> QED
    BY <2>2
<1>9. \A m \in 0..11 : months[m] = SumFunction([p \in DOMAIN projects |-> cell[p][m]])
  BY <1>5
<1> HIDE DEF Year, Flow, MonthOfYearEntry, Cell, Months
<1>10. PICK of : of = [e \in Y |-> e[2]]
  BY Zenon
<1>11. IsFiniteSet(0..11) /\ IsFiniteSet(DOMAIN projects)
  <2>1. IsFiniteSet(0..11)
    <3>1. PICK a, b \in Int : a = 0 /\ b = 11
      OBVIOUS
    <3>2. IsFiniteSet(a..b)
      BY FS_Interval, Zenon
    <3> QED
      BY <3>1, <3>2
  <2>2. IsFiniteSet(DOMAIN projects)
    BY FiniteProjects
  <2> QED
    BY <2>1, <2>2
<1>12. goal.projected = SumFunction(flow.projects)
  <2>1. PICK g : g = flow.projects
    BY Zenon
  <2>2. DOMAIN g = DOMAIN projects /\ \A p \in DOMAIN projects : g[p] = SumFunction(cell[p])
    BY <1>1, <1>5, <2>1
  <2>3. ASSUME NEW p \in DOMAIN projects PROVE g[p] = SumHours(Keyed(Y, of, p))
    <3>1. PICK S : S = {e \in Y : of[e] = p}
      BY Zenon
    <3>2. S \in SUBSET DOMAIN hours /\ S = {e \in Y : e[2] = p}
      BY <1>6, <1>10, <3>1
    <3>3. \A m \in 0..11 : {e \in Y : e[2] = p /\ fm[e] = m} = {e \in S : fm[e] = m}
      BY <3>2
    <3>4. PICK c : c = cell[p]
      BY Zenon
    <3>5. \A m \in 0..11 : c[m] = SumHours(Keyed(S, fm, m))
      BY <1>8, <3>3, <3>4 DEF Keyed
    <3>6. SumFunctionOnSet(c, 0..11) = SumHours(KeyedIn(S, fm, 0..11))
      BY Zenon, <1>11, <3>2, <3>5, EntriesByKey
    <3>7. KeyedIn(S, fm, 0..11) = S
      BY <1>6, <3>1 DEF KeyedIn
    <3>8. g[p] = SumFunctionOnSet(c, 0..11)
      BY <1>8, <2>2, <3>4 DEF SumFunction
    <3> QED
      BY <3>1, <3>6, <3>7, <3>8 DEF Keyed
  <2>4. SumFunctionOnSet(g, DOMAIN projects) = SumHours(KeyedIn(Y, of, DOMAIN projects))
    BY Zenon, <1>6, <1>11, <2>3, EntriesByKey
  <2>5. KeyedIn(Y, of, DOMAIN projects) = Y
    BY <1>6, <1>10 DEF KeyedIn
  <2> QED
    BY <1>2, <1>5, <2>1, <2>2, <2>4, <2>5 DEF SumFunction
<1>13. ASSUME NEW m \in 0..11 PROVE months[m] = SumHours({e \in Y : fm[e] = m})
  <2>1. PICK S : S = {e \in Y : fm[e] = m}
    BY Zenon
  <2>2. S \in SUBSET DOMAIN hours /\ \A e \in S : of[e] = e[2] /\ e[2] \in DOMAIN projects
    BY <1>6, <1>10, <2>1
  <2>3. PICK c : c = [p \in DOMAIN projects |-> cell[p][m]]
    BY Zenon
  <2>4. ASSUME NEW p \in DOMAIN projects PROVE c[p] = SumHours(Keyed(S, of, p))
    <3>1. {e \in Y : e[2] = p /\ fm[e] = m} = {e \in S : of[e] = p}
      BY <2>1, <2>2
    <3> QED
      BY <1>8, <2>3, <3>1 DEF Keyed
  <2>5. SumFunctionOnSet(c, DOMAIN projects) = SumHours(KeyedIn(S, of, DOMAIN projects))
    BY Zenon, <1>11, <2>2, <2>4, EntriesByKey
  <2>6. KeyedIn(S, of, DOMAIN projects) = S
    BY <2>2 DEF KeyedIn
  <2>7. months[m] = SumFunctionOnSet(c, DOMAIN projects)
    <3>1. DOMAIN c = DOMAIN projects
      BY <2>3
    <3> QED
      BY <1>9, <2>3, <3>1 DEF SumFunction
  <2> QED
    BY <2>1, <2>5, <2>6, <2>7
<1>14. \A m \in 0..11 : goal.months[m].projected = months[m]
  <2>1. \A m \in 0..11 : goal.months[m].projected = Dated(Year, m)
    BY <1>3
  <2>2. \A m \in 0..11 : Dated(Year, m) = SumHours({e \in Y : fm[e] = m})
    BY <1>5
  <2> QED
    BY <1>13, <2>1, <2>2
<1>15. ASSUME NEW q \in 0..3 PROVE flow.quarters[q] = goal.quarters[q].projected
  <2>1. PICK K : K = {m \in 0..11 : m \div 3 = q}
    BY Zenon
  <2>2. flow.quarters[q] = SumFunctionOnSet(months, K)
    BY <1>1, <1>5, <2>1
  <2>3. IsFiniteSet(K) /\ \A k \in K : months[k] = SumHours(Keyed(Y, fm, k))
    BY <1>11, <1>13, <2>1, FS_Subset DEF Keyed
  <2>4. SumFunctionOnSet(months, K) = SumHours(KeyedIn(Y, fm, K))
    BY Zenon, <1>6, <2>3, EntriesByKey
  <2>5. KeyedIn(Y, fm, K) = {e \in Y : fm[e] \div 3 = q}
    BY <1>6, <2>1 DEF KeyedIn
  <2> QED
    BY <1>4, <1>5, <2>2, <2>4, <2>5
<1>16. flow.halves = goal.halves
  <2>1. ASSUME NEW h \in 0..1
        PROVE  SumFunctionOnSet(months, {m \in 0..11 : m \div 6 = h})
                   = SumFunction([m \in 6 * h .. 6 * h + 5 |-> GoalMonths[m].projected])
    <3>1. PICK K : K = 6 * h .. 6 * h + 5
      BY Zenon
    <3>2. K = {m \in 0..11 : m \div 6 = h} /\ K \subseteq 0..11
      <4>1. CASE h = 0
        BY <3>1, <4>1
      <4>2. CASE h = 1
        BY <3>1, <4>2
      <4> QED
        BY <4>1, <4>2
    <3>3. PICK g : g = [m \in K |-> GoalMonths[m].projected]
      BY Zenon
    <3>4. \A m \in K : g[m] = months[m] /\ months[m] \in Int
      <4>1. \A m \in K : g[m] = goal.months[m].projected
        BY <1>3, <3>3
      <4>2. \A m \in K : months[m] \in Int
        <5>1. \A m \in K : {e \in Y : fm[e] = m} \in SUBSET DOMAIN hours
          BY <1>6
        <5>2. \A m \in K : SumHours({e \in Y : fm[e] = m}) \in Nat
          BY <5>1, EntriesAdd
        <5> QED
          BY <1>13, <3>2, <5>2
      <4> QED
        BY <1>14, <3>2, <4>1, <4>2
    <3>5. IsFiniteSet(K)
      BY <1>11, <3>2, FS_Subset
    <3>6. SumFunctionOnSet(g, K) = SumFunctionOnSet(months, K)
      BY Zenon, <3>4, <3>5, SumCongruence
    <3>7. DOMAIN g = K
      BY <3>3
    <3> QED
      BY <3>1, <3>2, <3>3, <3>6, <3>7 DEF SumFunction
  <2>2. flow.halves = [h \in 0..1 |-> SumFunctionOnSet(months, {m \in 0..11 : m \div 6 = h})]
    BY <1>1, <1>5
  <2> HIDE DEF GoalMonths
  <2> QED
    BY <1>3, <2>1, <2>2
<1> QED
  <2>1. \A m \in 0..11 : flow.months[m] = months[m]
    BY <1>1, <1>5
  <2> QED
    BY <1>12, <1>14, <1>15, <1>16, <2>1

\* The dates of a year are those with a week number, and its weeks cover it.
LEMMA WeeksCover ==
    ASSUME NEW y \in Int, NEW n \in Int, NEW monday, monday = MondayOf(FYStart(y, startMonth))
    PROVE  /\ n \in Period(y) <=> FYWeekIndexOf(y, startMonth, n) \in 1..FYWeeks(y, startMonth)
           /\ n \in Period(y) => monday <= n /\ n < monday + 7 * FYWeeks(y, startMonth)
<1>1. PICK s, e \in Int : s = FYStart(y, startMonth) /\ e = FYEnd(y, startMonth)
  <2>1. FYStart(y, startMonth) \in Int /\ FYEnd(y, startMonth) \in Int
    BY YearLength DEF FYEnd
  <2> QED
    BY <2>1
<1>2. monday \in Int /\ monday <= s /\ s <= monday + 6 /\ (monday + 3) % 7 = 0
  BY <1>1, WeekOf
<1>3. PICK m \in Int : m = MondayOf(n) /\ m <= n /\ n <= m + 6 /\ (m + 3) % 7 = 0
  BY WeekOf
<1>4. n \in Period(y) <=> s <= n /\ n <= e
  BY <1>1 DEF Period, FYDays
<1>5. PICK weeks : weeks = FYWeeks(y, startMonth)
  BY Zenon
<1>6. weeks = (e - monday + 7) \div 7
  BY <1>1, <1>2, <1>5 DEF FYWeeks
<1>7. FYWeekIndexOf(y, startMonth, n) = IF n < s \/ n > e THEN 0 ELSE (m - monday) \div 7 + 1
  BY <1>1, <1>2, <1>3 DEF FYWeekIndexOf
<1> QED
  BY <1>2, <1>3, <1>4, <1>5, <1>6, <1>7

\* The weekly table holds all hours of the year, those of the goal page and
\* vacation.
LEMMA WeeksAgree ==
    ASSUME HoursTyped, startMonth \in 1..12, NEW y \in Int,
           NEW inYear, inYear = {e \in Known : e[1] \in Period(y)},
           NEW goal, goal = GoalSummary(y)
    PROVE  /\ SumFunction(WeekHours(y)) = SumHours(inYear)
           /\ SumHours(inYear) = goal.projected + SumHours({e \in inYear : IsVacation(e[2])})
<1>1. PICK week : week = [e \in Known |-> FYWeekIndexOf(y, startMonth, e[1])]
  BY Zenon
<1>2. PICK K : K = 1..FYWeeks(y, startMonth)
  BY Zenon
<1>3. PICK table : table = WeekHours(y)
  BY Zenon
<1>4. table = [w \in K |-> SumHours({e \in Known : week[e] = w})]
  BY <1>1, <1>2, <1>3, Zenon DEF WeekHours
<1>5. Known \in SUBSET DOMAIN hours /\ \A e \in Known : e[1] \in Int
  BY EntryParts
<1>6. IsFiniteSet(K)
  <2>1. PICK a, b \in Int : a = 1 /\ b = FYWeeks(y, startMonth)
    BY YearWeeks
  <2>2. IsFiniteSet(a..b)
    BY FS_Interval, Zenon
  <2> QED
    BY <1>2, <2>1, <2>2
<1>7. \A w \in K : table[w] = SumHours(Keyed(Known, week, w))
  BY <1>4 DEF Keyed
<1>8. SumFunctionOnSet(table, K) = SumHours(KeyedIn(Known, week, K))
  BY Zenon, <1>5, <1>6, <1>7, EntriesByKey
<1>9. KeyedIn(Known, week, K) = inYear
  <2>1. \A e \in Known : e[1] \in Period(y) <=> week[e] \in K
    BY <1>1, <1>2, <1>5, WeeksCover
  <2> QED
    BY <2>1 DEF KeyedIn
<1>10. SumFunction(table) = SumHours(inYear)
  <2>1. DOMAIN table = K
    BY <1>4
  <2> QED
    BY <1>8, <1>9, <2>1 DEF SumFunction
<1>11. SumHours(inYear) = goal.projected + SumHours({e \in inYear : IsVacation(e[2])})
  <2>1. PICK A, B : A = {e \in Work : e[1] \in Period(y)} /\ B = {e \in inYear : IsVacation(e[2])}
    BY Zenon
  <2>2. inYear = A \cup B /\ A \cap B = {}
    BY <2>1 DEF Work
  <2>3. A \in SUBSET DOMAIN hours /\ B \in SUBSET DOMAIN hours
    BY <1>5, <2>1 DEF Work
  <2>4. goal.projected = SumHours(A)
    BY <2>1, Zenon DEF GoalSummary
  <2>5. SumHours(inYear) = SumHours(A) + SumHours(B)
    BY <2>2, <2>3, EntriesAdd
  <2> QED
    BY <2>1, <2>4, <2>5
<1> QED
  BY <1>3, <1>10, <1>11

\* What is shown to date is what the goal page says is booked.
LEMMA RateAgrees ==
    ASSUME HoursTyped, today \in Int, NEW y \in Int, NEW goal, goal = GoalSummary(y),
           NEW rate, rate = WeekToDate(y), rate.hasData
    PROVE  rate.hours = goal.actual
<1>1. PICK start \in Int, end \in Int : start = FYStart(y, startMonth) /\ end = FYEnd(y, startMonth)
  <2>1. FYStart(y, startMonth) \in Int /\ FYEnd(y, startMonth) \in Int
    BY YearLength DEF FYEnd
  <2> QED
    BY <2>1
<1>2. PICK shown : shown = (/\ today \in Period(y) /\ Target(y) > 0
                            /\ \E n \in start..(today - 1) : ~Weekend(n))
  BY Zenon
<1>3. PICK A : A = {e \in Work : start <= e[1] /\ e[1] < today}
  BY Zenon
<1>4. rate = [hasData |-> shown, hours |-> IF shown THEN SumHours(A) ELSE 0]
  BY <1>1, <1>2, <1>3, Zenon DEF WeekToDate
<1>5. shown /\ rate.hours = SumHours(A)
  BY <1>4
<1>6. PICK B : B = {e \in Work : e[1] \in Period(y)}
  BY Zenon
<1>7. goal.actual = SumHours({e \in B : e[1] < today})
  BY <1>6, Zenon DEF GoalSummary
<1>8. {e \in B : e[1] < today} = A
  <2>1. today <= end
    <3>1. today \in Period(y)
      BY <1>2, <1>5
    <3> QED
      BY <1>1, <3>1 DEF Period, FYDays
  <2>2. \A e \in Work : e[1] \in Int
    BY EntryParts DEF Work
  <2>3. \A e \in Work : e[1] \in Period(y) /\ e[1] < today <=> start <= e[1] /\ e[1] < today
    BY <1>1, <2>1, <2>2 DEF Period, FYDays
  <2> QED
    BY <1>3, <1>6, <2>3
<1> QED
  BY <1>5, <1>7, <1>8

\* The horizon of the whole year begins with its first week and ends with its
\* last one.
LEMMA WholeYear ==
    ASSUME NEW last \in 53..54, NEW view, view = Sankey(1, last, "fy", 0)
    PROVE  view.week = 1 /\ view.weeks = last
<1>1. PICK span : span = SankeySpan(1, last, "fy")
  BY Zenon
<1>2. span = [week |-> 1, weeks |-> last]
  BY <1>1 DEF SankeySpan
<1>3. AtMost(AtLeast(span.weeks, 1), last) = last /\ span.week = 1
  BY <1>2 DEF AtMost, AtLeast
<1>4. PICK shifted : shifted = ShiftSankeySpan(1, last, last, 0)
  BY Zenon
<1>5. shifted.week = 1
  <2>1. AtLeast(1, last - last + 1) = 1
    BY DEF AtLeast
  <2>2. AtMost(AtLeast(1, 1), 1) = 1
    BY DEF AtLeast, AtMost
  <2>3. AtMost(AtLeast(0, -SankeyMaxOffset), SankeyMaxOffset) = 0
    BY DEF AtLeast, AtMost, SankeyMaxOffset
  <2>4. AtMost(AtLeast(1 + 0 * last, 1), 1) = 1
    BY DEF AtLeast, AtMost
  <2> QED
    BY <1>4, <2>1, <2>2, <2>3, <2>4 DEF ShiftSankeySpan
<1>6. view.week = shifted.week /\ view.weeks = last
  <2>1. view.week = ShiftSankeySpan(span.week, AtMost(AtLeast(span.weeks, 1), last), last, 0).week
    BY <1>1, Zenon DEF Sankey
  <2>2. view.weeks = AtMost(AtLeast(span.weeks, 1), last)
    BY <1>1, Zenon DEF Sankey
  <2> QED
    BY <1>3, <1>4, <2>1, <2>2
<1> QED
  BY <1>5, <1>6

\* When nothing is booked on a weekend or on a project of another year, that
\* horizon holds all hours of the year.
LEMMA HorizonAgrees ==
    ASSUME HoursTyped, NEW y \in Int, NEW inYear, inYear = {e \in Known : e[1] \in Period(y)},
           \A e \in inYear : ~Weekend(e[1]) /\ e[2] \in ProjectsForFY(y),
           NEW view, view = Sankey(1, FYWeeks(y, startMonth), "fy", 0)
    PROVE  SankeyTotal(y, view) = SumHours(inYear)
<1>1. view.week = 1 /\ view.weeks = FYWeeks(y, startMonth)
  BY YearWeeks, WholeYear
<1>2. PICK monday \in Int : monday = MondayOf(FYStart(y, startMonth))
  <2>1. FYStart(y, startMonth) \in Int
    BY YearLength
  <2> QED
    BY <2>1, WeekOf
<1>3. FYWeekMonday(y, startMonth, view.week) = monday
  BY <1>1, <1>2 DEF FYWeekMonday
<1>4. SankeyTotal(y, view) = SumHours({e \in Known :
            /\ e[2] \in ProjectsForFY(y) /\ e[1] \in Period(y) /\ ~Weekend(e[1])
            /\ monday <= e[1] /\ e[1] < monday + 7 * view.weeks})
  BY <1>3, Zenon DEF SankeyTotal
<1>5. \A e \in inYear : monday <= e[1] /\ e[1] < monday + 7 * view.weeks
  <2>1. \A e \in inYear : e[1] \in Int /\ e[1] \in Period(y)
    BY EntryParts
  <2> QED
    BY <1>1, <1>2, <2>1, WeeksCover
<1>6. {e \in Known :
            /\ e[2] \in ProjectsForFY(y) /\ e[1] \in Period(y) /\ ~Weekend(e[1])
            /\ monday <= e[1] /\ e[1] < monday + 7 * view.weeks} = inYear
  BY <1>5
<1> QED
  BY <1>4, <1>6

\* In every state the views count the same hours, each in its own way.
THEOREM ViewsCorrect == Spec => []ViewsAgree
<1>1. ASSUME TypeOK, NEW y \in Years
      PROVE  LET goal == GoalSummary(y)
                 flow == GoalFlow(y)
                 totals == YearTotals(y)
                 weeks == SumFunction(WeekHours(y))
                 inYear == {e \in Known : e[1] \in Period(y)}
                 rowless == RowlessEntries(y)
                 pooled == PooledVacation(y)
                 past(S) == {e \in S : e[1] < today}
                 wholeYear == Sankey(1, FYWeeks(y, startMonth), "fy", 0)
             IN  /\ goal.projected + SumHours(pooled) = totals.hours + SumHours(rowless)
                 /\ goal.actual + SumHours(past(pooled)) = totals.actual + SumHours(past(rowless))
                 /\ goal.projected = SumFunction(flow.projects)
                 /\ \A m \in 0..11 : flow.months[m] = goal.months[m].projected
                 /\ \A q \in 0..3 : flow.quarters[q] = goal.quarters[q].projected
                 /\ flow.halves = goal.halves
                 /\ weeks = goal.projected + SumHours({e \in inYear : IsVacation(e[2])})
                 /\ WeekToDate(y).hasData => WeekToDate(y).hours = goal.actual
                 /\ (\A e \in inYear : ~Weekend(e[1]) /\ e[2] \in ProjectsForFY(y))
                        => SankeyTotal(y, wholeYear) = weeks
  <2>1. ProjectsTyped /\ HoursTyped /\ startMonth \in 1..12 /\ today \in Int
    BY <1>1, TypeParts, FiguresAssumption DEF OthersTyped
  <2>2. y \in Int
    BY FiguresAssumption
  <2> DEFINE goal == GoalSummary(y)
             flow == GoalFlow(y)
             totals == YearTotals(y)
             weeks == SumFunction(WeekHours(y))
             inYear == {e \in Known : e[1] \in Period(y)}
             wholeYear == Sankey(1, FYWeeks(y, startMonth), "fy", 0)
  <2>3. /\ goal.projected + SumHours(PooledVacation(y)) = totals.hours + SumHours(RowlessEntries(y))
        /\ goal.actual + SumHours({e \in PooledVacation(y) : e[1] < today})
               = totals.actual + SumHours({e \in RowlessEntries(y) : e[1] < today})
    BY <2>1, <2>2, TableMeetsGoal, Zenon
  <2>4. /\ goal.projected = SumFunction(flow.projects)
        /\ \A m \in 0..11 : flow.months[m] = goal.months[m].projected
        /\ \A q \in 0..3 : flow.quarters[q] = goal.quarters[q].projected
        /\ flow.halves = goal.halves
    <3> HIDE DEF goal, flow
    <3> QED
      BY <2>1, <2>2, FlowAgrees DEF goal, flow
  <2>5. /\ weeks = SumHours(inYear)
        /\ SumHours(inYear) = goal.projected + SumHours({e \in inYear : IsVacation(e[2])})
    BY <2>1, <2>2, WeeksAgree, Zenon
  <2>6. WeekToDate(y).hasData => WeekToDate(y).hours = goal.actual
    BY <2>1, <2>2, RateAgrees, Zenon
  <2>7. (\A e \in inYear : ~Weekend(e[1]) /\ e[2] \in ProjectsForFY(y))
            => SankeyTotal(y, wholeYear) = SumHours(inYear)
    BY <2>1, <2>2, HorizonAgrees, Zenon
  <2>8. /\ weeks = goal.projected + SumHours({e \in inYear : IsVacation(e[2])})
        /\ (\A e \in inYear : ~Weekend(e[1]) /\ e[2] \in ProjectsForFY(y))
                => SankeyTotal(y, wholeYear) = weeks
    <3> HIDE DEF goal, weeks, inYear, wholeYear
    <3> QED
      BY <2>5, <2>7
  <2> QED
    BY <2>3, <2>4, <2>6, <2>8, Zenon
<1>2. TypeOK => ViewsAgree
  BY <1>1, Zenon DEF ViewsAgree
<1> QED
  BY <1>2, TypeCorrect, PTL

-----------------------------------------------------------------------------
(***************************************************************************)
(* The tiles and the chart of the working time.                            *)
(***************************************************************************)

\* The days of a month, its first and its last one.
LEMMA InMonth ==
    ASSUME NEW n \in Int, NEW i \in Int, MonthDay(i) <= n, n < MonthDay(i + 1)
    PROVE  /\ MonthIndex(n) = i /\ MonthStart(n) = MonthDay(i)
           /\ Civil(n).day = n - MonthDay(i) + 1
<1>1. MonthIndex(n) \in Int /\ MonthDay(i) \in Int /\ MonthDay(i + 1) \in Int
  BY CivilMonth, MonthLength
<1>2. i <= MonthIndex(n) /\ MonthIndex(n) < i + 1
  <2>1. PICK j \in Int : j = i + 1
    OBVIOUS
  <2> QED
    BY <2>1, OneMonth, Zenon
<1>3. MonthIndex(n) = i
  BY <1>1, <1>2
<1>4. PICK d \in Int : d = Civil(n).day /\ n = MonthDay(i) + d - 1
  <2>1. Civil(n).day \in 1..31 /\ n = MonthDay(MonthIndex(n)) + Civil(n).day - 1
    BY CivilMonth, Zenon
  <2> QED
    BY <1>3, <2>1
<1> QED
  BY <1>1, <1>3, <1>4 DEF MonthStart

\* The first day of a month, and months counted from it.
LEMMA FromFirst ==
    ASSUME NEW i \in Int
    PROVE  /\ MonthDay(i) \in Int
           /\ MonthIndex(MonthDay(i)) = i /\ MonthStart(MonthDay(i)) = MonthDay(i)
           /\ Civil(MonthDay(i)).day = 1
           /\ \A k \in Int : i + k \in Int /\ AddMonths(MonthDay(i), k) = MonthDay(i + k)
           /\ MonthEnd(MonthDay(i)) = MonthDay(i + 1) - 1
<1>1. PICK n \in Int : n = MonthDay(i) /\ n < MonthDay(i + 1)
  BY MonthLength
<1>2. MonthIndex(n) = i /\ MonthStart(n) = n /\ Civil(n).day = n - n + 1
  BY <1>1, InMonth
<1>3. Civil(n).day = 1
  BY <1>2
<1>4. ASSUME NEW k \in Int PROVE i + k \in Int /\ AddMonths(n, k) = MonthDay(i + k)
  <2>1. PICK f \in Int : f = MonthDay(i + k) /\ AddMonths(n, k) = f + 1 - 1
    <3>1. /\ MonthIndex(n) + k \in Int /\ MonthDay(MonthIndex(n) + k) \in Int
          /\ AddMonths(n, k) = MonthDay(MonthIndex(n) + k) + Civil(n).day - 1
      BY AddedMonths, Zenon
    <3> QED
      BY <1>2, <1>3, <3>1
  <2> QED
    BY <2>1
<1>5. MonthEnd(n) = MonthDay(i + 1) - 1
  BY <1>2, <1>4 DEF MonthEnd
<1> QED
  BY <1>1, <1>2, <1>3, <1>4, <1>5

\* Later months begin later.
LEMMA MonthOrder ==
    ASSUME NEW i \in Int, NEW j \in Int
    PROVE  /\ MonthDay(i) \in Int /\ MonthDay(j) \in Int
           /\ MonthDay(i) <= MonthDay(j) <=> i <= j
           /\ MonthDay(i) < MonthDay(j) <=> i < j
<1>1. PICK n \in Int : n = MonthDay(j) /\ MonthIndex(n) = j
  BY FromFirst
<1>2. PICK m \in Int : m = MonthDay(i) /\ MonthIndex(m) = i
  BY FromFirst
<1>3. MonthDay(i) <= n <=> i <= j
  BY <1>1, OneMonth
<1>4. MonthDay(j) <= m <=> j <= i
  BY <1>2, OneMonth
<1> QED
  BY <1>1, <1>2, <1>3, <1>4

\* Every day lies in one month.
LEMMA DayInMonth ==
    ASSUME NEW n \in Int
    PROVE  /\ MonthIndex(n) \in Int /\ MonthIndex(n) + 1 \in Int
           /\ MonthDay(MonthIndex(n)) \in Int /\ MonthDay(MonthIndex(n) + 1) \in Int
           /\ MonthDay(MonthIndex(n)) <= n /\ n < MonthDay(MonthIndex(n) + 1)
           /\ MonthStart(n) = MonthDay(MonthIndex(n))
           /\ MonthEnd(n) = MonthDay(MonthIndex(n) + 1) - 1
<1>1. PICK i \in Int : i = MonthIndex(n)
  BY CivilMonth
<1>2. MonthDay(i) \in Int /\ MonthDay(i + 1) \in Int
  BY MonthLength
<1>3. MonthDay(i) <= n /\ n < MonthDay(i + 1)
  <2>1. MonthDay(i) <= n
    BY <1>1, OneMonth
  <2> QED
    BY <1>1, <2>1, CivilMonth
<1>4. MonthStart(n) = MonthDay(i)
  BY <1>3, InMonth
<1>5. MonthEnd(n) = MonthDay(i + 1) - 1
  <2>1. MonthEnd(n) = MonthEnd(MonthDay(i))
    BY <1>4, FromFirst, Zenon DEF MonthEnd
  <2> QED
    BY <2>1, FromFirst
<1> QED
  BY <1>1, <1>2, <1>3, <1>4, <1>5

\* The chart reaches back as far as it says, but for days that a month does
\* not have.
LEMMA ChartReachesBack ==
    ASSUME today \in Int
    PROVE  Civil(today).day <= 28 => ChartFirst = AddMonths(MonthStart(today), -WorkloadBackMonths)
<1>1. PICK i \in Int : i = MonthIndex(today) /\ MonthStart(today) = MonthDay(i)
  BY DayInMonth
<1>2. PICK d \in 1..31 : d = Civil(today).day
  BY CivilMonth
<1>3. AddMonths(today, -6) = MonthDay(i - 6) + d - 1
  <2>1. i + (-6) = i - 6 /\ -6 \in Int
    OBVIOUS
  <2>2. AddMonths(today, -6) = MonthDay(MonthIndex(today) + (-6)) + Civil(today).day - 1
    BY <2>1, AddedMonths, Zenon
  <2> QED
    BY <1>1, <1>2, <2>1, <2>2
<1>4. ASSUME d <= 28 PROVE MonthStart(AddMonths(today, -6)) = MonthDay(i - 6)
  <2>1. PICK j \in Int : j = i - 6
    OBVIOUS
  <2>2. MonthDay(j) \in Int /\ MonthDay(j + 1) \in Int /\ MonthDay(j + 1) - MonthDay(j) \in 28..31
    BY MonthLength
  <2>3. PICK n \in Int : n = MonthDay(j) + d - 1 /\ MonthDay(j) <= n /\ n < MonthDay(j + 1)
    BY <1>4, <2>2
  <2>4. MonthStart(n) = MonthDay(j)
    BY <2>3, InMonth
  <2> QED
    BY <1>3, <2>1, <2>3, <2>4
<1>5. AddMonths(MonthStart(today), -6) = MonthDay(i - 6)
  <2>1. -6 \in Int /\ i + (-6) = i - 6
    OBVIOUS
  <2>2. AddMonths(MonthDay(i), -6) = MonthDay(i + (-6))
    BY <2>1, FromFirst
  <2> QED
    BY <1>1, <2>1, <2>2
<1> QED
  BY <1>2, <1>4, <1>5 DEF ChartFirst, WorkloadBackMonths

\* What the chart holds of a month.
LEMMA ChartRow ==
    ASSUME NEW chart, chart = WorkloadTimeline
    PROVE  /\ DOMAIN chart = {m \in {AddMonths(ChartFirst, k) : k \in 0..15} : m <= ChartLast}
           /\ \A m \in DOMAIN chart :
                  /\ chart[m].load = Workload(m..MonthEnd(m))
                  /\ chart[m].rolling = Workload(AddMonths(m, -5)..MonthEnd(m))
<1>1. /\ WorkloadTileMonths - 1 = 5
      /\ WorkloadBackMonths + WorkloadAheadMonths + 1 = 15
  BY DEF WorkloadTileMonths, WorkloadBackMonths, WorkloadAheadMonths
<1>2. PICK drawn : drawn = {m \in {AddMonths(ChartFirst, k) :
                                     k \in 0..(WorkloadBackMonths + WorkloadAheadMonths + 1)} : m <= ChartLast}
  BY Zenon
<1>3. chart = [m \in drawn |->
                 [load |-> Workload(m..MonthEnd(m)),
                  rolling |-> Workload(AddMonths(m, -(WorkloadTileMonths - 1))..MonthEnd(m))]]
  BY <1>2, Zenon DEF WorkloadTimeline
<1>4. chart = [m \in drawn |-> [load |-> Workload(m..MonthEnd(m)),
                                rolling |-> Workload(AddMonths(m, -5)..MonthEnd(m))]]
  BY <1>1, <1>3
<1>5. drawn = {m \in {AddMonths(ChartFirst, k) : k \in 0..15} : m <= ChartLast}
  BY <1>1, <1>2
<1> QED
  BY <1>4, <1>5

\* Its months, on the first of month i: six back, and on to the last plan.
LEMMA ChartMonths ==
    ASSUME HoursTyped, today \in Nat, NEW i \in Int, today = MonthDay(i)
    PROVE  \E l \in i..(i + 8) :
               /\ DOMAIN WorkloadTimeline = {MonthDay(j) : j \in (i - 6)..l}
               /\ \A n \in DaysOf(Work) : today <= n /\ n < MonthDay(i + 9) => n < MonthDay(l + 1)
<1>1. PICK limit \in Int : /\ limit = MonthEnd(AddMonths(today, WorkloadAheadMonths))
                          /\ limit = MonthDay(i + 9) - 1
  <2>1. PICK j \in Int : j = i + 8 /\ j + 1 = i + 9
    OBVIOUS
  <2>2. AddMonths(today, 8) = MonthDay(j)
    BY <2>1, FromFirst
  <2>3. MonthEnd(MonthDay(j)) = MonthDay(j + 1) - 1 /\ MonthDay(j + 1) \in Int
    BY FromFirst, MonthLength
  <2> QED
    BY <2>1, <2>2, <2>3 DEF WorkloadAheadMonths
<1>2. today <= limit /\ limit \in Nat
  <2>1. PICK j \in Int : j = i + 9 /\ i < j
    OBVIOUS
  <2>2. MonthDay(i) < MonthDay(j) /\ MonthDay(j) \in Int
    BY <2>1, MonthOrder
  <2> QED
    BY <1>1, <2>1, <2>2
<1>3. PICK S : S = {today} \cup (DaysOf(Work) \cap today..limit)
  BY Zenon
<1>4. S \in SUBSET Nat /\ S # {} /\ \A n \in S : today <= n /\ n <= limit
  BY <1>2, <1>3
<1>5. \E x \in S : \A n \in S : n <= x
  BY <1>2, <1>4, GreatestNumber
<1>6. PICK x \in S : x = Max(S) /\ \A n \in S : n <= x
  <2>1. \E x \in S : \A n \in S : x >= n
    BY <1>4, <1>5
  <2>2. Max(S) \in S /\ \A n \in S : Max(S) >= n
    BY <2>1, Zenon DEF Max
  <2> QED
    BY <1>4, <2>2
<1>7. PICK l \in Int : /\ l = MonthIndex(x) /\ x < MonthDay(l + 1) /\ MonthEnd(x) = MonthDay(l + 1) - 1
                      /\ MonthDay(l + 1) \in Int
  BY <1>4, DayInMonth
<1>8. l \in i..(i + 8)
  <2>1. PICK j \in Int : j = i + 9
    OBVIOUS
  <2>2. x \in Int /\ MonthDay(i) <= x /\ x < MonthDay(j)
    BY <1>1, <1>4, <2>1, MonthOrder
  <2>3. i <= l /\ l < j
    BY <1>7, <2>2, OneMonth
  <2> QED
    BY <2>1, <2>3
<1>9. ChartLast = MonthDay(l + 1) - 1
  <2>1. ChartLast = MonthEnd(x)
    BY <1>1, <1>3, <1>6, Zenon DEF ChartLast
  <2> QED
    BY <1>7, <2>1
<1>10. ASSUME NEW n \in DaysOf(Work), today <= n, n < MonthDay(i + 9) PROVE n < MonthDay(l + 1)
  <2>1. n \in Int
    BY EntryParts DEF DaysOf, Work
  <2>2. MonthDay(i + 9) = limit + 1
    <3>1. MonthDay(i + 9) \in Int
      BY MonthOrder
    <3> QED
      BY <1>1, <3>1
  <2>3. n \in S
    BY <1>3, <1>10, <2>1, <2>2
  <2> QED
    BY <1>4, <1>6, <1>7, <2>1, <2>3
<1>11. ChartFirst = MonthDay(i - 6)
  <2>1. PICK j \in Int : j = i - 6 /\ i + (-6) = j /\ -6 \in Int
    OBVIOUS
  <2>2. AddMonths(today, -6) = MonthDay(j) /\ MonthStart(MonthDay(j)) = MonthDay(j)
    BY <2>1, FromFirst
  <2> QED
    BY <2>1, <2>2 DEF ChartFirst, WorkloadBackMonths
<1>12. \A k \in 0..15 : AddMonths(ChartFirst, k) = MonthDay(i - 6 + k)
  <2>1. PICK j \in Int : j = i - 6
    OBVIOUS
  <2>2. \A k \in Int : AddMonths(MonthDay(j), k) = MonthDay(j + k)
    BY FromFirst
  <2> QED
    BY <1>11, <2>1, <2>2
<1>13. \A j \in Int : MonthDay(j) <= ChartLast <=> j <= l
  <2>1. PICK k \in Int : k = l + 1
    OBVIOUS
  <2>2. \A j \in Int : MonthDay(j) \in Int /\ (MonthDay(j) < MonthDay(k) <=> j < k)
    BY MonthOrder
  <2> QED
    BY <1>7, <1>9, <2>1, <2>2
<1>14. DOMAIN WorkloadTimeline = {MonthDay(j) : j \in (i - 6)..l}
  <2>1. PICK dates : dates = {m \in {AddMonths(ChartFirst, k) : k \in 0..15} : m <= ChartLast}
    BY Zenon
  <2>2. ASSUME NEW m \in dates PROVE m \in {MonthDay(j) : j \in (i - 6)..l}
    <3>1. PICK k \in 0..15 : m = AddMonths(ChartFirst, k) /\ m <= ChartLast
      BY <2>1
    <3>2. PICK j \in Int : j = i - 6 + k
      OBVIOUS
    <3>3. m = MonthDay(j) /\ j <= l
      BY <1>12, <1>13, <3>1, <3>2
    <3> QED
      BY <3>2, <3>3
  <2>3. ASSUME NEW j \in (i - 6)..l PROVE MonthDay(j) \in dates
    <3>1. PICK k \in 0..15 : j = i - 6 + k
      BY <1>8
    <3>2. MonthDay(j) = AddMonths(ChartFirst, k)
      BY <1>12, <3>1
    <3>3. MonthDay(j) <= ChartLast
      BY <1>13
    <3> QED
      BY <2>1, <3>2, <3>3
  <2>4. DOMAIN WorkloadTimeline = dates
    BY <2>1, ChartRow, Zenon
  <2> QED
    BY <2>2, <2>3, <2>4
<1> QED
  BY <1>8, <1>10, <1>14

\* On the first of a month the tile that looks back shows the balancing period
\* that ends with the month before.
LEMMA TileBack ==
    ASSUME HoursTyped, today \in Nat, Civil(today).day = 1, NEW chart, chart = WorkloadTimeline
    PROVE  BuildWorkload(WorkloadTileMonths, FALSE) = chart[MonthStart(today - 1)].rolling
<1>1. PICK i \in Int : today = MonthDay(i) /\ i = MonthIndex(today)
  <2>1. today \in Int
    OBVIOUS
  <2>2. /\ MonthIndex(today) \in Int /\ MonthDay(MonthIndex(today)) \in Int
        /\ today = MonthDay(MonthIndex(today)) + Civil(today).day - 1
    BY <2>1, CivilMonth, Zenon
  <2> QED
    BY <2>2
<1>2. PICK p \in Int : p = i - 1 /\ p + 1 = i /\ p + (-5) = i - 6 /\ -5 \in Int
  OBVIOUS
<1>3. PICK first \in Int : /\ first = MonthDay(p) /\ first = MonthStart(today - 1)
                          /\ MonthEnd(first) = today - 1 /\ AddMonths(first, -5) = MonthDay(i - 6)
  <2>1. MonthDay(p) \in Int /\ MonthDay(p) < MonthDay(i)
    BY <1>2, MonthOrder
  <2>2. PICK n \in Int : n = today - 1 /\ MonthDay(p) <= n /\ n < MonthDay(p + 1)
    BY <1>1, <1>2, <2>1
  <2>3. MonthStart(n) = MonthDay(p)
    BY <2>2, InMonth
  <2>4. MonthEnd(MonthDay(p)) = MonthDay(p + 1) - 1 /\ AddMonths(MonthDay(p), -5) = MonthDay(p + (-5))
    BY <1>2, FromFirst
  <2> QED
    BY <1>1, <1>2, <2>1, <2>2, <2>3, <2>4
<1>4. first \in DOMAIN chart
  <2>1. PICK l \in i..(i + 8) : DOMAIN WorkloadTimeline = {MonthDay(j) : j \in (i - 6)..l}
    BY <1>1, ChartMonths
  <2>2. p \in (i - 6)..l
    BY <1>2
  <2> QED
    BY <1>3, <2>1, <2>2
<1>5. chart[first].rolling = Workload(MonthDay(i - 6)..(today - 1))
  <2>1. chart[first].rolling = Workload(AddMonths(first, -5)..MonthEnd(first))
    BY <1>4, ChartRow, Zenon
  <2> QED
    BY <1>3, <2>1
<1>6. BuildWorkload(WorkloadTileMonths, FALSE) = Workload(MonthDay(i - 6)..(today - 1))
  <2>1. BuildWorkload(WorkloadTileMonths, FALSE) = Workload(AddMonths(today, -WorkloadTileMonths)..(today - 1))
    BY Zenon DEF BuildWorkload, Window
  <2>2. AddMonths(today, -6) = MonthDay(i - 6)
    <3>1. -6 \in Int /\ i + (-6) = i - 6
      OBVIOUS
    <3>2. AddMonths(MonthDay(i), -6) = MonthDay(i + (-6))
      BY <3>1, FromFirst
    <3> QED
      BY <1>1, <3>1, <3>2
  <2> QED
    BY <2>1, <2>2 DEF WorkloadTileMonths
<1> QED
  BY <1>3, <1>5, <1>6

\* The calendar months from the first of month i on that a plan is made in.
PlannedMonths(i) == {MonthStart(n) : n \in DaysOf(Work) \cap MonthDay(i)..(MonthDay(i + 6) - 1)}

\* Their days are those that begin in one of them.
LEMMA PlannedDays ==
    ASSUME HoursTyped, NEW i \in Int, NEW M, M = PlannedMonths(i)
    PROVE  /\ MonthDay(i)..(MonthDay(i + 6) - 1) \cap UNION {m..MonthEnd(m) : m \in M}
                  = {n \in Int : MonthStart(n) \in M}
           /\ \A m \in M : m..MonthEnd(m) = {n \in Int : MonthStart(n) = m}
           /\ \A m \in M : \E j \in i..(i + 5) : m = MonthDay(j)
           /\ \A n \in Int : MonthStart(n) \in M => n \in MonthDay(i)..(MonthDay(i + 6) - 1)
<1>1. PICK k \in Int : k = i + 6
  OBVIOUS
<1>2. MonthDay(i) \in Int /\ MonthDay(k) \in Int
  BY MonthOrder
<1>3. ASSUME NEW m \in M PROVE \E j \in i..(i + 5) : m = MonthDay(j)
  <2>1. PICK n \in DaysOf(Work) : n \in MonthDay(i)..(MonthDay(i + 6) - 1) /\ m = MonthStart(n)
    BY DEF PlannedMonths
  <2>2. n \in Int /\ MonthDay(i) <= n /\ n < MonthDay(k)
    BY <1>1, <1>2, <2>1
  <2>3. PICK j \in Int : j = MonthIndex(n) /\ MonthStart(n) = MonthDay(j)
    BY <2>2, DayInMonth
  <2>4. i <= j /\ j < k
    BY <2>2, <2>3, OneMonth
  <2> QED
    BY <1>1, <2>1, <2>3, <2>4
<1>4. ASSUME NEW j \in i..(i + 5)
      PROVE  /\ MonthDay(j)..MonthEnd(MonthDay(j)) = {n \in Int : MonthStart(n) = MonthDay(j)}
             /\ \A n \in Int : MonthStart(n) = MonthDay(j) => n \in MonthDay(i)..(MonthDay(i + 6) - 1)
  <2>1. PICK a \in Int, b \in Int : /\ a = MonthDay(j) /\ b = MonthDay(j + 1)
                                    /\ MonthEnd(MonthDay(j)) = b - 1
    <3>1. j \in Int
      OBVIOUS
    <3>2. MonthDay(j) \in Int /\ MonthDay(j + 1) \in Int
      BY <3>1, MonthLength
    <3>3. MonthEnd(MonthDay(j)) = MonthDay(j + 1) - 1
      BY <3>1, FromFirst
    <3> QED
      BY <3>2, <3>3
  <2>2. ASSUME NEW n \in Int PROVE MonthStart(n) = a <=> a <= n /\ n < b
    <3>1. ASSUME MonthStart(n) = a PROVE a <= n /\ n < b
      <4>1. PICK c \in Int : c = MonthIndex(n) /\ MonthDay(c) <= n /\ n < MonthDay(c + 1) /\ MonthDay(c) = a
        BY <3>1, DayInMonth
      <4>2. c <= j /\ j <= c
        <5>1. j \in Int /\ MonthDay(c) <= MonthDay(j) /\ MonthDay(j) <= MonthDay(c)
          BY <2>1, <4>1
        <5> QED
          BY <5>1, MonthOrder
      <4>3. c = j
        BY <4>2
      <4> QED
        BY <2>1, <4>1, <4>3
    <3>2. ASSUME a <= n, n < b PROVE MonthStart(n) = a
      <4>1. j \in Int
        OBVIOUS
      <4> QED
        BY <2>1, <3>2, <4>1, InMonth
    <3> QED
      BY <3>1, <3>2
  <2>3. MonthDay(i) <= a /\ b <= MonthDay(k)
    <3>1. PICK c \in Int : c = j + 1 /\ i <= j /\ c <= k /\ j \in Int
      BY <1>1
    <3>2. MonthDay(i) <= MonthDay(j) /\ MonthDay(c) <= MonthDay(k)
      BY <3>1, MonthOrder
    <3> QED
      BY <2>1, <3>1, <3>2
  <2> QED
    BY <1>1, <1>2, <2>1, <2>2, <2>3
<1>5. \A m \in M : /\ m..MonthEnd(m) = {n \in Int : MonthStart(n) = m}
                   /\ \A n \in Int : MonthStart(n) = m => n \in MonthDay(i)..(MonthDay(i + 6) - 1)
  BY <1>3, <1>4
<1>6. MonthDay(i)..(MonthDay(i + 6) - 1) \cap UNION {m..MonthEnd(m) : m \in M}
          = {n \in Int : MonthStart(n) \in M}
  <2>1. PICK U : U = UNION {m..MonthEnd(m) : m \in M}
    BY Zenon
  <2>2. \A n \in Int : n \in U <=> MonthStart(n) \in M
    BY <1>5, <2>1
  <2>3. \A n \in Int : MonthStart(n) \in M => n \in MonthDay(i)..(MonthDay(i + 6) - 1)
    BY <1>5
  <2> QED
    BY <2>1, <2>2, <2>3
<1> QED
  BY <1>3, <1>5, <1>6

\* The days that work may be done on: neither Sundays nor holidays nor days of
\* nothing but vacation.
FreeDays == Holidays \cup (DaysOf(Known \ Work) \ DaysOf(Work))
WorkDays(days) == {n \in days : ~Sunday(n) /\ n \notin FreeDays}
WorkOf(days) == {e \in Work : e[1] \in days}

\* The two figures of a load.
LEMMA LoadParts ==
    ASSUME NEW days
    PROVE  /\ Workload(days).hours = SumHours(WorkOf(days))
           /\ Workload(days).days = Cardinality(WorkDays(days))
<1>1. Workload(days) = [hours |-> SumHours({e \in Work : e[1] \in days}),
                        days |-> Cardinality({n \in days : ~Sunday(n) /\ n \notin FreeDays})]
  BY Zenon DEF Workload, FreeDays
<1> QED
  BY <1>1 DEF WorkOf, WorkDays

\* Entries have hours, so none are counted only where there is no entry.
LEMMA HoursCount ==
    ASSUME HoursTyped, NEW S \in SUBSET DOMAIN hours
    PROVE  SumHours(S) > 0 <=> S # {}
<1>1. CASE S = {}
  <2>1. SumHours(S) = 0
    BY <1>1, EntriesAdd
  <2> QED
    BY <1>1, <2>1
<1>2. ASSUME NEW e \in S PROVE SumHours(S) > 0
  <2>1. IsFiniteSet(S) /\ (\A d \in S : hours[d] \in Nat) /\ hours[e] \in Nat \ {0}
    BY FS_Subset DEF HoursTyped
  <2>2. SumHours(S) >= hours[e] /\ SumHours(S) \in Nat
    <3>1. SumFunctionOnSet(hours, S) >= hours[e]
      BY <2>1, SumCovers
    <3>2. SumFunctionOnSet(hours, S) \in Nat
      BY <2>1, SumIsNat
    <3> QED
      BY <3>1, <3>2 DEF SumHours
  <2> QED
    BY <2>1, <2>2
<1> QED
  BY <1>1, <1>2

\* What the months of a chart up to the reach of a tile plan.
PlanRows(chart) ==
    {m \in DOMAIN chart :
        /\ today <= m /\ m < AddMonths(today, WorkloadTileMonths)
        /\ chart[m].load.hours > 0}
PlanHours(chart) == SumFunction([m \in PlanRows(chart) |-> chart[m].load.hours])
PlanDays(chart) == SumFunction([m \in PlanRows(chart) |-> chart[m].load.days])

\* The charted months that carry a plan, up to the reach of a tile, are the
\* months that the tile looks at.
LEMMA ChartedPlan ==
    ASSUME HoursTyped, today \in Nat, NEW i \in Int, today = MonthDay(i),
           NEW chart, chart = WorkloadTimeline
    PROVE  PlanRows(chart) = PlannedMonths(i)
<1>1. PICK M, planned : M = PlannedMonths(i) /\ planned = PlanRows(chart)
  BY Zenon
<1>2. PICK k \in Int : k = i + 6 /\ MonthDay(k) \in Int /\ AddMonths(today, WorkloadTileMonths) = MonthDay(k)
  <2>1. PICK k \in Int : k = i + 6 /\ 6 \in Int
    OBVIOUS
  <2>2. MonthDay(k) \in Int
    BY MonthOrder
  <2>3. AddMonths(MonthDay(i), 6) = MonthDay(i + 6)
    BY <2>1, FromFirst
  <2> QED
    BY <2>1, <2>2, <2>3 DEF WorkloadTileMonths
<1>3. PICK l \in i..(i + 8) : /\ DOMAIN chart = {MonthDay(j) : j \in (i - 6)..l}
                             /\ \A n \in DaysOf(Work) : today <= n /\ n < MonthDay(i + 9) => n < MonthDay(l + 1)
  BY ChartMonths
<1>4. ASSUME NEW m \in DOMAIN chart
      PROVE  chart[m].load.hours > 0 <=> \E n \in DaysOf(Work) : n \in m..MonthEnd(m)
  <2>1. chart[m].load.hours = SumHours(WorkOf(m..MonthEnd(m)))
    BY ChartRow, LoadParts, Zenon
  <2>2. WorkOf(m..MonthEnd(m)) \in SUBSET DOMAIN hours
    BY DEF WorkOf, Work, Known
  <2>3. WorkOf(m..MonthEnd(m)) # {} <=> \E n \in DaysOf(Work) : n \in m..MonthEnd(m)
    BY DEF WorkOf, DaysOf
  <2> QED
    BY <2>1, <2>2, <2>3, HoursCount
<1>5. \A n \in DaysOf(Work) : n \in Int
  BY EntryParts DEF DaysOf, Work
<1>6. ASSUME NEW m \in M PROVE m \in planned
  <2>1. PICK n \in DaysOf(Work) : n \in MonthDay(i)..(MonthDay(i + 6) - 1) /\ m = MonthStart(n)
    BY <1>1 DEF PlannedMonths
  <2>2. n \in Int /\ MonthDay(i) <= n /\ n < MonthDay(k)
    BY <1>2, <1>5, <2>1
  <2>3. PICK j \in Int : j = MonthIndex(n) /\ m = MonthDay(j) /\ m \in Int
    BY <2>1, <2>2, DayInMonth
  <2>4. i <= j /\ j < k
    BY <1>2, <2>2, <2>3, OneMonth
  <2>5. j <= l
    <3>1. PICK c \in Int : c = i + 9 /\ k <= c
      BY <1>2
    <3>2. MonthDay(k) <= MonthDay(c) /\ MonthDay(c) \in Int
      BY <3>1, MonthOrder
    <3>3. PICK d \in Int : d = l + 1
      OBVIOUS
    <3>4. n < MonthDay(d)
      BY <1>2, <1>3, <2>2, <3>1, <3>2, <3>3
    <3>5. j < d
      BY <2>2, <2>3, <3>4, OneMonth
    <3> QED
      BY <3>3, <3>5
  <2>6. m \in DOMAIN chart
    BY <1>3, <2>3, <2>4, <2>5
  <2>7. today <= m /\ m < MonthDay(k)
    BY <1>2, <2>3, <2>4, MonthOrder
  <2>8. n \in m..MonthEnd(m)
    BY <1>1, <2>1, <2>2, PlannedDays
  <2> QED
    BY <1>1, <1>2, <1>4, <2>6, <2>7, <2>8 DEF PlanRows
<1>7. ASSUME NEW m \in planned PROVE m \in M
  <2>1. m \in DOMAIN chart /\ today <= m /\ m < MonthDay(k) /\ chart[m].load.hours > 0
    BY <1>1, <1>2 DEF PlanRows
  <2>2. PICK j \in Int : m = MonthDay(j) /\ m \in Int
    <3>1. PICK j \in (i - 6)..l : m = MonthDay(j)
      BY <1>3, <2>1
    <3>2. j \in Int
      OBVIOUS
    <3> QED
      BY <3>1, <3>2, MonthOrder
  <2>3. j < k
    BY <1>2, <2>1, <2>2, MonthOrder
  <2>4. PICK n \in DaysOf(Work) : n \in m..MonthEnd(m)
    BY <1>4, <2>1
  <2>5. PICK b \in Int : b = j + 1 /\ MonthDay(b) \in Int /\ MonthEnd(m) = MonthDay(b) - 1
    <3>1. MonthEnd(MonthDay(j)) = MonthDay(j + 1) - 1
      BY FromFirst
    <3>2. MonthDay(j + 1) \in Int
      BY MonthLength
    <3> QED
      BY <2>2, <3>1, <3>2
  <2>6. n \in Int /\ m <= n /\ n < MonthDay(b)
    BY <1>5, <2>2, <2>4, <2>5
  <2>7. MonthStart(n) = m
    BY <2>2, <2>5, <2>6, InMonth
  <2>8. MonthDay(b) <= MonthDay(k)
    BY <1>2, <2>3, <2>5, MonthOrder
  <2>9. n \in MonthDay(i)..(MonthDay(i + 6) - 1)
    BY <1>2, <2>1, <2>2, <2>5, <2>6, <2>8
  <2> QED
    BY <1>1, <2>7, <2>9 DEF PlannedMonths
<1> QED
  BY <1>1, <1>6, <1>7

\* The tile that looks ahead is the sum of the months of the chart that carry a
\* plan.
LEMMA TileAhead ==
    ASSUME HoursTyped, today \in Nat, Civil(today).day = 1,
           NEW chart, chart = WorkloadTimeline,
           NEW ahead, ahead = BuildWorkload(WorkloadTileMonths, TRUE)
    PROVE  ahead.hours = PlanHours(chart) /\ ahead.days = PlanDays(chart)
<1>1. PICK i \in Int : today = MonthDay(i)
  <2>1. today \in Int
    OBVIOUS
  <2>2. /\ MonthIndex(today) \in Int /\ MonthDay(MonthIndex(today)) \in Int
        /\ today = MonthDay(MonthIndex(today)) + Civil(today).day - 1
    BY <2>1, CivilMonth, Zenon
  <2> QED
    BY <2>2
<1>2. PICK M : M = PlannedMonths(i) /\ M = PlanRows(chart)
  BY <1>1, ChartedPlan, Zenon
<1>3. PICK D : D = {n \in Int : MonthStart(n) \in M}
  BY Zenon
<1>4. ahead = Workload(D)
  <2>1. 6 \in Int /\ AddMonths(today, WorkloadTileMonths) = MonthDay(i + 6)
    BY <1>1, FromFirst DEF WorkloadTileMonths
  <2>2. PICK window : window = today..(AddMonths(today, WorkloadTileMonths) - 1)
    BY Zenon
  <2>3. ahead = Workload(window \cap UNION {m..MonthEnd(m) : m \in {MonthStart(n) : n \in DaysOf(Work) \cap window}})
    BY <2>2, Zenon DEF BuildWorkload, Window
  <2>4. window = MonthDay(i)..(MonthDay(i + 6) - 1)
    BY <1>1, <2>1, <2>2
  <2>5. {MonthStart(n) : n \in DaysOf(Work) \cap window} = M
    BY <1>2, <2>4 DEF PlannedMonths
  <2>6. window \cap UNION {m..MonthEnd(m) : m \in M} = D
    BY <1>2, <1>3, <2>4, PlannedDays
  <2> QED
    BY <2>3, <2>5, <2>6
<1>5. \A m \in M : m..MonthEnd(m) = {n \in Int : MonthStart(n) = m}
  BY <1>2, PlannedDays
<1>6. IsFiniteSet(D) /\ IsFiniteSet(M)
  <2>1. PICK a \in Int, b \in Int : a = MonthDay(i) /\ b = MonthDay(i + 6) - 1
    <3>1. PICK k \in Int : k = i + 6
      OBVIOUS
    <3>2. MonthDay(i) \in Int /\ MonthDay(k) \in Int
      BY MonthOrder
    <3> QED
      BY <3>1, <3>2
  <2>2. IsFiniteSet(a..b)
    BY FS_Interval, Zenon
  <2>3. \A n \in Int : MonthStart(n) \in M => n \in a..b
    BY <1>2, <2>1, PlannedDays
  <2>4. D \subseteq a..b
    BY <1>3, <2>3
  <2>5. M \subseteq a..b
    <3>1. ASSUME NEW m \in M PROVE m \in a..b
      <4>1. PICK j \in i..(i + 5) : m = MonthDay(j)
        <5>1. \A t \in M : \E j \in i..(i + 5) : t = MonthDay(j)
          BY <1>2, PlannedDays
        <5> QED
          BY <5>1
      <4>2. m \in Int /\ MonthStart(m) = m
        <5>1. j \in Int
          OBVIOUS
        <5> QED
          BY <4>1, <5>1, FromFirst
      <4> QED
        BY <2>3, <4>2
    <3> QED
      BY <3>1
  <2> QED
    BY <2>2, <2>4, <2>5, FS_Subset
<1>7. \A m \in M : /\ chart[m].load.hours = SumHours(WorkOf(m..MonthEnd(m)))
                   /\ chart[m].load.days = Cardinality(WorkDays(m..MonthEnd(m)))
  <2>1. \A m \in M : m \in DOMAIN chart
    BY <1>2 DEF PlanRows
  <2>2. \A m \in M : chart[m].load = Workload(m..MonthEnd(m))
    BY <2>1, ChartRow, Zenon
  <2> QED
    BY <2>2, LoadParts
<1>8. ahead.hours = PlanHours(chart)
  <2>1. PICK f : f = [e \in Work |-> MonthStart(e[1])]
    BY Zenon
  <2>2. PICK g : g = [m \in M |-> chart[m].load.hours]
    BY Zenon
  <2>3. Work \in SUBSET DOMAIN hours /\ \A e \in Work : e[1] \in Int
    BY EntryParts DEF Work
  <2>4. ASSUME NEW m \in M PROVE g[m] = SumHours(Keyed(Work, f, m))
    <3>1. WorkOf(m..MonthEnd(m)) = Keyed(Work, f, m)
      BY <1>5, <2>1, <2>3 DEF WorkOf, Keyed
    <3> QED
      BY <1>7, <2>2, <3>1
  <2>5. SumFunctionOnSet(g, M) = SumHours(KeyedIn(Work, f, M))
    BY Zenon, <1>6, <2>3, <2>4, EntriesByKey
  <2>6. KeyedIn(Work, f, M) = WorkOf(D)
    BY <1>3, <2>1, <2>3 DEF WorkOf, KeyedIn
  <2>7. ahead.hours = SumHours(WorkOf(D))
    BY <1>4, LoadParts
  <2>8. DOMAIN g = M
    BY <2>2
  <2> QED
    BY <1>2, <2>2, <2>5, <2>6, <2>7, <2>8 DEF SumFunction, PlanHours
<1>9. ahead.days = PlanDays(chart)
  <2>1. PICK W : W = WorkDays(D)
    BY Zenon
  <2>2. W \subseteq D /\ IsFiniteSet(W)
    <3>1. W \subseteq D
      BY <2>1 DEF WorkDays
    <3> QED
      BY <1>6, <3>1, FS_Subset
  <2>3. PICK ones : ones = [n \in W |-> 1]
    BY Zenon
  <2>4. PICK C : C = [m \in M |-> WorkDays(m..MonthEnd(m))]
    BY Zenon
  <2>5. PICK g : g = [m \in M |-> chart[m].load.days]
    BY Zenon
  <2>6. \A m \in M : C[m] = {n \in W : MonthStart(n) = m}
    <3>1. ASSUME NEW m \in M PROVE WorkDays(m..MonthEnd(m)) = {n \in W : MonthStart(n) = m}
      BY <1>3, <1>5, <2>1 DEF WorkDays
    <3> QED
      BY <2>4, <3>1
  <2>7. ASSUME NEW m \in M PROVE C[m] \subseteq W /\ g[m] = SumFunctionOnSet(ones, C[m])
    <3>1. C[m] \subseteq W /\ IsFiniteSet(C[m])
      BY <2>2, <2>6, FS_Subset
    <3>2. \A n \in C[m] : ones[n] = 1
      BY <2>3, <3>1
    <3>3. SumFunctionOnSet(ones, C[m]) = Cardinality(C[m])
      BY <3>1, <3>2, SumOfOnes
    <3> QED
      BY <1>7, <2>4, <2>5, <3>1, <3>3
  <2>8. \A m, k \in M : m # k => C[m] \cap C[k] = {}
    BY <2>6
  <2>9. \A n \in W : ones[n] \in Int
    BY <2>3
  <2>10. SumFunctionOnSet(g, M) = SumFunctionOnSet(ones, {n \in W : \E m \in M : n \in C[m]})
    BY <1>6, <2>2, <2>7, <2>8, <2>9, SumOfParts
  <2>11. {n \in W : \E m \in M : n \in C[m]} = W
    BY <1>3, <2>2, <2>6
  <2>12. SumFunctionOnSet(ones, W) = Cardinality(W)
    <3>1. \A n \in W : ones[n] = 1
      BY <2>3
    <3> QED
      BY <2>2, <3>1, SumOfOnes
  <2>13. ahead.days = Cardinality(W)
    BY <1>4, <2>1, LoadParts
  <2>14. DOMAIN g = M
    BY <2>5
  <2> QED
    BY <1>2, <2>5, <2>10, <2>11, <2>12, <2>13, <2>14 DEF SumFunction, PlanDays
<1> QED
  BY <1>8, <1>9

\* On the first of a month the tiles and the chart measure the same days.
THEOREM TilesCorrect == Spec => []TilesAgreeWithChart
<1>1. ASSUME TypeOK
      PROVE  /\ Civil(today).day <= 28 => ChartFirst = AddMonths(MonthStart(today), -WorkloadBackMonths)
             /\ Civil(today).day = 1 =>
                 LET chart == WorkloadTimeline
                     ahead == BuildWorkload(WorkloadTileMonths, TRUE)
                     planned == {m \in DOMAIN chart :
                         /\ today <= m /\ m < AddMonths(today, WorkloadTileMonths)
                         /\ chart[m].load.hours > 0}
                 IN  /\ BuildWorkload(WorkloadTileMonths, FALSE) = chart[MonthStart(today - 1)].rolling
                     /\ ahead.hours = SumFunction([m \in planned |-> chart[m].load.hours])
                     /\ ahead.days = SumFunction([m \in planned |-> chart[m].load.days])
  <2>1. HoursTyped /\ today \in Nat /\ today \in Int
    BY <1>1, TypeParts, FiguresAssumption DEF OthersTyped
  <2>2. Civil(today).day <= 28 => ChartFirst = AddMonths(MonthStart(today), -WorkloadBackMonths)
    BY <2>1, ChartReachesBack
  <2>3. ASSUME Civil(today).day = 1
        PROVE  /\ BuildWorkload(WorkloadTileMonths, FALSE)
                      = WorkloadTimeline[MonthStart(today - 1)].rolling
               /\ BuildWorkload(WorkloadTileMonths, TRUE).hours = PlanHours(WorkloadTimeline)
               /\ BuildWorkload(WorkloadTileMonths, TRUE).days = PlanDays(WorkloadTimeline)
    BY <2>1, <2>3, TileBack, TileAhead, Zenon
  <2> QED
    BY <2>2, <2>3, Zenon DEF PlanHours, PlanDays, PlanRows
<1>2. TypeOK => TilesAgreeWithChart
  BY <1>1, Zenon DEF TilesAgreeWithChart
<1> QED
  BY <1>2, TypeCorrect, PTL

=============================================================================
