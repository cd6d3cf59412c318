# forecast-tool: a verification project

`forecast-tool` is a Go web service for one user or a small team: it keeps projects, booked and
planned hours, vacation and settings in one JSON document, shows them as HTML, offers a JSON API,
and asks a language model for plans. Nothing about it is large, but its correctness rests on a few
mechanisms that ordinary tests hardly reach: a document that several requests change at once and
that must survive a killed process, two ways to write it with different guarantees, plans that are
made from one version of the document and saved into another, a cache that must never sign for an
address nobody verified, a log that rotates while lines arrive, and a dozen views that each count the
same hours in a way of their own.

This directory holds TLA+ models of these mechanisms, TLC configurations that check them on small
instances, and TLAPS proofs for every instance. Paths below are relative to `src/`.

## 1. The system

### Components, their state and their operations

| Component | State | Operations | How others reach it |
|---|---|---|---|
| Document store (`internal/storage/store.go`) | the document in memory, an RWMutex, the data file and its temporary file | `New`/`load`, `Update`, `Mutate`, `Snapshot`, `Marshal`, `persist` | called by every handler; the only owner of the document |
| Document rules (`internal/models`, `storage.normalize`) | none; they relate the parts of the document | `normalize`, `EnsureVacationProject`, `FYFor`, `Validate` | called inside `Mutate` and `load`, and in part by the forms |
| Forms (`internal/web/handlers.go`) | none of their own | create, change, (de)activate and delete projects; settings; switch the fiscal year | write through `Update`, which neither normalizes nor validates |
| JSON API (`internal/api`) | none of its own | batch of entries, projects, settings, fiscal years, accuracy | write through `Mutate` |
| Month planning (`internal/web/month_ai.go`, `internal/web/month.go`, `internal/forecast/month_ai.go`) | a flag, a map of previews behind a mutex | generate, show a preview, save | takes a snapshot, asks the model, later writes through `Mutate` |
| Local month plan (`internal/forecast/month.go`, `internal/forecast/month_history.go`) | none | weekday habits, distribution of a week | the month page, from a snapshot |
| Foundry catalog (`internal/web/foundry.go`, `internal/foundry/client.go`) | gate (a channel of size 1), cached catalog, time and error of the last attempt; endpoint and generation behind an RWMutex | load, reload, configure a request, authorize it | pages, the goal chat, month planning |
| Log (`internal/logging`) | open file, counted size, chain of backups | `Setup`, `Write`, `rotate`, `Close` | every component logs |
| Aggregation (`internal/forecast/agg.go`) | none | year summary, goal, flow, burn-down, dashboard horizon, workload | pages and API, from a snapshot |
| Forecast accuracy (`internal/forecast/accuracy.go`, `internal/api/accuracy.go`) | a value per fiscal year, in the document | import, summary | API; the dashboard shows it |
| Front, authentication, start and stop | per request, or per process | middleware, tokens, signals | - |

### What is hard

* **Concurrency.** Handlers run in parallel. The store serializes writes, but a request that reads,
  waits for a model or for Azure, and writes later, has not the document it read. Month planning
  and the catalog both compare before and after such a wait.
* **Failure.** `persist` can fail at every step, and the process or the machine can stop between
  any two. `Mutate` puts the old document back; `Update` does not.
* **Two ways to write.** The API validates; the forms do not. What keeps the document consistent
  when both are used in any order is spread over handlers, `normalize` and `Validate`.
* **Time.** Previews and cached catalogs expire; days pass between the making of a plan and its
  saving.
* **The calendar.** Fiscal years start in any month, weeks in the middle of months, assignments run
  across years; each view cuts the year in its own way, and Go's `AddDate` normalizes the 31st away.
* **Order.** Imports out of order; a batch that names the same day twice; a rotation interrupted half-way.

### What makes each component correct

* Store: a write is all or nothing, answered truthfully, durable against a killed process, and
  invisible to readers until it is certain.
* Document: entries belong to projects, an assignment occurs once per fiscal year, the vacation
  project of the active year exists and has the right budget, no request deletes it, and
  normalizing changes nothing that was already consistent.
* Month planning: a saved plan keeps the week totals of the document it is saved into, changes
  nothing outside its month or in the past, is what the user was shown, and is saved at most once;
  one generation at a time; bounded memory.
* Local plan: no hour is lost or invented, none is pending while its project has a day with room,
  projects that can go elsewhere give way, and absences do not look like habits.
* Catalog: a credential goes only to the endpoint verified at that moment; page and client agree;
  failures are not retried in a storm; everyone is answered.
* Figures: every view counts the same hours; a budget that crosses the border of a year is granted
  once; curves end where tables say; links lead where they say.
* Log: lines stay in order, only the oldest go, files keep their limit.

## 2. Modules

| Module | Models | State and actions against the code |
|---|---|---|
| `DurableDocument` | the promise of the store | `live`, `saved` and `older`: what readers get, what is on disk, what a power loss may bring back; `answer`, `seen`. `Commit` changes all at once, `Touch` and `Save` are what an `Update` may do instead |
| `DocumentStore` | `storage.Store` | `mem` = `Store.data`, `lock` = `Store.mu`, `previous` = the local of `Mutate`, `tmp`/`file`/`stable` = the temporary file, the data file and what a power loss may bring back; `phase` is the program counter of each writer inside `persist` |
| `ForecastDocument` | the document and its rules | a record; `Normalize`, `EnsureVacationProject`, `Validate` clause by clause |
| `ForecastService` | every writing request | one action per handler, named as in the code; `Update(d)` and `Mutate(d)` are the two ways to write |
| `SyncEntries` | the loop of `handleSyncEntries` | `entries`, `idx` and `toDelete` are its variables, with positions counted from 1 |
| `EntryBook` | the promise of the batch | one item after the other on a map |
| `MonthPlanning` | generate and save | `generating`, `previews`, `mu` = `monthAIState`; `gen` and `save` hold the locals of the handlers between their steps, `shown` the page of a preview |
| `MonthDistribution` | `buildMonthHistories`, `buildMonthPlan`, `distributeMonthWeek` | `habit` = the histories; `total`, `estimated`, `left` and `pass` are the variables of the loop over the candidates, `todo` those that are to come. Each pass over the days is a step |
| `Fractions` | `float64` | exact fractions in lowest terms, so that equal numbers are equal values; Euclid's algorithm is a recursive function |
| `FoundryCatalog` | `foundryState` and `foundry.Client` | `gate`, `snapshot`, `refreshErr`, `lastAttempt`; `endpoint`, `generation`; `req` holds the locals of each request |
| `LogRotation` | `rotatingWriter` | `log`, `backup`, `open`, `size`; `at` is the program counter of `Write` and `rotate`, `released` the file handle that `Close` took away |
| `FiscalCalendar` | dates and fiscal years | a date is a day number; `time.Date` and `AddDate` with their normalization, and the calendar functions at the top of `agg.go` |
| `ForecastFigures` | the views, and the edits between two looks at them | `projects`, `hours`, `startMonth` and `accuracy` are the fields of the document; `ProjectSummary`, `GoalSummary`, `Burndown`, ... are the `Build...` functions |
| `...Proofs` | theorems about the module they are named after | section 5 |
| `DataLemmas` | facts about sets of numbers, sums of functions and fractions, for the proofs | - |
| `MC...` | small instances | values for the constants that a configuration file cannot write |

How they compose. `ForecastService` extends `ForecastDocument` and takes a write to be one step;
`DocumentStore` opens that step and shows that it may be taken as one, with the exceptions that
`ForecastService` has too (an `Update` that fails keeps its change in memory). `SyncEntries` opens
the batch, which `ForecastService` takes as `WithBatch`. `MonthPlanning` uses snapshots and a
`Mutate` in one step each, for the same reason.

### Abstractions

* `DocumentStore`: a document is the set of edits made to it; every write makes two, so that half a
  write can be told from a whole one. Whether a closure or `Validate` refuses a write is a choice.
  `Snapshot` stands for `Marshal`, too. A form number of `NaN` or infinity, which
  `json.MarshalIndent` cannot encode, is an `Unencodable` request.
* `ForecastDocument`: fields that no rule relates to another are left out (colour, active flag,
  language, state, thresholds, prompts, AI deployment). Entries are a function of day and project.
* `ForecastService`: `handleProjectActive` stands for the forms that change only fields left out
  but still persist the whole document; `handleUpdateSettings` for every `Mutate` that changes no
  modelled field. `newID`, the current nanosecond in base 36, is taken to be unique.
* `MonthPlanning`: where the code compares SHA-256 sums of two sources (`monthSource`), the sources
  themselves are compared, and they hold what the code puts into them: the history and the month day
  by day, of the other days of the month's weeks only the sum of each day and of each project and week,
  and nothing of days outside the fiscal year. The year, the federal state and the language do not
  change, and one booking window stands for those of all projects. Prompts and the marks of saved months
  are left out. Of the page, the hours of each day are modelled, for plans that can be saved and for
  the first look at each.
* `MonthDistribution`: the arithmetic is exact where the code has `float64` and a tolerance of 1e-9.
  A past week is its hours, vacation and holidays; where they come from in the calendar is left out,
  as are labels and the figures of a week that no hour depends on.
* `ForecastFigures`: hours are integers, in tenths of an hour, the unit `round1` rounds to; form and
  API also take finer values, whose roundings are not modelled. Percentages, paces, labels, colours
  and the order of rows are left out. A project is its place in the list; creating one is left to
  `ForecastService`, as is moving a vacation project to another year. A request changes one field of
  a project at a time. The holiday calendar is a constant set of days.
* `FoundryCatalog`: a catalog is its endpoint; the pages of a discovery are one step.
* `LogRotation`: a line is its number and its length, because the writer looks at nothing else. A
  write to an open file may fail, and on a full disk after a part of the line. `maxBackups` is
  positive, as in the only call.

## 3. Runs

| Run | What it shows | Bounds and why they are enough |
|---|---|---|
| `store_crash` | the store refines `DurableDocument`, five invariants of what is in memory, in the files and in the hands of readers, and that every write is answered | two writers of each kind (one may fail while the other succeeds and persists the first one's leftovers), one reader, one crash and one power loss (each can fall between any two steps, also of a recovery) |
| `service` | five invariants over every write request | two fiscal years, one assignment, one created project beside those of the first file, one failing persist; two first files, one of which needs every migration |
| `month_planning` | plans, previews and what their pages show, under concurrent edits, time and restarts, and that every generation ends | seven days in two weeks and four months: both weeks are shared with neighbouring months, and the second goes beyond the fiscal year; two projects of work, which one request lets change places on later days of the next month, and vacation; other requests set or take bookings on past, planned and vacation days, or the window; two generations for one kept preview, so that the limit is met; three days, so that days of the month are over and previews expire. Only one request saves at a time, because a save holds `monthAI.mu` from its check to its end and another one waits in the state of one not yet begun; it may try again |
| `month_plan` | four invariants of the local plan | three working days and a Saturday, so that windows can be apart, overlap or contain each other; two projects of one assignment and one of another; hours that fit, just fill and exceed the week; vacation, a holiday, a day that is over, a week cut by the fiscal year. Three past weeks, with two that count as full evidence (12 and 4 in the code), so that evidence is none, partial, full and more than full; their distance of four weeks makes the recency weights powers of two. Weeks are planned only after months with one simple habit, because exact fractions must fit 32 bits; the other habits are checked for `AbsenceIsNoHabit` |
| `foundry_catalog` | cache, client and signing | one page, one forced reload, two requests that sign; the clock passes both times to live |
| `log_rotation` | order, completeness, size, limit | seven lines fill the log and all three backups; two failures (a close and an open, or two renames), a restart, and a `Close` with lines that come after it |
| `figures` | six invariants over all views, and that imports never go back | three edits between two fiscal years (an entry on each side and a change of budget, window, assignment, year or start month); days on the borders of both start months, on a Saturday, a holiday and a leap day; today before, on and after the border, on a first and on a 31st; start months July and January; one assignment that a request may give to any project, so that rows merge and vacation is pooled with work; horizons shifted by a span and far beyond the year |
| `sync_entries` | the loop refines one-by-one application | four items on two keys can add, delete, add and delete again |

Runs that show a disagreement between the repository's own words and its code:

| Run | The words | The code |
|---|---|---|
| `half_changed` | `docs/PLAN.md:127-129`: a failed write never leaves a half-changed document | `Update` keeps what its closure did before it failed |
| `document_described` | `docs/PLAN.md:127-129`: writes are normalized and validated | `Update` does neither; the form that creates a project stores a window that ends before it starts, and so does the one that changes it |
| | `.github/instructions/forecast-tool.instructions.md:198-200`: one vacation project per year with a stable id | the API may move it to another year |
| `figures_described` | `internal/forecast/agg.go:105-109`: vacation is excluded from the dashboard diagram | `BuildSankey` takes every project; lines 219-220 and 513-514 of the instructions agree with it, so the comment is out of date |
| | `internal/forecast/agg.go:324-326` and `331-333`, `docs/API.md:295-296`: the vacation project has no assignment and stands on its own | a request may give it one (`internal/api/handlers.go:470`), and its hours join the row of that assignment |
| | `internal/forecast/agg.go:1057-1063` and lines 320-326 of the instructions: hours outside the window belong to another fiscal year, and the curve ends at the table's remaining budget | a window may lie inside the year; the table counts the hours beside it, the curve does not |
| `log_dropped_line` | `internal/logging/logging.go:67`: keep logging rather than dropping the line | after a failed close the file is closed, and the line is lost, as is every later one: the next rotation fails at closing it again. A failed open ends in the same state |

Where a run has several lines, its property is the disjunction of what they say, each part a
definition of its own (`DocumentAlwaysValid`, `StableVacationProject`; `DashboardWithoutVacation`,
`VacationStandsAlone`, `BurndownEndsAtRemaining`). A document that violates it violates every part, so
that one behaviour refutes all of them; each alone is refuted by a shorter one.

What `figures` pins down about the code, in the exact form of its properties:

* `BurndownMeetsTable`: with a booking window of its own, a project also has hours of the same year
  outside of it; the table counts them, the curve does not, and it ends above the table's remaining
  budget by just these hours. The words that deny such hours are `BurndownEndsAtRemaining`, in `figures_described`.
* `TilesAgreeWithChart`: on the 29th to 31st of a month the chart may begin a month late, because
  `AddDate` normalizes 31 February to 3 March before the month's start is taken. On every day up to
  the 28th it begins six months back.
* `ViewsAgree`: hours of a year whose assignment has no project in that year count towards the goal
  and appear in no row (`RowlessEntries`). The other way round, vacation with the assignment of a
  project of work is in that project's row and not in the goal (`PooledVacation`), and the dashboard
  has vacation among its hours. What comments say of vacation instead is checked by
  `figures_described`.

`CHECK_DEADLOCK FALSE` stands where the system may stop for good: every request was made, or the
bound on failures, edits or lines is used up, or the month is planned. `store_crash` keeps the
deadlock check, because a reader can always read a started server.

Deliberate wording of the properties: `AcceptedIsInFile` is claimed only while no power was lost,
because the directory is not synced after the rename; `SaveKeepsTheRest` takes as past what was
past for the clock of the save request, because the code reads the clock before it locks the store.

`PreviewIsWhatIsSaved` promises what the code can keep: the hours of each day in the month, in vacation
and in the past, and the sums elsewhere. The instructions (lines 662-663) want a draft to match the
"original daily positions"; the revision has them for the month and for the past, but two projects that
change places on later days of the next month leave it as it was, and the draft is saved. `Swap`
of the instance is such an exchange.

No run checks a `TypeOK`: each holds on the instance of its module and is proved for all of them
(section 5).

Symmetry is not used: the instances are small enough without it.

### Fairness

* `ForecastFigures` and `MonthDistribution` state no liveness and assume no fairness.
* `DocumentStore`: the writer that holds the lock goes on, and a waiting writer gets a lock that is
  free again and again only because of other writers, of which there are finitely many. Neither a
  crash nor a start is fair: the property asks for an answer only while the server is up.
* `MonthPlanning`: weak fairness on the failure of a call to the model, because `ai.Ask` has a
  timeout; an answer in time disables it and is as good. Strong fairness on publishing, because it
  waits for a mutex others take in between, and a Go mutex starves nobody. Weak fairness on leaving the
  handler and on both ends of a save, refused (which an accepted one disables) and finished. Nobody has
  to save or to generate.
* `FoundryCatalog`: strong fairness on entering the gate, because Go serves the senders of a channel
  in turn; weak fairness on discovery and signing, which have timeouts. Nobody has to give up.

## 4. Mutants

For each property of each passing run, `PROJECT.json` names a definition of the model and a
mistaken form of it (defined just above it, introduced by "Bug:"): a missing flush, a missing
restore, an index that is off by one, a cascade that is forgotten. With the mistaken form in place,
the run finds the property violated.

## 5. Proofs

Every run checks one instance; the theorems hold for all of them: for any number of requests,
projects, days, hours, backups or crashes. None of the properties is inductive, so every module has
invariants that are, made of named parts. They were checked by TLC on the instances of the runs
before they were proved. Every invariant and every action property of a passing run is a theorem, and
so are both refinements; only the liveness properties stay with TLC. All theorems about a module rest on the assumptions it states for its
constants and on nothing else:

| Assumption | Says | Why the code justifies it |
|---|---|---|
| `StoreAssumption` | a write uses `Mutate` or `Update`, not both | each handler calls one of them |
| `DocumentAssumption`, `ServiceAssumption` | years are positive, budgets, days and hours natural | the requests that set them reject anything else; hours are counted in the unit they are entered in |
| `FileAssumption` | the first data file was written by this program or an older version of it: ids occur once, entries have projects, an assignment occurs once per year, also after projects of an older version, without a fiscal year, have joined the active one | what the program writes, and what `Validate` checks. A file changed by hand is not covered: `load` does not validate |
| `SyncAssumption` | an unknown project is none of the known ones | - |
| `PlanningAssumption` | finitely many projects, one of them vacation; previews are limited by a positive number; from any day of a month, the history reaches back to the first day of the month's weeks | the 8 at `internal/web/month_ai.go:239`; `EnsureVacationProject`; a history of 84 days (`internal/forecast/month_ai.go:173`), where a month and the days of its first week before it are at most 37 |
| `CatalogAssumption` | a failure is kept for at least a tick and no longer than a catalog | fifteen seconds and five minutes (`internal/web/foundry.go:71-73`) |
| `RotationAssumption`, `MissingAssumption` | limit and number of backups are positive, no line is empty | the constants of `internal/logging`; `slog` ends each line with a newline |
| `FiguresAssumption` | fiscal years from 2000 to 2100, start months 1 to 12, finitely many projects; a request names no empty assignment | `MinYear` and `MaxYear` (`internal/models/models.go:22-23`), `NormMonth`; a project list is finite and a project its place in it; an empty assignment ID is refused (`internal/api/handlers.go:433`) |
| `DaysAssumption`, `ProjectsAssumption` | a week has finitely many days, counted from 1, some of which are no weekend; finitely many projects, in a list | `time.Weekday`; a project list is finite |
| `HistoryAssumption`, `WeeksAssumption` | finitely many past weeks, with positive weights; hours of past and planned weeks are not negative; full evidence takes at least one week | `internal/forecast/month_history.go`: twelve weeks, whose weights are powers of two; the requests that set hours refuse negative ones |

Bounds such as `MaxCrashes`, `MaxEdits`, `MaxLines` or `MaxFailures` are arbitrary naturals in the
theorems.

### `DocumentStoreProofs`

| Theorem | Establishes |
|---|---|
| `TypeCorrect` | `TypeOK` |
| `ControlCorrect` | who is inside `persist` holds the lock; an answered request is done |
| `NeverTorn` | `FileNeverTorn` |
| `RefusedLeavesNothing` | `RefusedMutateLeavesNothing` |
| `NoDirtyReads` | `NoDirtyRead` |
| `DivergenceExplained` | `DivergenceIsFailedUpdate` |
| `AcceptedIsKept` | `AcceptedIsInFile` |
| `StoreIsDurable` | `ImplementsDurableDocument`: the store refines its promise |

1. `ControlInv` makes the lock exclusive: at most one writer is between taking the lock and
   releasing it, and it is the lock's owner.
2. `FileInv` adds that what is about to be renamed is whole and synced. `NeverTorn` follows.
3. `TmpInv` says that the temporary file of the writer inside `persist` is the document in memory.
   With it, `CleanInv` says that an API write that is not inside `persist` and was not accepted has
   no edit in memory nor in any file, and `UndoInv` that the document the lock's owner would put
   back has none either, not even of that owner. This is the point where the old document, the
   lock and the steps of `persist` meet. `RefusedLeavesNothing` follows.
4. `ViewInv` carries the same over to the readers, who read only while nobody holds the lock.
5. `NoneIsEmpty` and `DivergenceInv` follow the difference between memory and file, which only
   `AfterFailure` of a form write creates.
6. `AcceptedInv` follows an accepted write from the rename to its answer and beyond: later writers
   start from a document that has it, and a rollback goes back to one that has it.
7. For the refinement, the rename is the instant of a write: `Commit` for an API write, `Save` for
   a form write, whose start was `Touch`. The abstract document that readers get is `Live`: memory,
   except while an API write is inside `persist`, when it is the document a rollback would put back,
   and except while the server is down, when it is the file. `CopyInv` says that memory is that
   document with the edits of the lock's owner, so that the rename adds both edits at once;
   `FreshInv` says that a form write that has not started is nowhere and one that is inside
   `persist` is in no file, so that an error is answered truthfully. A crash is `Restart`, a power
   loss `PowerFails`, every other step an answer, a look or a stutter. The step lemma (`DurableStep`)
   has one case per action of the store.

### `ForecastServiceProofs`

| Theorem | Establishes |
|---|---|
| `DocumentCorrect` | the inductive invariant |
| `TypeCorrect` | `TypeOK` |
| `OrphansCorrect` | `NoOrphanEntries` |
| `AssignmentsCorrect` | `AssignmentOncePerYear` |
| `VacationCorrect` | `ActiveVacationBudgetFollowsDays` |
| `NormalizingCorrect` | `NormalizeKeepsMeaning` |
| `SharedIdsCorrect` | `DuplicateIdsOnlyByMovedVacation` |

The invariant has a part for the document in memory (`MemoryInv`), for the one on disk (`DiskInv`)
and for the counts. In memory the document is `Good`, and `Synchronized` for its active year. `Good`
cannot contain "ids are unique": the API may move a vacation project to another year, after which
the year it left gets a second one with the same id. What is true instead, and what the proof of the
assignments needs, is `SharedIds`: projects with one id are vacation projects of different years. A
form that edits all projects of an id therefore changes one per year. `IssuedIds` says that `newID`
has not returned the next id yet, and `VacationIdsAreVacation` that an id made for the vacation of
a year was given to nothing else, so that `EnsureVacationProject` collides with no other project. On
disk the document is `Loadable`: good, or of an older version and good once its projects have their
year. The proof goes through the parts of `Normalize` one by one (`MigrateProjects`, the days,
`EnsureVacationProject`), then through the handlers, each of which makes a good document of a good
one (`StepKeeps`), valid or not.

For the batch (`SyncEntries`, whose own definitions are named `Sync...`), `IndexCorrect` proves
`IndexFindsLiveEntries` with `SyncTypeOK`, for batches and lists of any length. `LoopImplementsBook`
proves the refinement `ImplementsEntryBook`: the book an observer sees is, while the loop runs, the
hours of the entries not marked for removal, and afterwards those of the compacted list. Each handled
item is one step of `EntryBook`; the compaction is a stutter, because removing the marked positions
renumbers the others without a change of order (`Place`).

### `MonthPlanningProofs`

| Theorem | Establishes |
|---|---|
| `TypeCorrect` | `TypeOK`, and `SaveInv`: a preview that is being saved is kept |
| `GeneratingCorrect` | `OneGenerationAtATime` |
| `SavedOnceCorrect` | `PreviewSavedOnce` |
| `BoundCorrect` | `PreviewsBounded` |
| `SaveKeepsCorrect` | `SaveKeepsTheRest` |
| `PreviewSavedCorrect` | `PreviewIsWhatIsSaved` |
| `TotalsCorrect` | `SavePreservesWeekTotals` |

A token is published once, and once saved it is only there until its save removes it
(`TokenInv`); this rests on `monthAI.mu`, which a save holds from its check to its end (`SaveInv`).

A page was made from some document with the source of its preview (`ShownInv`), and a save only goes on
if its own document has that source, too. What two documents with one source have in common is
`SameSource`: the hours of the month, of vacation and of the days before today, which the source has
day by day; the sum of each day, which is what is immutable there for a neighbouring month; and the sum of
each project and week. Of a day before today it needs that the history reaches it (`ContextHistory`). Both
put the same plan in the place of the same bookings, so the page and the saved document have these hours
and sums in common (`PageIsSaved`). Nothing finer follows, and nothing finer is true.

For the week totals, a plan that is being saved is complete (`CompleteInv`): it places all hours of every
week and project. The days of the week and month are then split into those it replaces and those it
leaves; the sums over both (`DataLemmas`) give the old total.

### `FoundryCatalogProofs`

`CatalogCorrect` proves the invariant (`GateInv`, `DiscoveryInv`, `SigningInv`): who holds the gate is
the only one that discovers, stores or returns, and what was discovered behind the gate is what the
client trusts, so that the comparison of generations always succeeds there. `CacheCorrect` is
`CacheAgreesWithClient`; `SigningCorrect` and `FailureCorrect` are the action properties
`SignedOnlyForVerified` and `FailureIsCached`. `TypeCorrect` is `TypeOK`.

### `LogRotationProofs`

| Theorem | Establishes |
|---|---|
| `InvCorrect`, `TypeCorrect` | the inductive invariant and `TypeOK` |
| `SizeCorrect` | `SizeIsCounted` |
| `OrderCorrect`, `InOrderCorrect` | `LogInOrder` |
| `OldestGoCorrect` | `OnlyOldestLinesGo` |
| `LimitCorrect` | `WithinLimit` |

A line is pending just while a `Write` is under way (`PendingInv`), an open file is there and its
counted size is the sum of its lines (`OpenInv`), and files only hold numbers below the pending one
(`NumberInv`), so that an appended line is the newest. The chain is seen as one function from the age
of a file to its lines; a rename moves an entry of it by one age (`MoveKeepsOrder`), which keeps the
order whatever is overwritten. That nothing but the oldest goes needs more: as long as nothing has
failed, a rotation leaves a gap below the files it has moved (`FlawlessInv`), so that no rename
overwrites, also when a crash interrupts the rotation and the next one finds the gap again.

### `ForecastFiguresProofs`

| Theorem | Establishes |
|---|---|
| `TypeCorrect` | `TypeOK` |
| `AccuracyCorrect` | `AccuracyNeverGoesBack` |
| `StaleCorrect` | `StaleMeansAWeekEnded` |
| `CarryCorrect` | `CarriedBudgetIsLeftover` |
| `LinksCorrect` | `HorizonLinksWork` |
| `BurndownCorrect` | `BurndownMeetsTable` |
| `ViewsCorrect` | `ViewsAgree` |
| `TilesCorrect` | `TilesAgreeWithChart` |

`TypeOK` is the invariant of all of them. The calendar is proved about rather than assumed: a
fiscal year has 365 or 366 days (`YearLength`, from the leap-year arithmetic), touches 53 or 54 weeks
(`YearWeeks`), and its weeks end on its Sundays and its last day (`WeekEnds`); staleness compares
the numbers of weeks over at two dates. The carried budget compares the pooled hours of all years up
to the old one with those up to the year before it (`PoolsAdd`). A link of the dashboard moves by the
offset it shows, and that offset lies at most one span beside the way the span has gone
(`OffsetShown`): hence the next span begins no later than this one ends, also where the border of
the year cut the shift short.

The last three theorems need the calendar read backwards. `EraYear` and `MonthOfDay` show that the
divisions by which `Civil` finds the year of an era and the month of a year are exact; from there on
months are numbers (`MonthIndex`) and `MonthDay` is the first day of one. Every day lies in exactly one
month (`CivilMonth`, `OneMonth`), a month has 28 to 31 days (`MonthLength`), adding months keeps the
day and moves the number (`AddedMonths`), and a fiscal year is twelve numbers in a row (`YearMonths`).
So `FiscalYearOf`, which asks for the month of a day, and `FiscalYear`, which compares dates, agree
(`SameYear`), for every integer day and every start month.

* Burn-down: a window lies in the year (`WindowInYear`), and the padding by a month on either side puts
  each of its days into a week after the first and before or in the last one (`CurveWeeks`); so the
  first point burns nothing and the last one all that is counted (`CurveEnds`). What is not counted of
  the year's pool is what lies outside the window.
* Views: the hours of a year are added up by project, month, quarter, half-year, week or assignment;
  each of these is a sum over disjoint parts (`SumOfParts`, `EntriesByKey`), and what remains is that
  the parts cover the year: every entry of the year has a month of 0 to 11 (`MonthOfYear`) and a week of
  1 to 53 or 54, and no other entry has (`WeeksCover`); each assignment with a row of work has exactly
  one row that counts (`RowPerKey`).
* Tiles: on the first of a month, both the tile that looks back and the balancing period of the chart
  are the days of the same six numbered months (`TileBack`). The chart ends with the month of the last
  planned day, so that it holds every month with a plan (`ChartMonths`); those with hours are the months
  the tile looks at (`ChartedPlan`), because an entry always has hours (`HoursCount`).

### `MonthDistributionProofs`

| Theorem | Establishes |
|---|---|
| `TypeCorrect` | `TypeOK` |
| `LearnedCorrect` | the even habit of `AbsenceIsNoHabit`, in every state |
| `AbsenceCorrect` | `AbsenceIsNoHabit` |
| `HoursCorrect` | `HoursAreKept` |
| `PendingCorrect` | `PendingMeansFull` |
| `NarrowCorrect` | `NarrowWindowsFirst` |

The arithmetic comes first: Euclid's algorithm, a recursive function over the second number, is
defined for every pair and yields a greatest common divisor (`CommonDivisorIsGcd`), fractions in lowest
terms are equal exactly if the numbers are (`CoprimeUnique`), and cancelling before adding and
multiplying changes nothing; over a common denominator, sums and comparisons of fractions are those of
integers (`CommonNumerators`). Hence the laws the plan needs: an ordered field and sums over finite
sets.

`PlanShape` gives all quantities their type and says that every estimate is non-negative; it needs that
the shares of a pass are (`PassShares`). Hours: a pass takes from `left` exactly what it adds to
`estimated` and to `total` (`PassKeepsHours`), and what `PlanWeek` reads is what is stored, past days
included (`ReadKeepsHours`). That nothing is pending beside a day with room is not visible from the end
of a week alone: `FullSoFar` says that estimates are on open days and within their room
(`EstimatesFit`) and that there are always as many passes left as the project has days with room
(`PassesSuffice`), because a pass that leaves hours has filled a day (`PassFills`); so the passes end
with its hours or its days, and later projects only make the days fuller. `NarrowSoFar` says that who
waits has nothing, that who was given hours has no more days to choose from than those who wait, and
that the days a pending project found full were filled by projects with no more days than its own
(`PassIsNarrow`, `NextIsNarrow`).

The order of the candidates (`GoesFirst`) is stated as the comparisons of the code, each with the ties
it leaves to the next; while projects wait, there is a first one (`FirstLeads`).

### What is only model-checked

Liveness (`EveryWriteAnswered`, `GenerationEnds`, `EveryRequestEnds`): it rests on fairness and
`ENABLED`, which the provers do not handle. The proofs say nothing about `float64`, either: fractions
are exact, hours are whole tenths.

Induction over data is done without a predicate as a parameter: `DataLemmas` takes a least element
of a set of numbers from the library's theorem about well-founded relations, derives induction over
naturals and over the subsets of a finite set from it, and with these what `SumFunctionOnSet`, a
fold, yields: that any element may be taken first, that equal functions have equal sums, and that the
sum over sets that share nothing is the sum of their sums. Euclid's algorithm, a recursive function over pairs, exists because the function that chooses a
common divisor satisfies its equation; what it returns is shown for a least pair that would go wrong.

## 6. Not modelled

`PROJECT.json` lists every component with its reason. In short: rendering, translation, the sample document and the documentation site are functions of one snapshot or
build-time tools; authentication and the same-origin check decide each request by itself; the HTTP
exchanges with Azure and with the model are one step that succeeds or fails.

Hazards without a property are listed there with a note: midnight between reading the clock and
locking the store; thresholds of zero that come back as defaults; and a number that JSON cannot
encode. The last is in `DocumentStore` as an `Unencodable` write of a form, but that later writes
can be saved is claimed by no property, because it is not so until a restart.

Of what is modelled in part: labels and presentation of the views, the JSON bodies and limits of the
exchanges with the model, paging and redirects of the discovery, and single-field checks of the
document are left out, because no state of another part depends on them.

## 7. Plan

Done: the store, the document and its write requests, the batch, month planning with its page, the
catalog, the log, the local month plan and the figures, all with their proofs.

Next: the algorithms that are left, `mergeEntries` and the migration of thresholds.

## 8. Running it

    tlc -config StoreCrash.cfg DocumentStore
    tlc -config Service.cfg MCForecastService
    tlapm DocumentStoreProofs.tla        (and the other proof modules of section 5)

The other runs are listed in `PROJECT.json` with their module and configuration. Every run finishes
within three minutes on two cores.
