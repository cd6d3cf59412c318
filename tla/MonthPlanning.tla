---------------------------- MODULE MonthPlanning ----------------------------
(***************************************************************************)
(* AI planning of a month (internal/web/month_ai.go): a request asks the   *)
(* model for a new distribution of the month's hours and keeps the answer  *)
(* as a preview under a token; a later request saves the preview.  While   *)
(* the model thinks, and while the user reads, other requests change the   *)
(* document and time passes.                                               *)
(*                                                                         *)
(* A plan is made from a source: what monthSource takes from the document. *)
(* The code compares SHA-256 sums of it; here the sources themselves are   *)
(* compared.  Prompts and explanations are left out: they are part of no   *)
(* rule.                                                                   *)
(***************************************************************************)

EXTENDS Integers, FiniteSets, Functions

CONSTANTS
    Generators,    \* requests to generate; each also names its token
    Savers,        \* requests to save
    None,
    Projects,
    Vacation,      \* the vacation project
    LastDay,       \* days are 1 .. LastDay
    FiscalDays,    \* the days of the selected fiscal year
    Closed,        \* weekends and holidays
    MonthOf,       \* day -> month
    WeekOf,        \* day -> week
    HistoryLength, \* days of the history before today (7 * monthHistoryWeeks)
    FullDay,       \* HolidayDayHours: vacation of this size closes a day
    HourValues,    \* hours a day may hold
    Batches,       \* what a batch of entries may write, <<day, project>> -> hours
    Windows,       \* last bookable days a request may set
    FirstHours,    \* the hours of the first document, <<day, project>> -> hours
    TicksPerDay,
    TTL,           \* monthPreviewTTL
    MaxPreviews,   \* how many previews are kept (8)
    MaxClock,      \* bound: ticks
    MaxEdits,      \* bound: edits by other requests
    MaxRestarts    \* bound: restarts

Days == 1 .. LastDay
Slots == Days \X Projects
Months == {MonthOf[d] : d \in Days}
DaysOf(m) == {d \in Days : MonthOf[d] = m}
WeeksOf(m) == {WeekOf[d] : d \in DaysOf(m)}

ASSUME PlanningAssumption ==
    /\ IsFiniteSet(Projects) /\ Vacation \in Projects
    /\ LastDay \in Nat \ {0} /\ Closed \subseteq Days /\ FiscalDays \subseteq Days
    /\ DOMAIN MonthOf = Days /\ DOMAIN WeekOf = Days
    /\ HourValues \subseteq Nat /\ 0 \in HourValues
    /\ FirstHours \in [Slots -> HourValues]
    /\ \A b \in Batches : DOMAIN b \subseteq Slots /\ \A k \in DOMAIN b : b[k] \in HourValues
    /\ Windows \subseteq Days
    \* The history reaches back to the first week of a month: twelve weeks do.
    /\ HistoryLength \in Nat
    /\ \A m \in Months : \A d \in Days, e \in DaysOf(m) :
           WeekOf[d] \in WeeksOf(m) => e - d <= HistoryLength
    /\ TicksPerDay \in Nat \ {0}
    /\ TTL \in Nat
    /\ MaxPreviews \in Nat \ {0}
    /\ MaxClock \in Nat /\ MaxEdits \in Nat /\ MaxRestarts \in Nat
    /\ None \notin Generators \cup Savers
    /\ 1 + MaxClock \div TicksPerDay <= LastDay

VARIABLES
    hours,         \* entries of the document
    window,        \* the last bookable day of the projects
    clock,
    generating,    \* monthAI.generating
    gen,           \* the generate requests
    previews,      \* monthAI.previews
    mu,            \* who holds monthAI.mu across a step
    save,          \* the save requests
    shown,         \* the page each preview was shown on, until it is gone
    saves,         \* how often each token was saved
    edits,
    restarts

planVars == <<generating, gen, previews, mu, save>>
docVars == <<hours, window>>
boundVars == <<edits, restarts>>
pageVars == <<shown, saves>>
vars == <<docVars, clock, planVars, pageVars, boundVars>>

DayOf(now) == 1 + now \div TicksPerDay

-----------------------------------------------------------------------------
(***************************************************************************)
(* BuildMonthAIContext.  The days before today are history, kept day by    *)
(* day; of the other days of the weeks the month touches, only sums are:   *)
(* what is immutable on a day, and what a project has in a week.  A month  *)
(* lies in one fiscal year; a week that does not counts only the days that *)
(* do.                                                                     *)
(***************************************************************************)
WeekDays(m) == {d \in FiscalDays : WeekOf[d] \in WeeksOf(m)}
WeekSlots(m) == WeekDays(m) \X Projects
HistorySlots(today) == {d \in Days : d < today /\ today - d <= HistoryLength} \X Projects

DayTotal(f, S, d) == SumFunctionOnSet(f, {k \in S : k[1] = d})

WeekTotal(f, S, w, p) ==
    SumFunctionOnSet(f, {k \in S : WeekOf[k[1]] = w /\ k[2] = p})

\* A month of another fiscal year, or one that is over, cannot be planned.
Plannable(m, today) ==
    /\ DaysOf(m) \subseteq FiscalDays
    /\ \E d \in DaysOf(m) : d >= today

\* Bug: past days of the month are replaced, too.
EditableAlsoPast(ctx, k) == k[2] # Vacation /\ MonthOf[k[1]] = ctx.month /\ k[1] \in FiscalDays

\* Entries a plan replaces (monthAIRules.editable).
Editable(ctx, k) ==
    /\ k[2] # Vacation
    /\ MonthOf[k[1]] = ctx.month
    /\ k[1] >= ctx.today
    /\ k[1] \in FiscalDays

EditableSlots(ctx) == {k \in WeekSlots(ctx.month) : Editable(ctx, k)}
FixedSlots(ctx) == {k \in WeekSlots(ctx.month) : ~ Editable(ctx, k)}

\* The context of month m, at time now, of a document with the hours h and the
\* last bookable day last.
Context(h, last, m, now) ==
    LET rules == [month |-> m, today |-> DayOf(now)]
    IN  [month |-> m, today |-> DayOf(now), window |-> last,
         history |-> [k \in HistorySlots(DayOf(now)) |-> h[k]],
         days |-> [d \in WeekDays(m) |->
            [vacation |-> h[<<d, Vacation>>],
             immutable |-> DayTotal(h, FixedSlots(rules), d)]],
         weeks |-> [q \in WeeksOf(m) \X Projects |->
            [total |-> WeekTotal(h, WeekSlots(m), q[1], q[2]),
             editable |-> WeekTotal(h, EditableSlots(rules), q[1], q[2])]]]

\* What the revision of a preview is the sum of: the context and the entries
\* of the month itself, day by day.
monthSource(h, last, m, now) ==
    [context |-> Context(h, last, m, now), entries |-> [k \in DaysOf(m) \X Projects |-> h[k]]]

\* Where a plan may put hours; a full day of vacation closes the day.
Allowed(ctx, k) ==
    /\ Editable(ctx, k)
    /\ k[1] \notin Closed
    /\ k[1] <= ctx.window
    /\ ctx.days[k[1]].vacation < FullDay

AllowedSlots(ctx) == {k \in WeekSlots(ctx.month) : Allowed(ctx, k)}

\* What ValidateMonthAIPlan accepts: the editable hours of every project and
\* week, either all planned or, in part, reported as unallocated.
Plans(ctx) ==
    {f \in [AllowedSlots(ctx) -> HourValues] :
        \A w \in WeeksOf(ctx.month), p \in Projects :
            WeekTotal(f, DOMAIN f, w, p) <= ctx.weeks[<<w, p>>].editable}

Complete(ctx, f) ==
    \A w \in WeeksOf(ctx.month), p \in Projects :
        WeekTotal(f, DOMAIN f, w, p) = ctx.weeks[<<w, p>>].editable

\* ApplyMonthAIPlan: the editable entries go, the planned ones come.
Apply(ctx, f) ==
    [k \in Slots |->
        IF k \in DOMAIN f THEN f[k]
        ELSE IF Editable(ctx, k) THEN 0
        ELSE hours[k]]

-----------------------------------------------------------------------------
NoGen == [at |-> "idle"]
NoSave == [at |-> "idle"]
Done == [at |-> "done"]

InFlight(g) == gen[g].at \notin {"idle", "done"}

\* The domains of the variables.
TypeOK ==
    /\ hours \in [Slots -> HourValues]
    /\ window \in Days
    /\ clock \in 0 .. MaxClock
    /\ generating \in BOOLEAN
    /\ DOMAIN gen = Generators
    /\ \A g \in Generators :
        /\ gen[g].at \in {"idle", "asking", "checked", "leaving", "done"}
        /\ gen[g].at = "checked" => gen[g].plan \in Plans(gen[g].source.context)
    /\ DOMAIN previews \subseteq Generators
    /\ \A t \in DOMAIN previews :
        previews[t].created \in 0 .. clock /\ previews[t].plan \in Plans(previews[t].source.context)
    /\ mu \in Savers \cup {None}
    /\ save \in [Savers -> {NoSave} \cup
                    [at : {"saving", "saved"}, token : Generators, now : 0 .. MaxClock]]
    /\ DOMAIN shown = Generators /\ \A t \in Generators : DOMAIN shown[t] \subseteq Slots
    /\ saves \in [Generators -> Nat]
    /\ edits \in 0 .. MaxEdits
    /\ restarts \in 0 .. MaxRestarts

Init ==
    /\ hours = FirstHours
    /\ window = LastDay
    /\ clock = 0
    /\ generating = FALSE
    /\ gen = [g \in Generators |-> NoGen]
    /\ previews = <<>>
    /\ mu = None
    /\ save = [s \in Savers |-> NoSave]
    /\ shown = [t \in Generators |-> <<>>]
    /\ saves = [t \in Generators |-> 0]
    /\ edits = 0
    /\ restarts = 0

-----------------------------------------------------------------------------
(***************************************************************************)
(* handleMonthGenerate, up to and from the answer of the model.            *)
(***************************************************************************)

\* Bug: the flag is read and set, but not in one step.
NobodyGenerates == TRUE
MayGenerate == ~generating

\* A request that finds another one running is refused; so is one for a month
\* that is over.  The snapshot is taken after the flag.
StartGenerate(g, m) ==
    /\ gen[g].at = "idle"
    /\ MayGenerate
    /\ Plannable(m, DayOf(clock))
    /\ generating' = TRUE
    /\ gen' = [gen EXCEPT ![g] =
            [at |-> "asking", source |-> monthSource(hours, window, m, clock)]]
    /\ UNCHANGED <<docVars, clock, previews, mu, save, pageVars, boundVars>>

\* No AI configuration, prompts not saved, no answer in time, an answer that
\* is no valid plan.
GenerateFails(g) ==
    /\ gen[g].at = "asking"
    /\ gen' = [gen EXCEPT ![g] = [at |-> "leaving"]]
    /\ UNCHANGED <<docVars, clock, generating, previews, mu, save, pageVars, boundVars>>

\* Whether source is still that of its month for someone who reads the clock
\* as now: the revisions are equal.
Fresh(source, now) ==
    /\ Plannable(source.context.month, DayOf(now))
    /\ monthSource(hours, window, source.context.month, now) = source

\* A valid plan arrives; it is kept if its source is still the current one.
Answer(g) ==
    /\ gen[g].at = "asking"
    /\ IF Fresh(gen[g].source, clock)
       THEN \E f \in Plans(gen[g].source.context) :
                gen' = [gen EXCEPT ![g] = [at |-> "checked", source |-> @.source, plan |-> f]]
       ELSE gen' = [gen EXCEPT ![g] = [at |-> "leaving"]]
    /\ UNCHANGED <<docVars, clock, generating, previews, mu, save, pageVars, boundVars>>

Expired(t, now) == now - previews[t].created > TTL
Unexpired == {t \in DOMAIN previews : ~Expired(t, clock)}

\* Bug: one preview too many is kept.
KeptOneMore(S) ==
    IF Cardinality(S) <= MaxPreviews THEN {S}
    ELSE {S \ {t} : t \in {t \in S : \A u \in S : previews[t].created <= previews[u].created}}

\* What is left of the previews S before one is added: of equally old ones,
\* the order of the map decides.
Kept(S) ==
    IF Cardinality(S) < MaxPreviews THEN {S}
    ELSE {S \ {t} : t \in {t \in S : \A u \in S : previews[t].created <= previews[u].created}}

Publish(g) ==
    /\ gen[g].at = "checked"
    /\ mu = None
    /\ \E S \in Kept(Unexpired) :
        /\ previews' = [t \in S \cup {g} |->
            IF t = g THEN [source |-> gen[g].source, plan |-> gen[g].plan, created |-> clock]
            ELSE previews[t]]
        /\ shown' = [t \in Generators |-> IF t \in S THEN shown[t] ELSE <<>>]
    /\ gen' = [gen EXCEPT ![g] = [at |-> "leaving"]]
    /\ UNCHANGED <<docVars, clock, generating, mu, save, saves, boundVars>>

\* Bug: the flag is not reset when the handler returns.
LeaveGenerating(g) ==
    /\ gen[g].at = "leaving"
    /\ gen' = [gen EXCEPT ![g] = Done]
    /\ UNCHANGED <<docVars, clock, generating, previews, mu, save, pageVars, boundVars>>

\* The deferred reset of the flag, on every path out of the handler.
LeaveGenerate(g) ==
    /\ gen[g].at = "leaving"
    /\ generating' = FALSE
    /\ gen' = [gen EXCEPT ![g] = Done]
    /\ UNCHANGED <<docVars, clock, previews, mu, save, pageVars, boundVars>>

-----------------------------------------------------------------------------
(***************************************************************************)
(* handleMonth with a preview: the page shows the document as it is, with  *)
(* the hours of the plan in the place of those it replaces.                *)
(***************************************************************************)

\* Bug: the page leaves out what is booked in the month, past days included.
ReplacedAlsoPast(ctx, k) == k[2] # Vacation /\ MonthOf[k[1]] = ctx.month

\* Entries that are not shown: on days of the month from the day of the plan on.
ReplacedOnPage(ctx, k) == k[2] # Vacation /\ k[1] >= ctx.today /\ MonthOf[k[1]] = ctx.month

\* The rows of the page are the weeks of the month; days of another fiscal year
\* are empty.
previewMonthPlan(h, ctx, plan) ==
    [k \in WeekSlots(ctx.month) |->
        (IF ReplacedOnPage(ctx, k) THEN 0 ELSE h[k])
            + (IF k \in DOMAIN plan THEN plan[k] ELSE 0)]

\* A preview whose source has changed is not shown.  The page of a plan that
\* cannot be saved, and another look at the same plan, are left out.
ShowPreview(t) ==
    /\ mu = None
    /\ shown[t] = <<>>
    /\ t \in Unexpired
    /\ Complete(previews[t].source.context, previews[t].plan)
    /\ Fresh(previews[t].source, clock)
    /\ shown' = [shown EXCEPT ![t] =
            previewMonthPlan(hours, previews[t].source.context, previews[t].plan)]
    /\ UNCHANGED <<docVars, clock, planVars, saves, boundVars>>

-----------------------------------------------------------------------------
(***************************************************************************)
(* handleMonthSave.  It holds monthAI.mu from its first look at the        *)
(* previews to its end; the clock is read before the store is locked.      *)
(***************************************************************************)
OpenPreview(s, t) ==
    /\ save[s].at = "idle"
    /\ mu = None
    /\ t \in Unexpired
    /\ Complete(previews[t].source.context, previews[t].plan)
    /\ mu' = s
    /\ save' = [save EXCEPT ![s] = [at |-> "saving", token |-> t, now |-> clock]]
    /\ UNCHANGED <<docVars, clock, generating, gen, previews, pageVars, boundVars>>

\* Bug: the preview was compared with its source when it was made, and that
\* is taken to be enough.
SourceUnchecked(s) == TRUE
SourceUnchanged(s) == Fresh(previews[save[s].token].source, save[s].now)

\* The comparison and the change happen in one Mutate.
ApplyPlan(s) ==
    /\ save[s].at = "saving"
    /\ SourceUnchanged(s)
    /\ hours' = Apply(previews[save[s].token].source.context, previews[save[s].token].plan)
    /\ save' = [save EXCEPT ![s].at = "saved"]
    /\ saves' = [saves EXCEPT ![save[s].token] = @ + 1]
    /\ UNCHANGED <<window, clock, generating, gen, previews, mu, shown, boundVars>>

\* The source changed, or the document could not be persisted: the preview
\* stays, nothing else changes.
RefuseSave(s) ==
    /\ save[s].at = "saving"
    /\ mu' = None
    /\ save' = [save EXCEPT ![s] = NoSave]
    /\ UNCHANGED <<docVars, clock, generating, gen, previews, pageVars, boundVars>>

\* Bug: a saved preview is left for its TTL to remove.
PreviewKept(s) == previews
PreviewGone(s) == [t \in DOMAIN previews \ {save[s].token} |-> previews[t]]

FinishSave(s) ==
    /\ save[s].at = "saved"
    /\ previews' = PreviewGone(s)
    /\ shown' = [shown EXCEPT ![save[s].token] = <<>>]
    /\ mu' = None
    /\ save' = [save EXCEPT ![s] = NoSave]
    /\ UNCHANGED <<docVars, clock, generating, gen, saves, boundVars>>

-----------------------------------------------------------------------------
(***************************************************************************)
(* Everyone else: writes of other requests, time, and a restart, which     *)
(* keeps the document and forgets the previews.                            *)
(***************************************************************************)
EditHours(b) ==
    /\ edits < MaxEdits
    /\ edits' = edits + 1
    /\ hours' = [k \in Slots |-> IF k \in DOMAIN b THEN b[k] ELSE hours[k]]
    /\ UNCHANGED <<window, clock, planVars, pageVars, restarts>>

EditWindow(d) ==
    /\ edits < MaxEdits
    /\ edits' = edits + 1
    /\ window' = d
    /\ UNCHANGED <<hours, clock, planVars, pageVars, restarts>>

Tick ==
    /\ clock < MaxClock
    /\ clock' = clock + 1
    /\ UNCHANGED <<docVars, planVars, pageVars, boundVars>>

Restart ==
    /\ restarts < MaxRestarts
    /\ restarts' = restarts + 1
    /\ generating' = FALSE
    /\ gen' = [g \in Generators |-> IF InFlight(g) THEN Done ELSE gen[g]]
    /\ previews' = <<>>
    /\ shown' = [t \in Generators |-> <<>>]
    /\ mu' = None
    /\ save' = [s \in Savers |-> NoSave]
    /\ UNCHANGED <<docVars, clock, saves, edits>>

Next ==
    \/ \E g \in Generators, m \in Months : StartGenerate(g, m)
    \/ \E g \in Generators : GenerateFails(g)
    \/ \E g \in Generators : Answer(g)
    \/ \E g \in Generators : Publish(g)
    \/ \E g \in Generators : LeaveGenerate(g)
    \/ \E t \in Generators : ShowPreview(t)
    \/ \E s \in Savers, t \in Generators : OpenPreview(s, t)
    \/ \E s \in Savers : ApplyPlan(s)
    \/ \E s \in Savers : RefuseSave(s)
    \/ \E s \in Savers : FinishSave(s)
    \/ \E b \in Batches : EditHours(b)
    \/ \E d \in Windows : EditWindow(d)
    \/ Tick
    \/ Restart

Spec == Init /\ [][Next]_vars

\* A call to the model ends, with its timeout if with nothing else; a save goes
\* on, though it may be refused; and a Go mutex lets everyone who waits for it in
\* some day.  What can always fail is fair in this way only: an answer in time,
\* or an accepted save, is as good.
Fairness ==
    /\ \A g \in Generators :
        /\ WF_vars(GenerateFails(g))
        /\ SF_vars(Publish(g))
        /\ WF_vars(LeaveGenerate(g))
    /\ \A s \in Savers : WF_vars(RefuseSave(s)) /\ WF_vars(FinishSave(s))

LiveSpec == Spec /\ Fairness

-----------------------------------------------------------------------------
Saved(s) == save[s].at = "saving" /\ save'[s].at = "saved"
MonthOfSave(s) == previews[save[s].token].source.context.month

\* docs/FEATURES.md: "Project/week totals are preserved", whatever happened to
\* the document between the preview and its saving.
SavePreservesWeekTotals ==
    [][\A s \in Savers : Saved(s) =>
        \A d \in Days, p \in Projects :
            WeekTotal(hours', Slots, WeekOf[d], p) = WeekTotal(hours, Slots, WeekOf[d], p)]_vars

\* docs/FEATURES.md: "Past bookings, vacation and other months remain
\* unchanged".  Past is what was past when the save request read the clock.
SaveKeepsTheRest ==
    [][\A s \in Savers : Saved(s) =>
        \A k \in Slots :
            \/ k[1] < DayOf(save[s].now)
            \/ k[2] = Vacation
            \/ MonthOf[k[1]] # MonthOfSave(s)
            => hours'[k] = hours[k]]_vars

\* What is saved is what was shown: a user who looked at a preview, and saves it
\* then or after others have written, finds the hours of the page in the
\* document, day by day in the month, in vacation and in the past, and on the
\* later days of neighbouring months as the total of each day and as that of
\* each project and week.  Nothing finer holds there: two projects that change
\* places on such days leave the revision as it was.
PreviewIsWhatIsSaved ==
    [][\A s \in Savers : Saved(s) =>
        LET page == shown[save[s].token]
        IN  /\ \A k \in DOMAIN page :
                \/ MonthOf[k[1]] = MonthOfSave(s)
                \/ k[2] = Vacation
                \/ k[1] < DayOf(save[s].now)
                => hours'[k] = page[k]
            /\ \A d \in Days : DayTotal(hours', DOMAIN page, d) = DayTotal(page, DOMAIN page, d)
            /\ \A d \in Days, p \in Projects :
                WeekTotal(hours', DOMAIN page, WeekOf[d], p)
                    = WeekTotal(page, DOMAIN page, WeekOf[d], p)]_vars

\* A preview is saved at most once, also by a double click, a retry, or a
\* restart in the middle.
PreviewSavedOnce == \A t \in Generators : saves[t] <= 1

\* However many plans are generated and never saved, memory holds only so many.
PreviewsBounded == Cardinality(DOMAIN previews) <= MaxPreviews

\* The flag stands for exactly one request between its first and last step.
OneGenerationAtATime ==
    /\ generating <=> \E g \in Generators : InFlight(g)
    /\ \A g, h \in Generators : InFlight(g) /\ InFlight(h) => g = h

\* No failure leaves the flag set: planning becomes possible again.
GenerationEnds == generating ~> ~generating

=============================================================================
