-------------------------- MODULE MonthPlanningProofs --------------------------
(***************************************************************************)
(* Proofs about MonthPlanning, for any number of requests, any calendar    *)
(* and any hours, and for every limit of the previews.                     *)
(***************************************************************************)

EXTENDS MonthPlanning, DataLemmas, TLAPS

\* The plans are for the allowed days, hours of the document each.
LEMMA PlansAreHours ==
    ASSUME NEW ctx, NEW f \in Plans(ctx)
    PROVE  f \in [AllowedSlots(ctx) -> HourValues]
  BY DEF Plans

\* A plan applied to the document is a document.
LEMMA ApplyType ==
    ASSUME PlanningAssumption, hours \in [Slots -> HourValues], NEW ctx, NEW f \in Plans(ctx)
    PROVE  Apply(ctx, f) \in [Slots -> HourValues]
  BY PlansAreHours DEF Apply, PlanningAssumption

\* A preview that is being saved is kept: whoever would remove it waits for
\* monthAI.mu.
SaveInv ==
    \A s \in Savers : save[s].at # "idle" => mu = s /\ save[s].token \in DOMAIN previews

\* Type correctness: every variable of the planning keeps its type.  That the
\* saved hours are hours needs the preview to be there.
THEOREM TypeCorrect == Spec => [](TypeOK /\ SaveInv)
<1> USE PlanningAssumption DEF PlanningAssumption
<1>1. Init => TypeOK /\ SaveInv
  <2> SUFFICES ASSUME Init PROVE TypeOK /\ SaveInv
    OBVIOUS
  <2>1. window \in Days /\ 0 \in 0 .. MaxClock
    BY DEF Init, Days
  <2>2. DOMAIN gen = Generators /\ \A g \in Generators : gen[g].at = "idle"
    BY DEF Init, NoGen
  <2>3. DOMAIN previews = {} /\ DOMAIN shown = Generators /\ \A t \in Generators : DOMAIN shown[t] = {}
    BY DEF Init
  <2>4. SaveInv /\ save \in [Savers -> {NoSave}]
    BY DEF Init, SaveInv, NoSave
  <2>5. saves \in [Generators -> Nat] /\ edits \in 0 .. MaxEdits /\ restarts \in 0 .. MaxRestarts
    BY DEF Init
  <2>6. hours \in [Slots -> HourValues] /\ clock \in 0 .. MaxClock
        /\ generating \in BOOLEAN /\ mu \in Savers \cup {None}
    BY <2>1 DEF Init
  <2>7. QED
    BY <2>1, <2>2, <2>3, <2>4, <2>5, <2>6 DEF TypeOK
<1>2. TypeOK /\ SaveInv /\ [Next]_vars => TypeOK' /\ SaveInv'
  <2> SUFFICES ASSUME TypeOK, SaveInv, [Next]_vars PROVE TypeOK' /\ SaveInv'
    OBVIOUS
  <2> USE DEF TypeOK, SaveInv, docVars, planVars, pageVars, boundVars, NoSave, Done
  <2>1. ASSUME NEW g \in Generators, NEW m \in Months, StartGenerate(g, m) PROVE TypeOK' /\ SaveInv'
    BY <2>1 DEF StartGenerate
  <2>2. ASSUME NEW g \in Generators, GenerateFails(g) PROVE TypeOK' /\ SaveInv'
    BY <2>2 DEF GenerateFails
  <2>3. ASSUME NEW g \in Generators, Answer(g) PROVE TypeOK' /\ SaveInv'
    BY <2>3 DEF Answer
  <2>4. ASSUME NEW g \in Generators, Publish(g) PROVE TypeOK' /\ SaveInv'
    BY <2>4 DEF Publish, Kept, Unexpired
  <2>5. ASSUME NEW g \in Generators, LeaveGenerate(g) PROVE TypeOK' /\ SaveInv'
    BY <2>5 DEF LeaveGenerate
  <2>6. ASSUME NEW t \in Generators, ShowPreview(t) PROVE TypeOK' /\ SaveInv'
    <3>1. /\ UNCHANGED <<docVars, clock, planVars, saves, boundVars>>
          /\ \E c, f : shown' = [shown EXCEPT ![t] = previewMonthPlan(hours, c, f)]
      BY <2>6 DEF ShowPreview
    <3>2. \A c, f : DOMAIN previewMonthPlan(hours, c, f) \subseteq Slots
      BY DEF previewMonthPlan, WeekSlots, WeekDays, Slots
    <3>3. DOMAIN shown' = Generators /\ \A u \in Generators : DOMAIN shown'[u] \subseteq Slots
      BY <3>1, <3>2
    <3>4. QED
      BY <3>1, <3>3
  <2>7. ASSUME NEW s \in Savers, NEW t \in Generators, OpenPreview(s, t) PROVE TypeOK' /\ SaveInv'
    <3>1. save[s] = NoSave /\ \A x \in Savers : save[x] = NoSave
      BY <2>7 DEF OpenPreview
    <3>2. save' = [save EXCEPT ![s] = [at |-> "saving", token |-> t, now |-> clock]]
      BY <2>7 DEF OpenPreview
    <3>3. [at |-> "saving", token |-> t, now |-> clock]
              \in [at : {"saving", "saved"}, token : Generators, now : 0 .. MaxClock]
      OBVIOUS
    <3>4. SaveInv' /\ save' \in [Savers -> {NoSave} \cup
                    [at : {"saving", "saved"}, token : Generators, now : 0 .. MaxClock]]
      BY <2>7, <3>1, <3>2, <3>3 DEF OpenPreview, Unexpired
    <3>5. QED
      BY <2>7, <3>4 DEF OpenPreview
  <2>8. ASSUME NEW s \in Savers, ApplyPlan(s) PROVE TypeOK' /\ SaveInv'
    <3>1. save[s].token \in DOMAIN previews /\ save[s].token \in Generators /\ mu = s
      BY <2>8 DEF ApplyPlan
    <3>2. hours' \in [Slots -> HourValues]
      BY <2>8, <3>1, ApplyType DEF ApplyPlan
    <3>3. [save[s] EXCEPT !.at = "saved"]
              \in [at : {"saving", "saved"}, token : Generators, now : 0 .. MaxClock]
      BY <2>8 DEF ApplyPlan
    <3>4. SaveInv' /\ save' \in [Savers -> {NoSave} \cup
                    [at : {"saving", "saved"}, token : Generators, now : 0 .. MaxClock]]
      BY <2>8, <3>1, <3>3 DEF ApplyPlan
    <3>5. saves' \in [Generators -> Nat]
      BY <2>8, <3>1 DEF ApplyPlan
    <3>6. QED
      BY <2>8, <3>2, <3>4, <3>5 DEF ApplyPlan
  <2>9. ASSUME NEW s \in Savers, RefuseSave(s) PROVE TypeOK' /\ SaveInv'
    BY <2>9 DEF RefuseSave
  <2>10. ASSUME NEW s \in Savers, FinishSave(s) PROVE TypeOK' /\ SaveInv'
    BY <2>10 DEF FinishSave, PreviewGone
  <2>11. ASSUME NEW b \in Batches, EditHours(b) PROVE TypeOK' /\ SaveInv'
    BY <2>11 DEF EditHours
  <2>12. ASSUME NEW d \in Windows, EditWindow(d) PROVE TypeOK' /\ SaveInv'
    BY <2>12 DEF EditWindow
  <2>13. CASE Tick
    BY <2>13 DEF Tick
  <2>14. CASE Restart
    <3>1. DOMAIN gen' = Generators
          /\ \A g \in Generators : gen'[g] = Done \/ gen'[g] = gen[g]
      BY <2>14 DEF Restart
    <3>2. \A g \in Generators :
            /\ gen'[g].at \in {"idle", "asking", "checked", "leaving", "done"}
            /\ gen'[g].at = "checked" => gen'[g].plan \in Plans(gen'[g].source.context)
      BY <3>1
    <3>3. DOMAIN previews' = {} /\ \A t \in Generators : shown'[t] = <<>> /\ DOMAIN shown'[t] = {}
      BY <2>14 DEF Restart
    <3>4. SaveInv' /\ save' \in [Savers -> {NoSave}]
      BY <2>14 DEF Restart
    <3>5. DOMAIN shown' = Generators /\ restarts' \in 0 .. MaxRestarts /\ mu' = None /\ ~generating'
      BY <2>14 DEF Restart
    <3>6. UNCHANGED <<hours, window, clock, saves, edits>> /\ generating' \in BOOLEAN
      BY <2>14 DEF Restart
    <3>7. QED
      BY <3>1, <3>2, <3>3, <3>4, <3>5, <3>6
  <2>15. CASE UNCHANGED vars
    BY <2>15 DEF vars
  <2>16. QED
    BY <2>1, <2>2, <2>3, <2>4, <2>5, <2>6, <2>7, <2>8, <2>9, <2>10, <2>11, <2>12, <2>13,
       <2>14, <2>15 DEF Next
<1>3. QED
  BY <1>1, <1>2, PTL DEF Spec

-----------------------------------------------------------------------------
\* The steps that leave the generate requests alone.
LEMMA OtherSteps ==
    ASSUME \/ \E t \in Generators : ShowPreview(t)
           \/ \E s \in Savers, t \in Generators : OpenPreview(s, t)
           \/ \E s \in Savers : ApplyPlan(s) \/ RefuseSave(s) \/ FinishSave(s)
           \/ \E b \in Batches : EditHours(b)
           \/ \E d \in Windows : EditWindow(d)
           \/ Tick
           \/ UNCHANGED vars
    PROVE  UNCHANGED <<generating, gen>>
  BY DEF ShowPreview, OpenPreview, ApplyPlan, RefuseSave, FinishSave, EditHours, EditWindow,
         Tick, vars, planVars

\* The flag of a running generation stands for exactly one request.
THEOREM GeneratingCorrect == Spec => []OneGenerationAtATime
<1>1. Init => OneGenerationAtATime
  BY DEF Init, OneGenerationAtATime, InFlight, NoGen
<1>2. TypeOK /\ OneGenerationAtATime /\ [Next]_vars => OneGenerationAtATime'
  <2> SUFFICES ASSUME TypeOK, OneGenerationAtATime, [Next]_vars PROVE OneGenerationAtATime'
    OBVIOUS
  <2> USE DEF TypeOK, OneGenerationAtATime, InFlight, Done
  <2>1. ASSUME NEW g \in Generators, NEW m \in Months, StartGenerate(g, m)
        PROVE  OneGenerationAtATime'
    BY <2>1 DEF StartGenerate, MayGenerate
  <2>2. ASSUME NEW g \in Generators, GenerateFails(g) PROVE OneGenerationAtATime'
    BY <2>2 DEF GenerateFails
  <2>3. ASSUME NEW g \in Generators, Answer(g) PROVE OneGenerationAtATime'
    <3>1. generating' = generating /\ InFlight(g) /\ InFlight(g)'
          /\ \A h \in Generators \ {g} : gen'[h] = gen[h]
      BY <2>3 DEF Answer
    <3>2. QED
      BY <3>1
  <2>4. ASSUME NEW g \in Generators, Publish(g) PROVE OneGenerationAtATime'
    BY <2>4 DEF Publish
  <2>5. ASSUME NEW g \in Generators, LeaveGenerate(g) PROVE OneGenerationAtATime'
    BY <2>5 DEF LeaveGenerate
  <2>6. CASE Restart
    BY <2>6 DEF Restart
  <2>7. CASE UNCHANGED <<generating, gen>>
    BY <2>7
  <2>8. QED
    BY <2>1, <2>2, <2>3, <2>4, <2>5, <2>6, <2>7, OtherSteps DEF Next
<1>3. QED
  BY TypeCorrect, <1>1, <1>2, PTL DEF Spec

-----------------------------------------------------------------------------
(***************************************************************************)
(* A token is saved once: its preview is published once, and once it was   *)
(* saved it is only there until the request that saved it removes it.      *)
(***************************************************************************)
TokenInv ==
    \A t \in Generators :
        /\ saves[t] <= 1
        /\ gen[t].at \in {"idle", "asking", "checked"} => t \notin DOMAIN previews /\ saves[t] = 0
        /\ t \in DOMAIN previews /\ saves[t] # 0 =>
               \E s \in Savers : save[s].at = "saved" /\ save[s].token = t

\* No preview is saved twice, whatever is repeated, raced or restarted.
THEOREM SavedOnceCorrect == Spec => [](TokenInv /\ PreviewSavedOnce)
<1>1. Init => TokenInv
  BY DEF Init, TokenInv
<1>2. TypeOK /\ SaveInv /\ TokenInv /\ [Next]_vars => TokenInv'
  <2> SUFFICES ASSUME TypeOK, SaveInv, TokenInv, [Next]_vars PROVE TokenInv'
    OBVIOUS
  <2> USE PlanningAssumption DEF PlanningAssumption, TypeOK, SaveInv, TokenInv,
                                 docVars, planVars, pageVars, boundVars, NoSave, Done
  <2>1. ASSUME NEW g \in Generators, NEW m \in Months, StartGenerate(g, m) PROVE TokenInv'
    BY <2>1 DEF StartGenerate
  <2>2. ASSUME NEW g \in Generators, GenerateFails(g) PROVE TokenInv'
    BY <2>2 DEF GenerateFails
  <2>3. ASSUME NEW g \in Generators, Answer(g) PROVE TokenInv'
    <3>1. UNCHANGED <<previews, save, saves>> /\ gen[g].at = "asking"
          /\ \A h \in Generators \ {g} : gen'[h] = gen[h]
      BY <2>3 DEF Answer
    <3>2. QED
      BY <3>1
  <2>4. ASSUME NEW g \in Generators, Publish(g) PROVE TokenInv'
    <3>1. UNCHANGED <<save, saves>> /\ gen[g].at = "checked" /\ gen'[g].at = "leaving"
          /\ \A h \in Generators \ {g} : gen'[h] = gen[h]
      BY <2>4 DEF Publish
    <3>2. DOMAIN previews' \subseteq DOMAIN previews \cup {g}
      BY <2>4 DEF Publish, Kept, Unexpired
    <3>3. QED
      BY <3>1, <3>2
  <2>5. ASSUME NEW g \in Generators, LeaveGenerate(g) PROVE TokenInv'
    BY <2>5 DEF LeaveGenerate
  <2>6. ASSUME NEW t \in Generators, ShowPreview(t) PROVE TokenInv'
    BY <2>6 DEF ShowPreview
  <2>7. ASSUME NEW s \in Savers, NEW t \in Generators, OpenPreview(s, t) PROVE TokenInv'
    BY <2>7 DEF OpenPreview
  <2>8. ASSUME NEW s \in Savers, ApplyPlan(s) PROVE TokenInv'
    <3>1. PICK t \in Generators : t = save[s].token
      BY <2>8 DEF ApplyPlan
    <3>2. saves[t] = 0 /\ t \in DOMAIN previews
      BY <2>8, <3>1 DEF ApplyPlan
    <3>3. save'[s].at = "saved" /\ save'[s].token = t
      BY <2>8, <3>1 DEF ApplyPlan
    <3>4. saves'[t] = 1 /\ \A u \in Generators \ {t} : saves'[u] = saves[u]
      BY <2>8, <3>1, <3>2 DEF ApplyPlan
    <3>5. UNCHANGED <<gen, previews>> /\ \A x \in Savers \ {s} : save'[x] = save[x]
      BY <2>8 DEF ApplyPlan
    <3>6. QED
      BY <2>8, <3>1, <3>2, <3>3, <3>4, <3>5 DEF ApplyPlan
  <2>9. ASSUME NEW s \in Savers, RefuseSave(s) PROVE TokenInv'
    BY <2>9 DEF RefuseSave
  <2>10. ASSUME NEW s \in Savers, FinishSave(s) PROVE TokenInv'
    BY <2>10 DEF FinishSave, PreviewGone
  <2>11. ASSUME NEW b \in Batches, EditHours(b) PROVE TokenInv'
    BY <2>11 DEF EditHours
  <2>12. ASSUME NEW d \in Windows, EditWindow(d) PROVE TokenInv'
    BY <2>12 DEF EditWindow
  <2>13. CASE Tick
    BY <2>13 DEF Tick
  <2>14. CASE Restart
    <3>1. DOMAIN previews' = {} /\ saves' = saves
          /\ \A g \in Generators : gen'[g] = Done \/ gen'[g] = gen[g]
      BY <2>14 DEF Restart
    <3>2. QED
      BY <3>1
  <2>15. CASE UNCHANGED vars
    BY <2>15 DEF vars
  <2>16. QED
    BY <2>1, <2>2, <2>3, <2>4, <2>5, <2>6, <2>7, <2>8, <2>9, <2>10, <2>11, <2>12, <2>13,
       <2>14, <2>15 DEF Next
<1>3. TokenInv => PreviewSavedOnce
  BY DEF TokenInv, PreviewSavedOnce
<1>4. QED
  BY TypeCorrect, <1>1, <1>2, <1>3, PTL DEF Spec

-----------------------------------------------------------------------------
(***************************************************************************)
(* The previews are a finite set within the limit.                         *)
(***************************************************************************)
BoundInv == IsFiniteSet(DOMAIN previews) /\ PreviewsBounded

\* Making room leaves at most one preview less than the limit.
LEMMA RoomForOne ==
    ASSUME PlanningAssumption, NEW U, IsFiniteSet(U), Cardinality(U) <= MaxPreviews, NEW S \in Kept(U)
    PROVE  IsFiniteSet(S) /\ Cardinality(S) + 1 <= MaxPreviews
<1> USE DEF PlanningAssumption
<1>1. Cardinality(U) \in Nat
  BY FS_CardinalityType
<1>2. CASE Cardinality(U) < MaxPreviews
  BY <1>1, <1>2 DEF Kept
<1>3. CASE ~(Cardinality(U) < MaxPreviews)
  <2>1. PICK t \in U : S = U \ {t}
    BY <1>3 DEF Kept
  <2>2. IsFiniteSet(S) /\ Cardinality(S) = Cardinality(U) - 1
    BY <2>1, FS_RemoveElement
  <2>3. QED
    BY <1>1, <2>2
<1>4. QED
  BY <1>2, <1>3

\* Memory never holds more previews than the limit.
THEOREM BoundCorrect == Spec => [](BoundInv /\ PreviewsBounded)
<1> USE PlanningAssumption DEF BoundInv, PreviewsBounded
<1>1. Init => BoundInv
  <2>1. Init => DOMAIN previews = {}
    BY DEF Init
  <2>2. QED
    BY <2>1, FS_EmptySet DEF PlanningAssumption
<1>2. TypeOK /\ BoundInv /\ [Next]_vars => BoundInv'
  <2> SUFFICES ASSUME TypeOK, BoundInv, [Next]_vars PROVE BoundInv'
    OBVIOUS
  <2>1. ASSUME NEW g \in Generators, Publish(g) PROVE BoundInv'
    <3>1. IsFiniteSet(Unexpired) /\ Cardinality(Unexpired) <= MaxPreviews
      <4>1. Unexpired \subseteq DOMAIN previews
        BY DEF Unexpired
      <4>2. IsFiniteSet(Unexpired) /\ Cardinality(Unexpired) <= Cardinality(DOMAIN previews)
        BY <4>1, FS_Subset
      <4>3. Cardinality(Unexpired) \in Nat /\ Cardinality(DOMAIN previews) \in Nat
        BY <4>2, FS_CardinalityType
      <4>4. QED
        BY <4>2, <4>3 DEF PlanningAssumption
    <3>2. PICK S \in Kept(Unexpired) : DOMAIN previews' = S \cup {g}
      BY <2>1 DEF Publish
    <3>3. IsFiniteSet(S) /\ Cardinality(S) + 1 <= MaxPreviews
      BY <3>1, <3>2, RoomForOne
    <3>4. IsFiniteSet(S \cup {g})
          /\ (Cardinality(S \cup {g}) = Cardinality(S) \/ Cardinality(S \cup {g}) = Cardinality(S) + 1)
      BY <3>3, FS_AddElement
    <3>5. Cardinality(S) \in Nat
      BY <3>3, FS_CardinalityType
    <3>6. QED
      BY <3>2, <3>3, <3>4, <3>5 DEF PlanningAssumption
  <2>2. ASSUME NEW s \in Savers, FinishSave(s) PROVE BoundInv'
    <3>1. DOMAIN previews' \subseteq DOMAIN previews
      BY <2>2 DEF FinishSave, PreviewGone
    <3>2. IsFiniteSet(DOMAIN previews') /\ Cardinality(DOMAIN previews') <= Cardinality(DOMAIN previews)
      BY <3>1, FS_Subset
    <3>3. Cardinality(DOMAIN previews') \in Nat /\ Cardinality(DOMAIN previews) \in Nat
      BY <3>2, FS_CardinalityType
    <3>4. QED
      BY <3>2, <3>3 DEF PlanningAssumption
  <2>3. CASE Restart
    <3>1. DOMAIN previews' = {}
      BY <2>3 DEF Restart
    <3>2. QED
      BY <3>1, FS_EmptySet DEF PlanningAssumption
  <2>4. CASE UNCHANGED previews
    BY <2>4
  <2>5. QED
    BY <2>1, <2>2, <2>3, <2>4 DEF Next, StartGenerate, GenerateFails, Answer, LeaveGenerate,
       ShowPreview, OpenPreview, ApplyPlan, RefuseSave, EditHours, EditWindow, Tick, vars, planVars
<1>3. QED
  BY TypeCorrect, <1>1, <1>2, PTL DEF Spec

-----------------------------------------------------------------------------
(***************************************************************************)
(* A page was made from a document whose source is that of its preview.    *)
(***************************************************************************)
ShownInv ==
    \A t \in Generators : DOMAIN shown[t] # {} =>
        /\ t \in DOMAIN previews
        /\ \E h \in [Slots -> HourValues], last \in Days, now \in 0 .. MaxClock :
            /\ previews[t].source = monthSource(h, last, previews[t].source.context.month, now)
            /\ shown[t] = previewMonthPlan(h, previews[t].source.context, previews[t].plan)

\* A page says what its preview says of the document it was made for.
THEOREM ShownCorrect == Spec => []ShownInv
<1>1. Init => ShownInv
  BY DEF Init, ShownInv
<1>2. TypeOK /\ SaveInv /\ TokenInv /\ ShownInv /\ [Next]_vars => ShownInv'
  <2> SUFFICES ASSUME TypeOK, SaveInv, TokenInv, ShownInv, [Next]_vars PROVE ShownInv'
    OBVIOUS
  <2> USE DEF TypeOK, ShownInv
  <2>1. ASSUME NEW g \in Generators, Publish(g) PROVE ShownInv'
    <3>1. g \notin DOMAIN previews
      BY <2>1 DEF Publish, TokenInv
    <3>2. PICK S \in Kept(Unexpired) :
            /\ previews' = [t \in S \cup {g} |->
                  IF t = g THEN [source |-> gen[g].source, plan |-> gen[g].plan, created |-> clock]
                  ELSE previews[t]]
            /\ shown' = [t \in Generators |-> IF t \in S THEN shown[t] ELSE <<>>]
      BY <2>1 DEF Publish
    <3>3. S \subseteq DOMAIN previews
      BY DEF Kept, Unexpired
    <3>4. ASSUME NEW t \in Generators, t \notin S PROVE DOMAIN shown'[t] = {}
      BY <3>2, <3>4
    <3>5. ASSUME NEW t \in S
          PROVE  shown'[t] = shown[t] /\ previews'[t] = previews[t] /\ t \in DOMAIN previews'
      BY <3>1, <3>2, <3>3
    <3>6. QED
      BY <3>4, <3>5
  <2>2. ASSUME NEW t \in Generators, ShowPreview(t) PROVE ShownInv'
    <3>1. Fresh(previews[t].source, clock) /\ t \in DOMAIN previews
      BY <2>2 DEF ShowPreview, Unexpired
    <3>2. shown'[t] = previewMonthPlan(hours, previews[t].source.context, previews[t].plan)
      BY <2>2 DEF ShowPreview
    <3>3. previews[t].source = monthSource(hours, window, previews[t].source.context.month, clock)
      BY <3>1 DEF Fresh
    <3>4. \A u \in Generators \ {t} : shown'[u] = shown[u]
      BY <2>2 DEF ShowPreview
    <3>5. previews' = previews
      BY <2>2 DEF ShowPreview, planVars
    <3>6. QED
      BY <3>1, <3>2, <3>3, <3>4, <3>5
  <2>3. ASSUME NEW s \in Savers, FinishSave(s) PROVE ShownInv'
    <3>1. PICK t : t = save[s].token
      OBVIOUS
    <3>2. /\ previews' = [u \in DOMAIN previews \ {t} |-> previews[u]]
          /\ shown' = [shown EXCEPT ![t] = <<>>]
      BY <2>3, <3>1 DEF FinishSave, PreviewGone
    <3>3. ASSUME NEW u \in Generators \ {t}
          PROVE  shown'[u] = shown[u] /\ (u \in DOMAIN previews =>
                     previews'[u] = previews[u] /\ u \in DOMAIN previews')
      BY <3>2
    <3>4. t \in Generators => DOMAIN shown'[t] = {}
      BY <3>2
    <3>5. QED
      BY <3>3, <3>4
  <2>4. CASE Restart
    <3>1. \A t \in Generators : DOMAIN shown'[t] = {}
      BY <2>4 DEF Restart
    <3>2. QED
      BY <3>1
  <2>5. CASE UNCHANGED <<previews, shown>>
    BY <2>5
  <2>6. QED
    BY <2>1, <2>2, <2>3, <2>4, <2>5 DEF Next, StartGenerate, GenerateFails, Answer, LeaveGenerate,
       OpenPreview, ApplyPlan, RefuseSave, EditHours, EditWindow, Tick, vars, planVars, pageVars
<1>3. QED
  BY TypeCorrect, SavedOnceCorrect, <1>1, <1>2, PTL DEF Spec

-----------------------------------------------------------------------------
(***************************************************************************)
(* What a source says of the document it was taken from.                   *)
(***************************************************************************)

\* What a plan may replace depends on its month and its day.
LEMMA SameRules ==
    ASSUME NEW c, NEW e, c.month = e.month, c.today = e.today
    PROVE  EditableSlots(c) = EditableSlots(e) /\ FixedSlots(c) = FixedSlots(e)
  BY DEF EditableSlots, FixedSlots, Editable

\* A context holds the rules of a plan.
LEMMA ContextRules ==
    ASSUME NEW h, NEW last, NEW m, NEW now
    PROVE  /\ Context(h, last, m, now).month = m
           /\ Context(h, last, m, now).today = DayOf(now)
  BY DEF Context

\* A context holds the days before today.
LEMMA ContextHistory ==
    ASSUME NEW h, NEW last, NEW m, NEW now, NEW k \in HistorySlots(DayOf(now))
    PROVE  Context(h, last, m, now).history[k] = h[k]
  BY DEF Context

\* A context holds the vacation of a day.
LEMMA ContextVacation ==
    ASSUME NEW h, NEW last, NEW m, NEW now, NEW d \in WeekDays(m)
    PROVE  Context(h, last, m, now).days[d].vacation = h[<<d, Vacation>>]
  BY DEF Context

\* A context holds the sum of what a plan cannot replace on a day.
LEMMA ContextDays ==
    ASSUME NEW h, NEW last, NEW m, NEW now, NEW d \in WeekDays(m)
    PROVE  Context(h, last, m, now).days[d].immutable
               = DayTotal(h, FixedSlots(Context(h, last, m, now)), d)
<1>1. PICK rules : rules = [month |-> m, today |-> DayOf(now)]
  OBVIOUS
<1>2. FixedSlots(rules) = FixedSlots(Context(h, last, m, now))
  BY <1>1, ContextRules, SameRules
<1>3. Context(h, last, m, now).days[d]
          = [vacation |-> h[<<d, Vacation>>], immutable |-> DayTotal(h, FixedSlots(rules), d)]
  BY <1>1 DEF Context
<1> QED
  BY <1>2, <1>3

\* A context holds the sums of a project in a week: all of it, and what a plan
\* replaces.
LEMMA ContextWeeks ==
    ASSUME NEW h, NEW last, NEW m, NEW now, NEW w \in WeeksOf(m), NEW p \in Projects
    PROVE  /\ Context(h, last, m, now).weeks[<<w, p>>].total = WeekTotal(h, WeekSlots(m), w, p)
           /\ Context(h, last, m, now).weeks[<<w, p>>].editable
                = WeekTotal(h, EditableSlots(Context(h, last, m, now)), w, p)
<1>1. PICK rules : rules = [month |-> m, today |-> DayOf(now)]
  OBVIOUS
<1>2. EditableSlots(rules) = EditableSlots(Context(h, last, m, now))
  BY <1>1, ContextRules, SameRules
<1>3. PICK weeks : weeks = [q \in WeeksOf(m) \X Projects |->
            [total |-> WeekTotal(h, WeekSlots(m), q[1], q[2]),
             editable |-> WeekTotal(h, EditableSlots(rules), q[1], q[2])]]
  OBVIOUS
<1>4. Context(h, last, m, now).weeks = weeks
  BY <1>1, <1>3 DEF Context
<1>5. weeks[<<w, p>>] = [total |-> WeekTotal(h, WeekSlots(m), w, p),
                         editable |-> WeekTotal(h, EditableSlots(rules), w, p)]
  BY <1>3
<1> QED
  BY <1>2, <1>4, <1>5

\* The document has the context of a source that is fresh.
LEMMA FreshContext ==
    ASSUME NEW source, NEW now, Fresh(source, now)
    PROVE  /\ source = monthSource(hours, window, source.context.month, now)
           /\ source.context = Context(hours, window, source.context.month, now)
           /\ source.context.today = DayOf(now)
<1>1. source = monthSource(hours, window, source.context.month, now)
  BY DEF Fresh
<1>2. source.context = Context(hours, window, source.context.month, now)
  BY <1>1 DEF monthSource
<1>3. Context(hours, window, source.context.month, now).today = DayOf(now)
  BY ContextRules
<1> QED
  BY <1>1, <1>2, <1>3

\* Two documents of the same source have the same hours in the month, in
\* vacation and in the past; on other days, the same total of what a plan cannot
\* replace; and in a week, the same total of every project.
LEMMA SameSource ==
    ASSUME PlanningAssumption, NEW h, NEW last, NEW then, NEW source, NEW now, NEW ctx, NEW m,
           ctx = source.context, m = ctx.month,
           source = monthSource(h, last, m, then), Fresh(source, now), DayOf(now) \in Int
    PROVE  /\ \A k \in WeekSlots(m) :
                MonthOf[k[1]] = m \/ k[2] = Vacation \/ k[1] < ctx.today => h[k] = hours[k]
           /\ \A d \in WeekDays(m) :
                DayTotal(h, FixedSlots(ctx), d)
                    = DayTotal(hours, FixedSlots(ctx), d)
           /\ \A w \in WeeksOf(m), p \in Projects :
                WeekTotal(h, WeekSlots(m), w, p) = WeekTotal(hours, WeekSlots(m), w, p)
<1>1. source = monthSource(hours, window, m, now) /\ Plannable(m, DayOf(now))
  BY DEF Fresh
<1>2. /\ ctx = Context(h, last, m, then)
      /\ source.entries = [k \in DaysOf(m) \X Projects |-> h[k]]
  BY DEF monthSource
<1>3. /\ ctx = Context(hours, window, m, now)
      /\ source.entries = [k \in DaysOf(m) \X Projects |-> hours[k]]
  BY <1>1 DEF monthSource
<1>4. ctx.today = DayOf(now) /\ DayOf(then) = DayOf(now)
  BY <1>2, <1>3, ContextRules
<1>5. ASSUME NEW k \in WeekSlots(m), MonthOf[k[1]] = m PROVE h[k] = hours[k]
  <2>1. k \in DaysOf(m) \X Projects
    BY <1>5 DEF WeekSlots, WeekDays, DaysOf, PlanningAssumption
  <2> QED
    BY <1>2, <1>3, <2>1
<1>6. ASSUME NEW k \in WeekSlots(m), k[2] = Vacation PROVE h[k] = hours[k]
  <2>1. k[1] \in WeekDays(m) /\ k = <<k[1], Vacation>>
    BY <1>6 DEF WeekSlots
  <2>2. ctx.days[k[1]].vacation = h[<<k[1], Vacation>>]
    BY <1>2, <2>1, ContextVacation
  <2>3. ctx.days[k[1]].vacation = hours[<<k[1], Vacation>>]
    BY <1>3, <2>1, ContextVacation
  <2> QED
    BY <2>1, <2>2, <2>3
<1>7. ASSUME NEW k \in WeekSlots(m), k[1] < ctx.today PROVE h[k] = hours[k]
  <2>1. k[1] \in Days /\ k[2] \in Projects /\ WeekOf[k[1]] \in WeeksOf(m) /\ k = <<k[1], k[2]>>
    BY DEF WeekSlots, WeekDays, PlanningAssumption
  <2>2. PICK e \in DaysOf(m) : e >= DayOf(now)
    BY <1>1 DEF Plannable
  <2>3. e \in Days /\ m \in Months
    BY <2>2 DEF DaysOf, Months
  <2>4. e - k[1] <= HistoryLength
    BY <2>1, <2>2, <2>3 DEF PlanningAssumption
  <2>5. DayOf(now) - k[1] <= HistoryLength
    BY <2>1, <2>2, <2>3, <2>4 DEF Days, PlanningAssumption
  <2>6. k \in HistorySlots(DayOf(now))
    BY <1>4, <1>7, <2>1, <2>5 DEF HistorySlots
  <2>7. ctx.history[k] = h[k] /\ ctx.history[k] = hours[k]
    BY <1>2, <1>3, <1>4, <2>6, ContextHistory
  <2> QED
    BY <2>7
<1>8. ASSUME NEW d \in WeekDays(m)
      PROVE  DayTotal(h, FixedSlots(ctx), d)
                 = DayTotal(hours, FixedSlots(ctx), d)
  <2>1. Context(h, last, m, then).days[d].immutable
            = DayTotal(h, FixedSlots(Context(h, last, m, then)), d)
    BY ContextDays
  <2>2. Context(hours, window, m, now).days[d].immutable
            = DayTotal(hours, FixedSlots(Context(hours, window, m, now)), d)
    BY ContextDays
  <2>3. ctx = Context(h, last, m, then) /\ ctx = Context(hours, window, m, now)
    BY <1>2, <1>3
  <2> QED
    BY <2>1, <2>2, <2>3
<1>9. ASSUME NEW w \in WeeksOf(m), NEW p \in Projects
      PROVE  WeekTotal(h, WeekSlots(m), w, p) = WeekTotal(hours, WeekSlots(m), w, p)
  <2>1. ctx.weeks[<<w, p>>].total = WeekTotal(h, WeekSlots(m), w, p)
    BY <1>2, ContextWeeks
  <2>2. ctx.weeks[<<w, p>>].total = WeekTotal(hours, WeekSlots(m), w, p)
    BY <1>3, ContextWeeks
  <2> QED
    BY <2>1, <2>2
<1> QED
  BY <1>5, <1>6, <1>7, <1>8, <1>9

\* Weeks of the calendar are finitely many hours of the document.
LEMMA WeekSlotsFinite ==
    ASSUME PlanningAssumption, NEW m
    PROVE  WeekSlots(m) \subseteq Slots /\ IsFiniteSet(WeekSlots(m)) /\ IsFiniteSet(Slots)
<1>1. IsFiniteSet(Days)
  BY FS_Interval DEF Days, PlanningAssumption
<1>2. IsFiniteSet(Slots)
  BY <1>1, FS_Product DEF Slots, PlanningAssumption
<1>3. WeekSlots(m) \subseteq Slots
  BY DEF WeekSlots, WeekDays, Slots, PlanningAssumption
<1> QED
  BY <1>2, <1>3, FS_Subset

\* What a plan may replace lies in the weeks of its month.
LEMMA EditableAreWeekSlots ==
    ASSUME PlanningAssumption, NEW ctx, NEW k \in Slots
    PROVE  Editable(ctx, k) <=> k \in EditableSlots(ctx)
<1>1. ASSUME Editable(ctx, k) PROVE k \in WeekSlots(ctx.month)
  <2>1. k[1] \in Days /\ k[2] \in Projects /\ k = <<k[1], k[2]>>
    BY DEF Slots
  <2>2. k[1] \in DaysOf(ctx.month) /\ k[1] \in FiscalDays
    BY <1>1, <2>1 DEF Editable, DaysOf
  <2>3. WeekOf[k[1]] \in WeeksOf(ctx.month)
    BY <2>2 DEF WeeksOf
  <2> QED
    BY <2>1, <2>2, <2>3 DEF WeekSlots, WeekDays
<1> QED
  BY <1>1 DEF EditableSlots

-----------------------------------------------------------------------------
(***************************************************************************)
(* What a save does.  It goes through only while the source of its preview *)
(* is fresh, so the plan replaces the hours it was made from.              *)
(***************************************************************************)

\* Only ApplyPlan saves.
LEMMA SavedByApply ==
    ASSUME TypeOK, Next, NEW s \in Savers, Saved(s)
    PROVE  ApplyPlan(s)
<1> USE DEF TypeOK, Saved, NoSave
<1>1. ASSUME UNCHANGED save PROVE FALSE
  BY <1>1
<1>2. ASSUME NEW r \in Savers, NEW t \in Generators, OpenPreview(r, t) PROVE FALSE
  BY <1>2 DEF OpenPreview
<1>3. ASSUME NEW r \in Savers, RefuseSave(r) \/ FinishSave(r) PROVE FALSE
  BY <1>3 DEF RefuseSave, FinishSave
<1>4. ASSUME NEW r \in Savers, ApplyPlan(r) PROVE r = s
  BY <1>4 DEF ApplyPlan
<1>5. CASE Restart
  BY <1>5 DEF Restart
<1>6. QED
  BY <1>1, <1>2, <1>3, <1>4, <1>5 DEF Next, StartGenerate, GenerateFails, Answer, Publish,
     LeaveGenerate, ShowPreview, EditHours, EditWindow, Tick, planVars

\* What ApplyPlan knows and does.
LEMMA AppliedPlan ==
    ASSUME TypeOK, SaveInv, NEW s \in Savers, ApplyPlan(s),
           NEW t, t = save[s].token, NEW ctx, ctx = previews[t].source.context
    PROVE  /\ t \in DOMAIN previews /\ t \in Generators
           /\ previews[t].plan \in Plans(ctx)
           /\ Fresh(previews[t].source, save[s].now)
           /\ hours' = Apply(ctx, previews[t].plan)
  BY DEF ApplyPlan, SourceUnchanged, TypeOK, SaveInv, NoSave

\* Past days, vacation and other months are left alone by a save.
THEOREM SaveKeepsCorrect == Spec => SaveKeepsTheRest
<1>1. TypeOK /\ SaveInv /\ [Next]_vars =>
        [\A s \in Savers : Saved(s) =>
            \A k \in Slots :
                \/ k[1] < DayOf(save[s].now)
                \/ k[2] = Vacation
                \/ MonthOf[k[1]] # MonthOfSave(s)
                => hours'[k] = hours[k]]_vars
  <2> SUFFICES ASSUME TypeOK, SaveInv, Next, NEW s \in Savers, Saved(s), NEW k \in Slots,
                      \/ k[1] < DayOf(save[s].now)
                      \/ k[2] = Vacation
                      \/ MonthOf[k[1]] # MonthOfSave(s)
               PROVE  hours'[k] = hours[k]
    BY DEF Saved
  <2>1. PICK t, ctx, plan : t = save[s].token /\ ctx = previews[t].source.context /\ plan = previews[t].plan
    OBVIOUS
  <2>2. plan \in Plans(ctx) /\ Fresh(previews[t].source, save[s].now) /\ hours' = Apply(ctx, plan)
    BY <2>1, SavedByApply, AppliedPlan
  <2>3. ctx.today = DayOf(save[s].now)
    BY <2>1, <2>2, FreshContext
  <2>4. ~Editable(ctx, k)
    <3>1. k[1] \in Int /\ (save[s].now \in Int)
      BY DEF Slots, Days, TypeOK, NoSave, Saved
    <3>2. DayOf(save[s].now) \in Int
      BY <3>1, PlanningAssumption DEF DayOf, PlanningAssumption
    <3>3. QED
      BY <2>1, <2>3, <3>1, <3>2 DEF Editable, MonthOfSave
  <2>5. DOMAIN plan = AllowedSlots(ctx)
    BY <2>2, PlansAreHours
  <2>6. k \notin DOMAIN plan
    BY <2>4, <2>5 DEF AllowedSlots, Allowed
  <2>7. QED
    BY <2>2, <2>4, <2>6 DEF Apply
<1>2. QED
  BY TypeCorrect, <1>1, PTL DEF Spec, SaveKeepsTheRest

\* The document new is what the page showed.
SavedAsShown(new, page, ctx) ==
    LET T == WeekSlots(ctx.month)
    IN  /\ DOMAIN page = T
        /\ \A k \in T : MonthOf[k[1]] = ctx.month \/ k[2] = Vacation \/ k[1] < ctx.today =>
                new[k] = page[k]
        /\ \A d \in Days : DayTotal(new, T, d) = DayTotal(page, T, d)
        /\ \A d \in Days, p \in Projects :
                WeekTotal(new, T, WeekOf[d], p) = WeekTotal(page, T, WeekOf[d], p)

\* A plan that is saved makes of the document what its page showed: the same
\* hours in the month, in vacation and in the past, the same total of each day,
\* and the same total of each project and week.
LEMMA PageIsSaved ==
    ASSUME PlanningAssumption, hours \in [Slots -> HourValues],
           NEW source, NEW now, Fresh(source, now), DayOf(now) \in Int,
           NEW h \in [Slots -> HourValues], NEW last, NEW then,
           source = monthSource(h, last, source.context.month, then),
           NEW plan \in Plans(source.context)
    PROVE  SavedAsShown(Apply(source.context, plan), previewMonthPlan(h, source.context, plan),
                        source.context)
<1>a. PICK ctx, m : ctx = source.context /\ m = ctx.month
  OBVIOUS
<1>b. PICK page, new : page = previewMonthPlan(h, ctx, plan) /\ new = Apply(ctx, plan)
  OBVIOUS
<1> USE <1>a
<1> DEFINE T == WeekSlots(m)
           E == EditableSlots(ctx)
<1>1. IsFiniteSet(T) /\ \A S \in SUBSET T : IsFiniteSet(S)
  BY WeekSlotsFinite, FS_Subset
<1>2. ASSUME NEW k \in T
      PROVE  /\ new[k] \in Int /\ page[k] \in Int /\ hours[k] \in Int /\ h[k] \in Int
             /\ k \in E => new[k] = page[k]
             /\ k \notin E => new[k] = hours[k] /\ page[k] = h[k]
  <2>1. k \in Slots /\ k[1] \in FiscalDays
    BY WeekSlotsFinite DEF WeekSlots, WeekDays
  <2>2. plan \in [AllowedSlots(ctx) -> HourValues] /\ HourValues \subseteq Nat
    BY PlansAreHours DEF PlanningAssumption
  <2>3. h[k] \in Nat /\ hours[k] \in Nat
    BY <2>1, <2>2
  <2>4. ReplacedOnPage(ctx, k) <=> k \in E
    BY <2>1 DEF ReplacedOnPage, EditableSlots, Editable
  <2>5. Editable(ctx, k) <=> k \in E
    BY DEF EditableSlots
  <2>6. k \in DOMAIN plan => k \in E /\ plan[k] \in Nat
    BY <2>2, <2>5 DEF AllowedSlots, Allowed
  <2>7. page[k] = (IF k \in E THEN 0 ELSE h[k]) + (IF k \in DOMAIN plan THEN plan[k] ELSE 0)
    BY <1>b, <2>4 DEF previewMonthPlan
  <2>8. new[k] = IF k \in DOMAIN plan THEN plan[k] ELSE IF k \in E THEN 0 ELSE hours[k]
    BY <1>b, <2>1, <2>5 DEF Apply
  <2>9. CASE k \in DOMAIN plan
    BY <2>3, <2>6, <2>7, <2>8, <2>9
  <2>10. CASE k \notin DOMAIN plan
    BY <2>3, <2>7, <2>8, <2>10
  <2> QED
    BY <2>9, <2>10
<1>3. \A k \in T : MonthOf[k[1]] = m \/ k[2] = Vacation \/ k[1] < ctx.today => h[k] = hours[k]
  BY SameSource
<1>4. \A k \in T : MonthOf[k[1]] = m \/ k[2] = Vacation \/ k[1] < ctx.today => new[k] = page[k]
  BY <1>2, <1>3
<1>5. \A k \in T : MonthOf[k[1]] # m => k \notin E
  BY DEF EditableSlots, Editable
<1>6. \A k \in T : k[1] \in WeekDays(m) /\ WeekOf[k[1]] \in WeeksOf(m)
  BY DEF WeekSlots, WeekDays
<1>7. DOMAIN page = T
  BY <1>b DEF previewMonthPlan
<1>8. ASSUME NEW d \in Days PROVE DayTotal(new, T, d) = DayTotal(page, T, d)
  <2>1. PICK D : D = {k \in T : k[1] = d} /\ D \in SUBSET T /\ IsFiniteSet(D)
    BY <1>1
  <2>2. CASE MonthOf[d] = m
    <3>1. \A k \in D : new[k] \in Int /\ new[k] = page[k]
      BY <1>2, <1>4, <2>1, <2>2
    <3>2. SumFunctionOnSet(new, D) = SumFunctionOnSet(page, D)
      BY <2>1, <3>1, SumCongruence
    <3> QED
      BY <2>1, <3>2 DEF DayTotal
  <2>3. CASE MonthOf[d] # m /\ d \in WeekDays(m)
    <3>1. D = {k \in FixedSlots(ctx) : k[1] = d}
      BY <1>5, <2>1, <2>3 DEF FixedSlots, EditableSlots
    <3>2. \A k \in D : /\ new[k] \in Int /\ new[k] = hours[k]
                       /\ page[k] \in Int /\ page[k] = h[k]
      BY <1>2, <1>5, <2>1, <2>3
    <3>3. SumFunctionOnSet(new, D) = SumFunctionOnSet(hours, D)
      BY <2>1, <3>2, SumCongruence
    <3>4. SumFunctionOnSet(page, D) = SumFunctionOnSet(h, D)
      BY <2>1, <3>2, SumCongruence
    <3>5. DayTotal(h, FixedSlots(ctx), d) = DayTotal(hours, FixedSlots(ctx), d)
      BY <2>3, SameSource
    <3>6. SumFunctionOnSet(h, D) = SumFunctionOnSet(hours, D)
      BY <3>1, <3>5 DEF DayTotal
    <3> QED
      BY <2>1, <3>3, <3>4, <3>6 DEF DayTotal
  <2>4. CASE d \notin WeekDays(m)
    <3>1. \A k \in D : new[k] \in Int /\ new[k] = page[k]
      BY <1>6, <2>1, <2>4
    <3>2. SumFunctionOnSet(new, D) = SumFunctionOnSet(page, D)
      BY <2>1, <3>1, SumCongruence
    <3> QED
      BY <2>1, <3>2 DEF DayTotal
  <2> QED
    BY <2>2, <2>3, <2>4
<1>9. ASSUME NEW w, NEW p \in Projects PROVE WeekTotal(new, T, w, p) = WeekTotal(page, T, w, p)
  <2>1. PICK W : W = {k \in T : WeekOf[k[1]] = w /\ k[2] = p} /\ W \in SUBSET T
    OBVIOUS
  <2>2. PICK M, R : /\ M = {k \in W : MonthOf[k[1]] = m} /\ R = {k \in W : MonthOf[k[1]] # m}
                    /\ W = M \cup R /\ M \cap R = {} /\ IsFiniteSet(M) /\ IsFiniteSet(R)
                    /\ M \in SUBSET T /\ R \in SUBSET T
    <3>1. PICK M : M = {k \in W : MonthOf[k[1]] = m}
      OBVIOUS
    <3>2. PICK R : R = {k \in W : MonthOf[k[1]] # m}
      OBVIOUS
    <3>3. M \in SUBSET T /\ R \in SUBSET T /\ IsFiniteSet(M) /\ IsFiniteSet(R)
      BY <1>1, <2>1, <3>1, <3>2
    <3> QED
      BY <3>1, <3>2, <3>3
  <2>3. ASSUME NEW f, \A k \in T : f[k] \in Int
        PROVE  /\ SumFunctionOnSet(f, W) = SumFunctionOnSet(f, M) + SumFunctionOnSet(f, R)
               /\ SumFunctionOnSet(f, M) \in Int /\ SumFunctionOnSet(f, R) \in Int
    <3>1. \A k \in M \cup R : f[k] \in Int
      BY <2>2, <2>3
    <3>2. SumFunctionOnSet(f, M \cup R) = SumFunctionOnSet(f, M) + SumFunctionOnSet(f, R)
      BY <2>2, <3>1, SumUnion
    <3>3. SumFunctionOnSet(f, M) \in Int /\ SumFunctionOnSet(f, R) \in Int
      BY <2>2, <3>1, SumType
    <3> QED
      BY <2>2, <3>2, <3>3
  <2>4. SumFunctionOnSet(new, M) = SumFunctionOnSet(page, M)
    <3>1. \A k \in M : new[k] \in Int /\ new[k] = page[k]
      BY <1>2, <1>4, <2>2
    <3> QED
      BY <2>2, <3>1, SumCongruence
  <2>5. SumFunctionOnSet(h, M) = SumFunctionOnSet(hours, M)
    <3>1. \A k \in M : h[k] \in Int /\ h[k] = hours[k]
      BY <1>2, <1>3, <2>2
    <3> QED
      BY <2>2, <3>1, SumCongruence
  <2>6. SumFunctionOnSet(new, R) = SumFunctionOnSet(hours, R)
    <3>1. \A k \in R : new[k] \in Int /\ new[k] = hours[k]
      BY <1>2, <1>5, <2>2
    <3> QED
      BY <2>2, <3>1, SumCongruence
  <2>7. SumFunctionOnSet(page, R) = SumFunctionOnSet(h, R)
    <3>1. \A k \in R : page[k] \in Int /\ page[k] = h[k]
      BY <1>2, <1>5, <2>2
    <3> QED
      BY <2>2, <3>1, SumCongruence
  <2>8. SumFunctionOnSet(h, W) = SumFunctionOnSet(hours, W)
    <3>1. CASE w \in WeeksOf(m)
      <4>1. WeekTotal(h, T, w, p) = WeekTotal(hours, T, w, p)
        BY <3>1, SameSource
      <4> QED
        BY <2>1, <4>1 DEF WeekTotal
    <3>2. CASE w \notin WeeksOf(m)
      <4>1. IsFiniteSet(W) /\ \A k \in W : h[k] \in Int /\ h[k] = hours[k]
        BY <1>1, <1>6, <2>1, <3>2
      <4> QED
        BY <4>1, SumCongruence
    <3> QED
      BY <3>1, <3>2
  <2>9. \A k \in T : h[k] \in Int
    BY <1>2
  <2>10. \A k \in T : hours[k] \in Int
    BY <1>2
  <2>11. /\ SumFunctionOnSet(h, W) = SumFunctionOnSet(h, M) + SumFunctionOnSet(h, R)
         /\ SumFunctionOnSet(h, M) \in Int /\ SumFunctionOnSet(h, R) \in Int
    BY <2>3, <2>9
  <2>12. /\ SumFunctionOnSet(hours, W) = SumFunctionOnSet(hours, M) + SumFunctionOnSet(hours, R)
         /\ SumFunctionOnSet(hours, M) \in Int /\ SumFunctionOnSet(hours, R) \in Int
    BY <2>3, <2>10
  <2>13. SumFunctionOnSet(h, R) = SumFunctionOnSet(hours, R)
    <3>1. PICK a \in Int, b \in Int, c \in Int :
            /\ a = SumFunctionOnSet(h, M) /\ a = SumFunctionOnSet(hours, M)
            /\ b = SumFunctionOnSet(h, R) /\ c = SumFunctionOnSet(hours, R)
      BY <2>5, <2>11, <2>12
    <3>2. a + b = a + c
      BY <2>8, <2>11, <2>12, <3>1
    <3> QED
      BY <3>1, <3>2
  <2>14. SumFunctionOnSet(new, W) = SumFunctionOnSet(new, M) + SumFunctionOnSet(new, R)
    BY <1>2, <2>3
  <2>15. SumFunctionOnSet(page, W) = SumFunctionOnSet(page, M) + SumFunctionOnSet(page, R)
    BY <1>2, <2>3
  <2>16. SumFunctionOnSet(new, W) = SumFunctionOnSet(page, W)
    BY <2>4, <2>6, <2>7, <2>13, <2>14, <2>15
  <2> QED
    BY <2>1, <2>16 DEF WeekTotal
<1> QED
  BY <1>b, <1>4, <1>7, <1>8, <1>9 DEF SavedAsShown

\* What a page showed is what the document holds after the save, as far as the
\* revision of its preview tells documents apart.
THEOREM PreviewSavedCorrect == Spec => PreviewIsWhatIsSaved
<1>1. TypeOK /\ SaveInv /\ ShownInv /\ [Next]_vars =>
        [\A s \in Savers : Saved(s) =>
            LET page == shown[save[s].token]
            IN  /\ \A k \in DOMAIN page :
                    \/ MonthOf[k[1]] = MonthOfSave(s)
                    \/ k[2] = Vacation
                    \/ k[1] < DayOf(save[s].now)
                    => hours'[k] = page[k]
                /\ \A d \in Days : DayTotal(hours', DOMAIN page, d) = DayTotal(page, DOMAIN page, d)
                /\ \A d \in Days, p \in Projects :
                    WeekTotal(hours', DOMAIN page, WeekOf[d], p)
                        = WeekTotal(page, DOMAIN page, WeekOf[d], p)]_vars
  <2> SUFFICES ASSUME TypeOK, SaveInv, ShownInv, Next, NEW s \in Savers, Saved(s),
                      NEW page, page = shown[save[s].token]
               PROVE  /\ \A k \in DOMAIN page :
                            \/ MonthOf[k[1]] = MonthOfSave(s)
                            \/ k[2] = Vacation
                            \/ k[1] < DayOf(save[s].now)
                            => hours'[k] = page[k]
                      /\ \A d \in Days :
                            DayTotal(hours', DOMAIN page, d) = DayTotal(page, DOMAIN page, d)
                      /\ \A d \in Days, p \in Projects :
                            WeekTotal(hours', DOMAIN page, WeekOf[d], p)
                                = WeekTotal(page, DOMAIN page, WeekOf[d], p)
    BY DEF Saved
  <2>1. PICK t : t = save[s].token
    OBVIOUS
  <2>2. PICK source : source = previews[t].source
    OBVIOUS
  <2>3. PICK ctx, m : ctx = source.context /\ m = ctx.month
    OBVIOUS
  <2>4. PICK plan, now : plan = previews[t].plan /\ now = save[s].now
    OBVIOUS
  <2>5. /\ t \in DOMAIN previews /\ t \in Generators /\ plan \in Plans(ctx)
        /\ Fresh(source, now) /\ hours' = Apply(ctx, plan)
    BY <2>1, <2>2, <2>3, <2>4, SavedByApply, AppliedPlan
  <2>6. ctx.today = DayOf(now) /\ MonthOfSave(s) = m
    BY <2>1, <2>2, <2>3, <2>5, FreshContext DEF MonthOfSave
  <2>7. DayOf(now) \in Int
    <3>1. now \in Int
      BY <2>4 DEF TypeOK, NoSave, Saved
    <3> QED
      BY <3>1, PlanningAssumption DEF DayOf, PlanningAssumption
  <2>8. CASE DOMAIN page = {}
    <3>1. {k \in DOMAIN page : TRUE} = {}
      BY <2>8
    <3>2. \A d \in Days : DayTotal(hours', DOMAIN page, d) = DayTotal(page, DOMAIN page, d)
      <4>1. \A d \in Days : {k \in DOMAIN page : k[1] = d} = {}
        BY <2>8
      <4>2. SumFunctionOnSet(hours', {}) = 0 /\ SumFunctionOnSet(page, {}) = 0
        BY FS_EmptySet, SumStep
      <4> QED
        BY <4>1, <4>2 DEF DayTotal
    <3>3. \A d \in Days, p \in Projects :
            WeekTotal(hours', DOMAIN page, WeekOf[d], p) = WeekTotal(page, DOMAIN page, WeekOf[d], p)
      <4>1. \A w, p : {k \in DOMAIN page : WeekOf[k[1]] = w /\ k[2] = p} = {}
        BY <2>8
      <4>2. SumFunctionOnSet(hours', {}) = 0 /\ SumFunctionOnSet(page, {}) = 0
        BY FS_EmptySet, SumStep
      <4> QED
        BY <4>1, <4>2 DEF WeekTotal
    <3> QED
      BY <2>8, <3>2, <3>3
  <2>9. CASE DOMAIN page # {}
    <3>1. PICK h \in [Slots -> HourValues], last \in Days, then \in 0 .. MaxClock :
            /\ source = monthSource(h, last, m, then)
            /\ page = previewMonthPlan(h, ctx, plan)
      BY <2>1, <2>2, <2>3, <2>4, <2>5, <2>9 DEF ShownInv
    <3>2. hours \in [Slots -> HourValues]
      BY DEF TypeOK
    <3>3. PICK new : new = Apply(ctx, plan) /\ hours' = new
      BY <2>5
    <3>4. SavedAsShown(new, page, ctx)
      <4>1. source = monthSource(h, last, source.context.month, then) /\ plan \in Plans(source.context)
        BY <2>3, <2>5, <3>1
      <4>2. SavedAsShown(Apply(source.context, plan), previewMonthPlan(h, source.context, plan),
                         source.context)
        BY <2>5, <2>7, <3>2, <4>1, PlanningAssumption, PageIsSaved
      <4> QED
        BY <2>3, <3>1, <3>3, <4>2
    <3> QED
      BY <2>3, <2>4, <2>6, <3>3, <3>4 DEF SavedAsShown
  <2> QED
    BY <2>8, <2>9
<1>2. QED
  BY TypeCorrect, ShownCorrect, <1>1, PTL DEF Spec, PreviewIsWhatIsSaved

-----------------------------------------------------------------------------
(***************************************************************************)
(* The sums.  A plan that is being saved places all hours of every week    *)
(* and project: one that does not cannot be opened for saving.             *)
(***************************************************************************)
CompleteInv ==
    \A s \in Savers : save[s].at # "idle" =>
        Complete(previews[save[s].token].source.context, previews[save[s].token].plan)

\* Previews that are being saved stay complete, because they stay the same.
THEOREM CompleteCorrect == Spec => []CompleteInv
<1>1. Init => CompleteInv
  BY DEF Init, CompleteInv, NoSave
<1>2. TypeOK /\ SaveInv /\ TokenInv /\ CompleteInv /\ [Next]_vars => CompleteInv'
  <2> SUFFICES ASSUME TypeOK, SaveInv, TokenInv, CompleteInv, [Next]_vars PROVE CompleteInv'
    OBVIOUS
  <2> USE PlanningAssumption DEF PlanningAssumption, TypeOK, SaveInv, CompleteInv, NoSave
  <2>1. ASSUME NEW g \in Generators, Publish(g) PROVE CompleteInv'
    BY <2>1 DEF Publish
  <2>2. ASSUME NEW s \in Savers, NEW t \in Generators, OpenPreview(s, t) PROVE CompleteInv'
    BY <2>2 DEF OpenPreview
  <2>3. ASSUME NEW s \in Savers, ApplyPlan(s) PROVE CompleteInv'
    <3>1. save'[s].token = save[s].token /\ previews' = previews
          /\ \A x \in Savers \ {s} : save'[x] = save[x]
      BY <2>3 DEF ApplyPlan
    <3>2. save[s].at # "idle"
      BY <2>3 DEF ApplyPlan
    <3>3. QED
      BY <3>1, <3>2
  <2>4. ASSUME NEW s \in Savers, RefuseSave(s) PROVE CompleteInv'
    BY <2>4 DEF RefuseSave
  <2>5. ASSUME NEW s \in Savers, FinishSave(s) PROVE CompleteInv'
    BY <2>5 DEF FinishSave
  <2>6. CASE Restart
    BY <2>6 DEF Restart
  <2>7. CASE UNCHANGED <<previews, save>>
    BY <2>7
  <2>8. QED
    BY <2>1, <2>2, <2>3, <2>4, <2>5, <2>6, <2>7 DEF Next, StartGenerate, GenerateFails, Answer,
       LeaveGenerate, ShowPreview, EditHours, EditWindow, Tick, vars, planVars
<1>3. QED
  BY TypeCorrect, SavedOnceCorrect, <1>1, <1>2, PTL DEF Spec

\* The days and projects a week total is taken over.
OfWeek(S, w, p) == {k \in S : WeekOf[k[1]] = w /\ k[2] = p}

\* A complete plan that is applied to the document it was made from keeps the
\* total of every week and project.
LEMMA ApplyKeepsTotals ==
    ASSUME PlanningAssumption, hours \in [Slots -> HourValues],
           NEW source, NEW now, Fresh(source, now),
           NEW plan \in Plans(source.context), Complete(source.context, plan),
           NEW w, NEW p \in Projects
    PROVE  WeekTotal(Apply(source.context, plan), Slots, w, p) = WeekTotal(hours, Slots, w, p)
<1>0. PICK ctx : ctx = source.context
  OBVIOUS
<1> USE <1>0
<1> DEFINE A == AllowedSlots(ctx)
           E == EditableSlots(ctx)
           new == Apply(ctx, plan)
           R == Slots \ E
<1>1. A \subseteq E /\ E \subseteq WeekSlots(ctx.month)
  BY DEF AllowedSlots, EditableSlots, Allowed
<1>2. E \subseteq Slots
  BY <1>1, WeekSlotsFinite
<1>3. IsFiniteSet(Slots)
  BY WeekSlotsFinite
<1>4. \A k \in Slots : new[k] \in Int /\ hours[k] \in Int
  <2>1. new \in [Slots -> HourValues]
    BY ApplyType
  <2>2. HourValues \subseteq Int
    BY DEF PlanningAssumption
  <2>3. QED
    BY <2>1, <2>2
<1>5. /\ \A k \in Slots : k \in A => new[k] = plan[k]
      /\ \A k \in Slots : k \in E \ A => new[k] = 0
      /\ \A k \in Slots : k \notin E => new[k] = hours[k]
  <2>1. DOMAIN plan = A
    BY PlansAreHours
  <2>2. \A k \in Slots : Editable(ctx, k) <=> k \in E
    BY EditableAreWeekSlots
  <2> QED
    BY <1>1, <2>1, <2>2 DEF Apply
<1>6. \A S \in SUBSET Slots : IsFiniteSet(OfWeek(S, w, p)) /\ OfWeek(S, w, p) \subseteq S
  BY <1>3, FS_Subset DEF OfWeek
<1> HIDE DEF A, E, R, new
<1>7. ASSUME NEW f, \A k \in Slots : f[k] \in Int
      PROVE  SumFunctionOnSet(f, OfWeek(Slots, w, p)) =
                 SumFunctionOnSet(f, OfWeek(E, w, p)) + SumFunctionOnSet(f, OfWeek(R, w, p))
  <2>1. OfWeek(Slots, w, p) = OfWeek(E, w, p) \cup OfWeek(R, w, p)
    BY <1>1, <1>2 DEF OfWeek, R
  <2>2. OfWeek(E, w, p) \cap OfWeek(R, w, p) = {}
    BY DEF OfWeek, R
  <2>3. IsFiniteSet(OfWeek(E, w, p)) /\ IsFiniteSet(OfWeek(R, w, p))
    BY <1>1, <1>2, <1>6 DEF R
  <2>4. \A k \in OfWeek(E, w, p) \cup OfWeek(R, w, p) : f[k] \in Int
    BY <1>7, <2>1 DEF OfWeek
  <2>5. QED
    BY <2>1, <2>2, <2>3, <2>4, SumUnion
<1>8. SumFunctionOnSet(new, OfWeek(R, w, p)) = SumFunctionOnSet(hours, OfWeek(R, w, p))
  <2>1. OfWeek(R, w, p) \subseteq Slots \ E /\ IsFiniteSet(OfWeek(R, w, p))
    BY <1>6 DEF R
  <2>2. \A k \in OfWeek(R, w, p) : new[k] \in Int /\ new[k] = hours[k]
    BY <1>4, <1>5, <2>1
  <2>3. QED
    BY <2>1, <2>2, SumCongruence
<1>9. SumFunctionOnSet(new, OfWeek(E, w, p)) = SumFunctionOnSet(plan, OfWeek(A, w, p))
  <2>1. OfWeek(E, w, p) = OfWeek(A, w, p) \cup OfWeek(E \ A, w, p)
        /\ OfWeek(A, w, p) \cap OfWeek(E \ A, w, p) = {}
    BY <1>1 DEF OfWeek
  <2>2. /\ IsFiniteSet(OfWeek(A, w, p)) /\ IsFiniteSet(OfWeek(E \ A, w, p))
        /\ OfWeek(A, w, p) \subseteq A /\ OfWeek(E \ A, w, p) \subseteq E \ A
    BY <1>1, <1>2, <1>6
  <2>3. \A k \in OfWeek(A, w, p) : new[k] \in Int /\ new[k] = plan[k]
    BY <1>1, <1>2, <1>4, <1>5, <2>2
  <2>4. \A k \in OfWeek(E \ A, w, p) : new[k] \in Int /\ new[k] = 0
    BY <1>1, <1>2, <1>4, <1>5, <2>2
  <2>5. \A k \in OfWeek(A, w, p) \cup OfWeek(E \ A, w, p) : new[k] \in Int
    BY <2>3, <2>4
  <2>6. SumFunctionOnSet(new, OfWeek(E, w, p)) =
            SumFunctionOnSet(new, OfWeek(A, w, p)) + SumFunctionOnSet(new, OfWeek(E \ A, w, p))
    <3>1. SumFunctionOnSet(new, OfWeek(A, w, p) \cup OfWeek(E \ A, w, p)) =
            SumFunctionOnSet(new, OfWeek(A, w, p)) + SumFunctionOnSet(new, OfWeek(E \ A, w, p))
      BY <2>1, <2>2, <2>5, SumUnion
    <3>2. QED
      BY <2>1, <3>1
  <2>7. SumFunctionOnSet(new, OfWeek(A, w, p)) = SumFunctionOnSet(plan, OfWeek(A, w, p))
    BY <2>2, <2>3, SumCongruence
  <2>8. SumFunctionOnSet(new, OfWeek(E \ A, w, p)) = 0
    BY <2>2, <2>4, SumOfZeros
  <2>9. SumFunctionOnSet(new, OfWeek(A, w, p)) \in Int
    BY <2>2, <2>3, SumType
  <2>10. QED
    BY <2>6, <2>7, <2>8, <2>9
<1>10. SumFunctionOnSet(plan, OfWeek(A, w, p)) = SumFunctionOnSet(hours, OfWeek(E, w, p))
  <2>1. CASE w \in WeeksOf(ctx.month)
    <3>1. DOMAIN plan = A
      BY PlansAreHours DEF A
    <3>2. SumFunctionOnSet(plan, OfWeek(A, w, p)) = ctx.weeks[<<w, p>>].editable
      BY <2>1, <3>1 DEF Complete, WeekTotal, OfWeek
    <3>3. ctx.weeks[<<w, p>>].editable = WeekTotal(hours, EditableSlots(ctx), w, p)
      BY <2>1, FreshContext, ContextWeeks
    <3>4. QED
      BY <3>2, <3>3 DEF WeekTotal, OfWeek, E
  <2>2. CASE w \notin WeeksOf(ctx.month)
    <3>1. OfWeek(E, w, p) = {}
      <4>1. \A k \in E : k[1] \in Days /\ MonthOf[k[1]] = ctx.month
        BY <1>1, <1>2 DEF E, EditableSlots, Editable, Slots
      <4>2. \A k \in E : WeekOf[k[1]] \in WeeksOf(ctx.month)
        BY <4>1 DEF WeeksOf, DaysOf
      <4>3. QED
        BY <2>2, <4>2 DEF OfWeek
    <3>2. OfWeek(A, w, p) = {}
      BY <1>1, <3>1 DEF OfWeek
    <3>3. QED
      BY <3>1, <3>2, FS_EmptySet, SumStep
  <2>3. QED
    BY <2>1, <2>2
<1>11. SumFunctionOnSet(new, OfWeek(Slots, w, p)) = SumFunctionOnSet(hours, OfWeek(Slots, w, p))
  <2>1. SumFunctionOnSet(new, OfWeek(Slots, w, p)) =
            SumFunctionOnSet(new, OfWeek(E, w, p)) + SumFunctionOnSet(new, OfWeek(R, w, p))
    BY <1>4, <1>7
  <2>2. SumFunctionOnSet(hours, OfWeek(Slots, w, p)) =
            SumFunctionOnSet(hours, OfWeek(E, w, p)) + SumFunctionOnSet(hours, OfWeek(R, w, p))
    BY <1>4, <1>7
  <2>3. QED
    BY <1>8, <1>9, <1>10, <2>1, <2>2
<1>12. QED
  BY <1>11 DEF WeekTotal, OfWeek, new

\* Saving a plan keeps the total of every week and project, whatever happened
\* to the document since the plan was made.
THEOREM TotalsCorrect == Spec => SavePreservesWeekTotals
<1>1. TypeOK /\ SaveInv /\ CompleteInv /\ [Next]_vars =>
        [\A s \in Savers : Saved(s) =>
            \A d \in Days, p \in Projects :
                WeekTotal(hours', Slots, WeekOf[d], p) = WeekTotal(hours, Slots, WeekOf[d], p)]_vars
  <2> SUFFICES ASSUME TypeOK, SaveInv, CompleteInv, Next, NEW s \in Savers, Saved(s),
                      NEW d \in Days, NEW p \in Projects
               PROVE  WeekTotal(hours', Slots, WeekOf[d], p) = WeekTotal(hours, Slots, WeekOf[d], p)
    BY DEF Saved
  <2>1. PICK t : t = save[s].token
    OBVIOUS
  <2>2. PICK ctx : ctx = previews[t].source.context
    OBVIOUS
  <2>3. PICK plan, source, now : plan = previews[t].plan /\ source = previews[t].source /\ now = save[s].now
    OBVIOUS
  <2>4. /\ plan \in Plans(ctx)
        /\ Fresh(source, now) /\ ctx = source.context
        /\ hours' = Apply(ctx, plan)
    BY <2>1, <2>2, <2>3, SavedByApply, AppliedPlan
  <2>5. Complete(ctx, plan)
    BY <2>1, <2>2, <2>3 DEF CompleteInv, Saved
  <2>6. WeekTotal(Apply(ctx, plan), Slots, WeekOf[d], p) = WeekTotal(hours, Slots, WeekOf[d], p)
    BY <2>4, <2>5, PlanningAssumption, ApplyKeepsTotals DEF TypeOK
  <2>7. QED
    BY <2>4, <2>6
<1>2. QED
  BY TypeCorrect, CompleteCorrect, <1>1, PTL DEF Spec, SavePreservesWeekTotals

===============================================================================
