------------------------ MODULE MonthDistributionProofs ------------------------
(***************************************************************************)
(* Proofs about the local plan of a month, for any week, projects, booking *)
(* windows and past bookings.                                              *)
(***************************************************************************)

EXTENDS MonthDistribution, DataLemmas

-----------------------------------------------------------------------------
(***************************************************************************)
(* Numbers that are not negative: hours, capacities, weights and shares.   *)
(***************************************************************************)
NonNegative == {q \in Rationals : ~ Less(q, Zero)}

\* They stay so under the operators.
LEMMA NonNegativeClosed ==
    ASSUME NEW a \in NonNegative, NEW b \in NonNegative
    PROVE  /\ Plus(a, b) \in NonNegative /\ Times(a, b) \in NonNegative
           /\ a # Zero => Less(Zero, a) /\ Plus(a, b) # Zero /\ Plus(b, a) # Zero
           /\ b # Zero => /\ Less(Zero, b) /\ Over(a, b) \in NonNegative
                          /\ a # Zero => Over(a, b) # Zero /\ Times(a, b) # Zero
<1>1. a \in Rationals /\ b \in Rationals /\ ~ Less(a, Zero) /\ ~ Less(b, Zero) /\ Zero \in Rationals
  BY ConstantTypes DEF NonNegative
<1>2. (a # Zero => Less(Zero, a)) /\ (b # Zero => Less(Zero, b))
  BY <1>1, LessIsOrder
<1>3. Plus(a, b) \in NonNegative /\ Times(a, b) \in NonNegative
  BY <1>1, PlusType, TimesType, OrderLaws DEF NonNegative
<1>4. ~ Less(Zero, Zero)
  BY <1>1, LessIsOrder
<1>5. ASSUME a # Zero PROVE Plus(a, b) # Zero /\ Plus(b, a) # Zero
  <2>1. Less(Zero, Plus(a, b)) /\ Less(Zero, Plus(b, a))
    BY <1>1, <1>2, <1>5, OrderLaws
  <2> QED
    BY <1>4, <2>1
<1>6. ASSUME b # Zero
      PROVE  Over(a, b) \in NonNegative /\ (a # Zero => Over(a, b) # Zero /\ Times(a, b) # Zero)
  <2>1. Less(Zero, b)
    BY <1>2, <1>6
  <2>2. Over(a, b) \in Rationals /\ ~ Less(Over(a, b), Zero)
    BY <1>1, <2>1, OverType
  <2>3. ASSUME a # Zero PROVE Over(a, b) # Zero /\ Times(a, b) # Zero
    <3>1. Less(Zero, a)
      BY <1>2, <2>3
    <3>2. Less(Zero, Over(a, b)) /\ Less(Zero, Times(a, b))
      BY <1>1, <2>1, <3>1, OverType, TimesType
    <3> QED
      BY <1>4, <3>2
  <2> QED
    BY <2>2, <2>3 DEF NonNegative
<1> QED
  BY <1>2, <1>3, <1>5, <1>6

\* So do their sums, which are zero only if all summands are.
LEMMA NonNegativeSum ==
    ASSUME NEW S, IsFiniteSet(S), NEW f, \A x \in S : f[x] \in NonNegative
    PROVE  /\ Sum(f, S) \in NonNegative
           /\ \A x \in S : f[x] # Zero => Sum(f, S) # Zero
<1>1. \A x \in S : f[x] \in Rationals /\ ~ Less(f[x], Zero)
  BY DEF NonNegative
<1>2. Sum(f, S) \in Rationals /\ ~ Less(Sum(f, S), Zero)
  BY <1>1, SumRational, SumSigns
<1>3. \A x \in S : f[x] # Zero => Sum(f, S) # Zero
  BY <1>1, SumSigns
<1> QED
  BY <1>2, <1>3 DEF NonNegative

\* Zero, one, whole hours and what is at least zero.
LEMMA NonNegativeValues ==
    /\ Zero \in NonNegative /\ One \in NonNegative /\ One # Zero
    /\ \A k \in Nat : <<k, 1>> \in NonNegative
    /\ \A k \in Nat, d \in Positive : Fraction(k, d) \in NonNegative
    /\ \A q \in Rationals : Larger(Zero, q) \in NonNegative
<1>1. ASSUME NEW k \in Nat, NEW d \in Positive PROVE Fraction(k, d) \in NonNegative
  <2>1. k \in Int /\ 0 \in Int /\ ~(k < 0)
    OBVIOUS
  <2>2. Fraction(k, d) \in Rationals /\ Zero = Fraction(0, d)
    BY <2>1, FractionType, ZeroFraction
  <2>3. ~ Less(Fraction(k, d), Fraction(0, d))
    BY <2>1, CompareFractions
  <2> QED
    BY <2>2, <2>3 DEF NonNegative
<1>2. ASSUME NEW k \in Nat PROVE <<k, 1>> \in NonNegative
  <2>1. k \in Int /\ 1 \in Positive
    BY DEF Positive
  <2>2. <<k, 1>> = Fraction(k, 1)
    BY <2>1, WholeFraction
  <2> QED
    BY <1>1, <2>1, <2>2
<1>3. Zero \in NonNegative /\ One \in NonNegative
  BY <1>2 DEF Zero, One
<1>4. One # Zero
  BY DEF Zero, One
<1>5. ASSUME NEW q \in Rationals PROVE Larger(Zero, q) \in NonNegative
  BY <1>3, ConstantTypes, ExtremeLaws DEF NonNegative
<1> QED
  BY <1>1, <1>2, <1>3, <1>4, <1>5

\* The days, weekdays and projects are finitely many.
LEMMA FiniteSets ==
    /\ IsFiniteSet(Days) /\ Cardinality(Days) \in Nat /\ Days \subseteq Nat
    /\ Weekdays \subseteq Days /\ IsFiniteSet(Weekdays) /\ Cardinality(Weekdays) \in Positive
    /\ IsFiniteSet(Projects) /\ Projects \subseteq Nat
<1>1. IsFiniteSet(Days) /\ Cardinality(Days) \in Nat
  BY DaysAssumption, FS_CardinalityType
<1>2. Days \subseteq Nat
  <2>1. Days = 1 .. Cardinality(Days)
    BY DaysAssumption
  <2> QED
    BY <1>1, <2>1
<1>3. Weekdays \subseteq Days /\ IsFiniteSet(Weekdays)
  BY <1>1, FS_Subset DEF Weekdays
<1>4. Cardinality(Weekdays) \in Nat /\ Cardinality(Weekdays) # 0
  BY <1>3, DaysAssumption, FS_CardinalityType, FS_EmptySet
<1> QED
  BY <1>1, <1>2, <1>3, <1>4, ProjectsAssumption DEF Positive

-----------------------------------------------------------------------------
(***************************************************************************)
(* Habits are numbers, whatever was booked in the past weeks.              *)
(***************************************************************************)

\* What is known of a past week.
LEMMA PastWeek ==
    ASSUME past \in Histories, NEW w \in HistoryWeeks
    PROVE  /\ past[w].holidays \subseteq Days
           /\ \A d \in Weekdays : past[w].vacation[d] \in Nat
           /\ \A d \in Weekdays, p \in Projects : past[w].hours[d][p] \in Nat
           /\ Recency[w] \in NonNegative /\ Recency[w] # Zero
<1>1. past[w] \in RecordedWeek
  BY HistoryAssumption
<1>2. Recency[w] \in Rationals /\ Less(Zero, Recency[w])
  BY HistoryAssumption
<1>3. Recency[w] \in NonNegative /\ Recency[w] # Zero
  BY <1>2, ConstantTypes, LessIsOrder DEF NonNegative
<1> QED
  BY <1>1, <1>3 DEF RecordedWeek

\* The share of a day one could work.
LEMMA AvailableType ==
    ASSUME past \in Histories, NEW w \in HistoryWeeks, NEW d \in Weekdays
    PROVE  AvailableShare(w, d) \in NonNegative
<1>1. past[w].vacation[d] \in Nat /\ HolidayDayHours \in Positive
  BY PastWeek DEF HolidayDayHours, Positive
<1>2. PICK v \in Nat : v = past[w].vacation[d]
  BY <1>1
<1>3. v \in Int
  OBVIOUS
<1>4. Fraction(v, HolidayDayHours) \in Rationals
  BY <1>1, <1>3, FractionType
<1>5. Minus(One, Fraction(v, HolidayDayHours)) \in Rationals
  BY <1>4, ConstantTypes, PlusType
<1> QED
  BY <1>2, <1>5, NonNegativeValues DEF AvailableShare

\* The hours of some projects on a day.
LEMMA WorkedType ==
    ASSUME past \in Histories, NEW w \in HistoryWeeks, NEW ps \in SUBSET Projects
    PROVE  /\ Worked(w, ps) = [d \in Weekdays |-> Worked(w, ps)[d]]
           /\ \A d \in Weekdays : /\ Worked(w, ps)[d] \in NonNegative
                                  /\ AvailableShare(w, d) = Zero => Worked(w, ps)[d] = Zero
<1>1. ASSUME NEW d \in Weekdays
      PROVE  Sum([p \in ps |-> <<past[w].hours[d][p], 1>>], ps) \in NonNegative
  <2>1. PICK f : f = [p \in ps |-> <<past[w].hours[d][p], 1>>]
    OBVIOUS
  <2>2. \A p \in ps : past[w].hours[d][p] \in Nat
    BY PastWeek
  <2>3. \A p \in ps : f[p] \in NonNegative
    BY <2>1, <2>2, NonNegativeValues
  <2>4. IsFiniteSet(ps)
    BY FiniteSets, FS_Subset
  <2>5. Sum(f, ps) \in NonNegative
    BY <2>3, <2>4, NonNegativeSum
  <2> QED
    BY <2>1, <2>5
<1> QED
  BY <1>1, NonNegativeValues DEF Worked

\* The weeks in which some projects were worked on.
LEMMA ObservedType ==
    ASSUME past \in Histories, NEW ps \in SUBSET Projects
    PROVE  /\ Observed(ps) \subseteq HistoryWeeks /\ IsFiniteSet(Observed(ps))
           /\ \A w \in Observed(ps) :
                /\ Sum(Worked(w, ps), Weekdays) \in NonNegative
                /\ Sum(Worked(w, ps), Weekdays) # Zero
                /\ \E d \in Weekdays : Worked(w, ps)[d] # Zero
<1>1. Observed(ps) \subseteq HistoryWeeks
  BY DEF Observed
<1>2. IsFiniteSet(Observed(ps))
  BY <1>1, HistoryAssumption, FS_Subset
<1>3. ASSUME NEW w \in Observed(ps)
      PROVE  /\ Sum(Worked(w, ps), Weekdays) \in NonNegative
             /\ Sum(Worked(w, ps), Weekdays) # Zero
             /\ \E d \in Weekdays : Worked(w, ps)[d] # Zero
  <2>1. w \in HistoryWeeks /\ Sum(Worked(w, ps), Weekdays) # Zero
    BY DEF Observed
  <2>2. \A d \in Weekdays : Worked(w, ps)[d] \in NonNegative
    BY <2>1, WorkedType
  <2>3. Sum(Worked(w, ps), Weekdays) \in NonNegative
    BY <2>2, FiniteSets, NonNegativeSum
  <2>4. \E d \in Weekdays : Worked(w, ps)[d] # Zero
    BY <2>1, FiniteSets, SumZero
  <2> QED
    BY <2>1, <2>3, <2>4
<1> QED
  BY <1>1, <1>2, <1>3

\* The shares of an observed week, positive where there are hours.
LEMMA SharesType ==
    ASSUME past \in Histories, NEW ps \in SUBSET Projects, NEW w \in Observed(ps), NEW d \in Weekdays
    PROVE  /\ Shares(ps)[w][d] \in NonNegative
           /\ Worked(w, ps)[d] # Zero => Shares(ps)[w][d] # Zero
<1>1. w \in HistoryWeeks
  BY ObservedType
<1>2. PICK worked : worked = Worked(w, ps)
  OBVIOUS
<1>3. PICK available : available = Available(w)
  OBVIOUS
<1>4. \A e \in Weekdays : available[e] = AvailableShare(w, e) /\ available[e] \in NonNegative
  BY <1>1, <1>3, AvailableType DEF Available
<1>5. /\ Sum(available, Weekdays) \in NonNegative
      /\ available[d] # Zero => Sum(available, Weekdays) # Zero
  BY <1>4, FiniteSets, NonNegativeSum
<1>6. worked[d] \in NonNegative /\ (worked[d] # Zero => available[d] # Zero)
  BY <1>1, <1>2, <1>4, WorkedType
<1>7. Sum(worked, Weekdays) \in NonNegative /\ Sum(worked, Weekdays) # Zero
  BY <1>2, ObservedType
<1>8. Recency[w] \in NonNegative /\ Recency[w] # Zero
  BY <1>1, PastWeek
<1>9. PICK a \in NonNegative, b \in NonNegative, c \in NonNegative, r \in NonNegative :
          a = worked[d] /\ b = Sum(available, Weekdays) /\ c = Sum(worked, Weekdays) /\ r = Recency[w]
  BY <1>5, <1>6, <1>7, <1>8
<1>10. Shares(ps)[w][d] = Times(r, Over(Times(a, b), c))
  BY <1>2, <1>3, <1>9 DEF Shares, WeekShares
<1>11. Times(a, b) \in NonNegative /\ (a # Zero => Times(a, b) # Zero)
  BY <1>5, <1>6, <1>9, NonNegativeClosed
<1>12. PICK t \in NonNegative : t = Times(a, b)
  BY <1>11
<1>13. Over(t, c) \in NonNegative /\ (t # Zero => Over(t, c) # Zero)
  BY <1>7, <1>9, NonNegativeClosed
<1>14. PICK o \in NonNegative : o = Over(t, c)
  BY <1>13
<1>15. Times(r, o) \in NonNegative /\ (o # Zero => Times(r, o) # Zero)
  BY <1>8, <1>9, NonNegativeClosed
<1> QED
  BY <1>2, <1>9, <1>10, <1>11, <1>12, <1>13, <1>14, <1>15

\* How much of a weekday the observed weeks had.
LEMMA ExposureType ==
    ASSUME past \in Histories, NEW ps \in SUBSET Projects, NEW d \in Weekdays
    PROVE  /\ Exposure(ps, d) \in NonNegative
           /\ \A w \in Observed(ps) : AvailableShare(w, d) # Zero => Exposure(ps, d) # Zero
<1>1. PICK f : f = [w \in Observed(ps) |-> Times(Recency[w], AvailableShare(w, d))]
  OBVIOUS
<1>2. ASSUME NEW w \in Observed(ps)
      PROVE  f[w] \in NonNegative /\ (AvailableShare(w, d) # Zero => f[w] # Zero)
  <2>1. w \in HistoryWeeks
    BY ObservedType
  <2>2. PICK r \in NonNegative, a \in NonNegative : r = Recency[w] /\ a = AvailableShare(w, d) /\ r # Zero
    BY <2>1, PastWeek, AvailableType
  <2>3. Times(r, a) \in NonNegative /\ (a # Zero => Times(r, a) # Zero)
    BY <2>2, NonNegativeClosed
  <2> QED
    BY <1>1, <2>2, <2>3
<1>3. Sum(f, Observed(ps)) \in NonNegative /\ \A w \in Observed(ps) : f[w] # Zero => Sum(f, Observed(ps)) # Zero
  BY <1>2, ObservedType, NonNegativeSum
<1> QED
  BY <1>1, <1>2, <1>3 DEF Exposure

\* The hours of a weekday in all observed weeks together.
LEMMA SharedType ==
    ASSUME past \in Histories, NEW ps \in SUBSET Projects, NEW d \in Weekdays,
           NEW shared, shared = Sum([w \in Observed(ps) |-> Shares(ps)[w][d]], Observed(ps))
    PROVE  /\ shared \in NonNegative
           /\ \A w \in Observed(ps) : Worked(w, ps)[d] # Zero => shared # Zero
<1>1. PICK f : f = [w \in Observed(ps) |-> Shares(ps)[w][d]]
  OBVIOUS
<1>2. \A w \in Observed(ps) : f[w] \in NonNegative /\ (Worked(w, ps)[d] # Zero => f[w] # Zero)
  BY <1>1, SharesType
<1>3. Sum(f, Observed(ps)) \in NonNegative /\ \A w \in Observed(ps) : f[w] # Zero => Sum(f, Observed(ps)) # Zero
  BY <1>2, ObservedType, NonNegativeSum
<1> QED
  BY <1>1, <1>2, <1>3

\* The rate of a weekday.
LEMMA DayRateType ==
    ASSUME NEW shared \in NonNegative, NEW exposure \in NonNegative, NEW fallback \in NonNegative
    PROVE  /\ DayRate(shared, exposure, fallback) \in NonNegative
           /\ exposure # Zero /\ shared # Zero => DayRate(shared, exposure, fallback) # Zero
<1>1. CASE exposure = Zero
  <2>1. <<Cardinality(Weekdays), 1>> \in NonNegative
    BY FiniteSets, NonNegativeValues DEF Positive
  <2>2. PICK n \in NonNegative : n = <<Cardinality(Weekdays), 1>>
    BY <2>1
  <2>3. Times(fallback, n) \in NonNegative
    BY NonNegativeClosed
  <2> QED
    BY <1>1, <2>2, <2>3 DEF DayRate
<1>2. CASE exposure # Zero
  BY <1>2, NonNegativeClosed DEF DayRate
<1> QED
  BY <1>1, <1>2

\* The rates of the weekdays.
LEMMA RatesType ==
    ASSUME past \in Histories, NEW ps \in SUBSET Projects,
           NEW fallback \in [Weekdays -> NonNegative],
           NEW rates, rates = Rates(ps, Shares(ps), fallback)
    PROVE  /\ \A d \in Weekdays : rates[d] \in NonNegative
           /\ Sum(rates, Weekdays) \in NonNegative
           /\ Observed(ps) # {} => Sum(rates, Weekdays) # Zero
<1>1. DOMAIN Shares(ps) = Observed(ps)
  BY DEF Shares
<1>2. ASSUME NEW d \in Weekdays
      PROVE  /\ rates[d] \in NonNegative
             /\ \A w \in Observed(ps) : Worked(w, ps)[d] # Zero => rates[d] # Zero
  <2>1. PICK shared : shared = Sum([w \in Observed(ps) |-> Shares(ps)[w][d]], Observed(ps))
    OBVIOUS
  <2>2. PICK exposure : exposure = Exposure(ps, d)
    OBVIOUS
  <2>3. rates[d] = DayRate(shared, exposure, fallback[d])
    BY <1>1, <2>1, <2>2 DEF Rates
  <2>4. shared \in NonNegative /\ \A w \in Observed(ps) : Worked(w, ps)[d] # Zero => shared # Zero
    BY <2>1, SharedType
  <2>5. exposure \in NonNegative /\ \A w \in Observed(ps) : AvailableShare(w, d) # Zero => exposure # Zero
    BY <2>2, ExposureType
  <2>6. fallback[d] \in NonNegative
    OBVIOUS
  <2>7. ASSUME NEW w \in Observed(ps), Worked(w, ps)[d] # Zero PROVE exposure # Zero /\ shared # Zero
    <3>1. w \in HistoryWeeks
      BY ObservedType
    <3>2. AvailableShare(w, d) # Zero
      BY <2>7, <3>1, WorkedType
    <3> QED
      BY <2>4, <2>5, <2>7, <3>2
  <2> QED
    BY <2>3, <2>4, <2>5, <2>6, <2>7, DayRateType
<1>3. Sum(rates, Weekdays) \in NonNegative /\ \A d \in Weekdays : rates[d] # Zero => Sum(rates, Weekdays) # Zero
  BY <1>2, FiniteSets, NonNegativeSum
<1>4. ASSUME NEW w \in Observed(ps) PROVE Sum(rates, Weekdays) # Zero
  <2>1. PICK d \in Weekdays : Worked(w, ps)[d] # Zero
    BY ObservedType
  <2> QED
    BY <1>2, <1>3, <2>1
<1> QED
  BY <1>2, <1>3, <1>4

\* How far the observed weeks are believed.
LEMMA ConfidenceType ==
    ASSUME past \in Histories, NEW ps \in SUBSET Projects,
           NEW c, c = Smaller(One, Fraction(Cardinality(Observed(ps)), FullEvidence))
    PROVE  c \in NonNegative /\ Minus(One, c) \in NonNegative
<1>1. Cardinality(Observed(ps)) \in Nat
  BY ObservedType, FS_CardinalityType
<1>2. FullEvidence \in Positive
  BY HistoryAssumption DEF Positive
<1>3. PICK q \in NonNegative : q = Fraction(Cardinality(Observed(ps)), FullEvidence)
  BY <1>1, <1>2, NonNegativeValues
<1>4. c = Smaller(One, q)
  BY <1>3
<1>5. One \in NonNegative /\ One \in Rationals /\ q \in Rationals
  BY NonNegativeValues DEF NonNegative
<1>6. c \in {One, q} /\ ~ Less(One, c)
  BY <1>4, <1>5, ExtremeLaws
<1>7. c \in NonNegative /\ c \in Rationals
  BY <1>5, <1>6
<1>8. Minus(One, c) \in Rationals /\ ~ Less(Minus(One, c), Zero)
  BY <1>5, <1>6, <1>7, PlusType, OrderLaws
<1> QED
  BY <1>7, <1>8 DEF NonNegative

\* The weights of the weekdays for some projects.
LEMMA PatternType ==
    ASSUME past \in Histories, NEW ps \in SUBSET Projects,
           NEW fallback \in [Weekdays -> NonNegative]
    PROVE  monthHistoryPattern(ps, fallback) \in [Weekdays -> NonNegative]
<1>1. CASE Observed(ps) = {}
  BY <1>1 DEF monthHistoryPattern
<1>2. CASE Observed(ps) # {}
  <2>1. PICK rates : rates = Rates(ps, Shares(ps), fallback)
    OBVIOUS
  <2>2. PICK c : c = Smaller(One, Fraction(Cardinality(Observed(ps)), FullEvidence))
    OBVIOUS
  <2>3. monthHistoryPattern(ps, fallback) = Blend(rates, fallback, c)
    BY <1>2, <2>1, <2>2 DEF monthHistoryPattern
  <2>4. c \in NonNegative /\ Minus(One, c) \in NonNegative
    BY <2>2, ConfidenceType
  <2>5. PICK s \in NonNegative : s = Sum(rates, Weekdays) /\ s # Zero
    BY <1>2, <2>1, RatesType
  <2>6. ASSUME NEW d \in Weekdays
        PROVE  Plus(Over(Times(c, rates[d]), s), Times(Minus(One, c), fallback[d])) \in NonNegative
    <3>1. PICK r \in NonNegative, f \in NonNegative : r = rates[d] /\ f = fallback[d]
      BY <2>1, RatesType
    <3>2. PICK t \in NonNegative, u \in NonNegative : t = Times(c, r) /\ u = Times(Minus(One, c), f)
      BY <2>4, NonNegativeClosed
    <3>3. PICK o \in NonNegative : o = Over(t, s)
      BY <2>5, NonNegativeClosed
    <3>4. Plus(o, u) \in NonNegative
      BY NonNegativeClosed
    <3> QED
      BY <3>1, <3>2, <3>3, <3>4
  <2> QED
    BY <2>3, <2>5, <2>6 DEF Blend
<1> QED
  BY <1>1, <1>2

\* Every project has weights that are not negative.
LEMMA HabitsType ==
    ASSUME past \in Histories
    PROVE  buildMonthHistories \in [Projects -> [Weekdays -> NonNegative]]
<1>1. Uniform \in [Weekdays -> NonNegative]
  <2>1. PICK n \in Positive : n = Cardinality(Weekdays)
    BY FiniteSets
  <2>2. Coprime(1, n)
    <3>1. 1 * 1 + 0 * n = 1 /\ 1 \in Int /\ 0 \in Int
      BY DEF Positive
    <3> QED
      BY <3>1 DEF Coprime
  <2>3. 1 \in Int /\ 1 \in Nat
    OBVIOUS
  <2>4. <<1, n>> = Fraction(1, n)
    BY <2>2, <2>3, LowestTerms
  <2>5. <<1, n>> \in NonNegative
    BY <2>3, <2>4, NonNegativeValues
  <2> QED
    BY <2>1, <2>5 DEF Uniform
<1>2. PICK general \in [Weekdays -> NonNegative] : general = monthHistoryPattern(Projects, Uniform)
  BY <1>1, PatternType
<1>3. \A p \in Projects : Group(p) \in SUBSET Projects
  BY DEF Group
<1>4. \A p \in Projects : monthHistoryPattern(Group(p), general) \in [Weekdays -> NonNegative]
  BY <1>3, PatternType
<1> QED
  BY <1>2, <1>4 DEF buildMonthHistories, GroupPatterns

-----------------------------------------------------------------------------
(***************************************************************************)
(* Absence is no habit.  Of an observed week, the share of a day is just   *)
(* what one could work on it; so every weekday has the rate 1.             *)
(***************************************************************************)

\* Hours of a week, in proportion to the days there were.
LEMMA SteadyWeek ==
    ASSUME past \in Histories, Steady, NEW w \in HistoryWeeks, NEW ps \in SUBSET Projects,
           NEW d \in Weekdays, NEW e \in Weekdays
    PROVE  Times(Worked(w, ps)[d], AvailableShare(w, e)) = Times(Worked(w, ps)[e], AvailableShare(w, d))
<1>1. PICK a \in Rationals, b \in Rationals : a = AvailableShare(w, d) /\ b = AvailableShare(w, e)
  BY AvailableType DEF NonNegative
<1>2. PICK x \in Rationals, y \in Rationals : x = Worked(w, ps)[d] /\ y = Worked(w, ps)[e]
  BY WorkedType DEF NonNegative
<1>3. CASE a = Zero
  <2>1. x = Zero
    BY <1>1, <1>2, <1>3, WorkedType
  <2>2. Times(x, b) = Zero /\ Times(y, a) = Zero
    BY <1>3, <2>1, TimesType
  <2> QED
    BY <1>1, <1>2, <2>2
<1>4. CASE b = Zero
  <2>1. y = Zero
    BY <1>1, <1>2, <1>4, WorkedType
  <2>2. Times(x, b) = Zero /\ Times(y, a) = Zero
    BY <1>4, <2>1, TimesType
  <2> QED
    BY <1>1, <1>2, <2>2
<1>5. CASE a # Zero /\ b # Zero
  <2>1. PICK f : f = [p \in ps |-> <<past[w].hours[d][p], 1>>]
    OBVIOUS
  <2>2. PICK g : g = [p \in ps |-> <<past[w].hours[e][p], 1>>]
    OBVIOUS
  <2>3. x = Sum(f, ps) /\ y = Sum(g, ps)
    BY <1>1, <1>2, <1>5, <2>1, <2>2 DEF Worked
  <2>4. ASSUME NEW p \in ps
        PROVE  f[p] \in Rationals /\ g[p] \in Rationals /\ Times(f[p], b) = Times(g[p], a)
    <3>1. past[w].hours[d][p] \in Int /\ past[w].hours[e][p] \in Int
      BY PastWeek
    <3>2. f[p] = <<past[w].hours[d][p], 1>> /\ g[p] = <<past[w].hours[e][p], 1>>
      BY <2>1, <2>2
    <3>3. f[p] \in Rationals /\ g[p] \in Rationals
      BY <3>1, <3>2, WholeFraction
    <3>4. Times(<<past[w].hours[d][p], 1>>, AvailableShare(w, e)) =
          Times(<<past[w].hours[e][p], 1>>, AvailableShare(w, d))
      BY <1>1, <1>5 DEF Steady
    <3> QED
      BY <1>1, <3>2, <3>3, <3>4
  <2>5. PICK h : h = [p \in ps |-> Times(b, f[p])]
    OBVIOUS
  <2>6. \A p \in ps : f[p] \in Rationals /\ h[p] = Times(b, f[p])
    BY <2>4, <2>5
  <2>7. \A p \in ps : g[p] \in Rationals /\ h[p] = Times(a, g[p])
    BY <2>4, <2>5, TimesLaws
  <2>8. IsFiniteSet(ps)
    BY FiniteSets, FS_Subset
  <2>9. Sum(h, ps) = Times(b, x)
    BY <2>3, <2>6, <2>8, SumTimes
  <2>10. Sum(h, ps) = Times(a, y)
    BY <2>3, <2>7, <2>8, SumTimes
  <2>11. Times(x, b) = Times(b, x) /\ Times(y, a) = Times(a, y)
    BY TimesLaws
  <2> QED
    BY <1>1, <1>2, <2>9, <2>10, <2>11
<1> QED
  BY <1>3, <1>4, <1>5

\* The share of a day is what one could work on it.
LEMMA SteadyShare ==
    ASSUME past \in Histories, Steady, NEW ps \in SUBSET Projects, NEW w \in Observed(ps),
           NEW d \in Weekdays
    PROVE  Shares(ps)[w][d] = Times(Recency[w], AvailableShare(w, d))
<1>1. w \in HistoryWeeks
  BY ObservedType
<1>2. PICK worked : worked = Worked(w, ps)
  OBVIOUS
<1>3. PICK available : available = Available(w)
  OBVIOUS
<1>4. \A e \in Weekdays : available[e] = AvailableShare(w, e) /\ available[e] \in Rationals
  BY <1>1, <1>3, AvailableType DEF Available, NonNegative
<1>5. \A e \in Weekdays : worked[e] \in Rationals
  BY <1>1, <1>2, WorkedType DEF NonNegative
<1>6. \A e \in Weekdays : Times(worked[d], available[e]) = Times(worked[e], available[d])
  BY <1>1, <1>2, <1>4, SteadyWeek
<1>7. PICK h : h = [e \in Weekdays |-> Times(worked[d], available[e])]
  OBVIOUS
<1>8. PICK x \in Rationals, a \in Rationals : x = worked[d] /\ a = available[d]
  BY <1>4, <1>5
<1>9. Sum(h, Weekdays) = Times(x, Sum(available, Weekdays))
  <2>1. \A e \in Weekdays : available[e] \in Rationals /\ h[e] = Times(x, available[e])
    BY <1>4, <1>7, <1>8
  <2> QED
    BY <2>1, FiniteSets, SumTimes
<1>10. Sum(h, Weekdays) = Times(a, Sum(worked, Weekdays))
  <2>1. \A e \in Weekdays : worked[e] \in Rationals /\ h[e] = Times(a, worked[e])
    BY <1>5, <1>6, <1>7, <1>8, TimesLaws
  <2> QED
    BY <2>1, FiniteSets, SumTimes
<1>11. PICK c \in Rationals : c = Sum(worked, Weekdays) /\ Less(Zero, c)
  <2>1. Sum(worked, Weekdays) \in NonNegative /\ Sum(worked, Weekdays) # Zero
    BY <1>2, ObservedType
  <2> QED
    BY <2>1, ConstantTypes, LessIsOrder DEF NonNegative
<1>12. Over(Times(a, c), c) = a
  BY <1>11, OverLaws
<1>13. Shares(ps)[w][d] = Times(Recency[w], Over(Times(x, Sum(available, Weekdays)), c))
  BY <1>2, <1>3, <1>8, <1>11 DEF Shares, WeekShares
<1> QED
  BY <1>4, <1>8, <1>9, <1>10, <1>11, <1>12, <1>13

\* Every weekday has the rate 1.
LEMMA SteadyRate ==
    ASSUME past \in Histories, Steady, NEW ps \in SUBSET Projects, NEW d \in Weekdays
    PROVE  Rates(ps, Shares(ps), Uniform)[d] = One
<1>1. DOMAIN Shares(ps) = Observed(ps)
  BY DEF Shares
<1>2. PICK f : f = [w \in Observed(ps) |-> Shares(ps)[w][d]]
  OBVIOUS
<1>3. PICK g : g = [w \in Observed(ps) |-> Times(Recency[w], AvailableShare(w, d))]
  OBVIOUS
<1>4. \A w \in Observed(ps) : f[w] \in Rationals /\ f[w] = g[w]
  BY <1>2, <1>3, SharesType, SteadyShare DEF NonNegative
<1>5. Sum(f, Observed(ps)) = Sum(g, Observed(ps))
  BY <1>4, ObservedType, SumSame
<1>6. PICK x \in Rationals : x = Exposure(ps, d) /\ ~ Less(x, Zero)
  BY ExposureType DEF NonNegative
<1>7. Sum(f, Observed(ps)) = x
  BY <1>3, <1>5, <1>6 DEF Exposure
<1>8. Rates(ps, Shares(ps), Uniform)[d] = DayRate(x, x, <<1, Cardinality(Weekdays)>>)
  BY <1>1, <1>2, <1>6, <1>7 DEF Rates, Uniform
<1>9. CASE x = Zero
  <2>1. PICK n \in Positive : n = Cardinality(Weekdays)
    BY FiniteSets
  <2>2. n \in Int /\ 1 \in Int /\ 1 \in Positive /\ n * 1 = n /\ 1 * n = n
    BY DEF Positive
  <2>3. Coprime(1, n) /\ Coprime(n, 1)
    <3>1. 1 * 1 + 0 * n = 1 /\ 0 * n + 1 * 1 = 1 /\ 0 \in Int
      BY <2>2
    <3> QED
      BY <2>2, <3>1 DEF Coprime
  <2>4. Times(<<1, n>>, <<n, 1>>) = Fraction(1 * n, n * 1)
    BY <2>2, <2>3, TimesOfPairs
  <2>5. Fraction(n, n) = Fraction(1, 1)
    BY <2>2, SameFraction
  <2>6. One = Fraction(1, 1)
    BY <2>2, WholeFraction DEF One
  <2> QED
    BY <1>8, <1>9, <2>1, <2>2, <2>4, <2>5, <2>6 DEF DayRate
<1>10. CASE x # Zero
  <2>1. Less(Zero, x)
    BY <1>6, <1>10, ConstantTypes, LessIsOrder
  <2> QED
    BY <1>8, <1>10, <2>1, OverLaws DEF DayRate
<1> QED
  BY <1>9, <1>10

\* Blending one even pattern with the other leaves it even.
LEMMA EvenBlend ==
    ASSUME NEW rates, \A d \in Weekdays : rates[d] = One, NEW c \in Rationals
    PROVE  Blend(rates, Uniform, c) = Uniform
<1>1. PICK n \in Positive : n = Cardinality(Weekdays)
  BY FiniteSets
<1>2. n \in Int /\ n \in Nat /\ 1 \in Int /\ 1 \in Positive
  BY DEF Positive
<1>3. Sum(rates, Weekdays) = Fraction(n, 1)
  <2>1. PICK m : m = [d \in Weekdays |-> 1]
    OBVIOUS
  <2>2. One = Fraction(1, 1)
    BY <1>2, WholeFraction DEF One
  <2>3. \A d \in Weekdays : m[d] \in Int /\ rates[d] = Fraction(m[d], 1)
    BY <2>1, <2>2
  <2>4. Sum(rates, Weekdays) = Fraction(SumFunctionOnSet(m, Weekdays), 1)
    BY <1>2, <2>3, FiniteSets, SumOfNumerators
  <2>5. SumFunctionOnSet(m, Weekdays) = n
    BY <1>1, <2>1, FiniteSets, SumOfOnes
  <2> QED
    BY <2>4, <2>5
<1>4. <<1, n>> = Fraction(1, n)
  <2>1. Coprime(1, n)
    <3>1. 1 * 1 + 0 * n = 1 /\ 0 \in Int
      BY <1>2
    <3> QED
      BY <1>2, <3>1 DEF Coprime
  <2> QED
    BY <1>2, <2>1, LowestTerms
<1>5. Plus(Over(Times(c, One), Fraction(n, 1)), Times(Minus(One, c), <<1, n>>)) = <<1, n>>
  <2>1. PICK x \in Int, d \in Positive : c = Fraction(x, d)
    BY RationalParts
  <2>2. d \in Int /\ d * n \in Positive /\ d * n \in Int /\ x * 1 = x /\ d * 1 = d /\ 1 * d = d /\ d - x \in Int
    BY <1>2, <2>1, PositiveProduct DEF Positive
  <2>3. Times(c, One) = c
    BY ConstantTypes, TimesLaws
  <2>4. Over(c, Fraction(n, 1)) = Fraction(x, d * n)
    <3>1. Over(Fraction(x, d), Fraction(n, 1)) = Fraction(x * 1, d * n)
      BY <1>2, DivideFractions
    <3> QED
      BY <2>1, <2>2, <3>1
  <2>5. One = Fraction(d, d)
    <3>1. One = Fraction(1, 1)
      BY <1>2, WholeFraction DEF One
    <3>2. Fraction(1, 1) = Fraction(d, d)
      BY <1>2, <2>2, SameFraction
    <3> QED
      BY <3>1, <3>2
  <2>6. Minus(One, c) = Fraction(d - x, d)
    BY <2>1, <2>2, <2>5, SubtractFractions
  <2>7. Times(Minus(One, c), <<1, n>>) = Fraction(d - x, d * n)
    <3>1. Times(Fraction(d - x, d), Fraction(1, n)) = Fraction((d - x) * 1, d * n)
      BY <1>2, <2>2, MultiplyFractions
    <3>2. (d - x) * 1 = d - x
      BY <2>2
    <3> QED
      BY <1>4, <2>6, <3>1, <3>2
  <2>8. Plus(Fraction(x, d * n), Fraction(d - x, d * n)) = Fraction(x + (d - x), d * n)
    BY <2>2, AddFractions
  <2>9. x + (d - x) = d
    BY <2>2
  <2>10. Fraction(d, d * n) = Fraction(1, n)
    <3>1. d * n = 1 * (d * n)
      BY <2>2
    <3> QED
      BY <1>2, <2>2, <3>1, SameFraction
  <2> QED
    BY <1>4, <2>3, <2>4, <2>7, <2>8, <2>9, <2>10
<1>6. \A d \in Weekdays :
          Plus(Over(Times(c, rates[d]), Sum(rates, Weekdays)), Times(Minus(One, c), Uniform[d])) = <<1, n>>
  BY <1>1, <1>3, <1>5 DEF Uniform
<1> QED
  BY <1>1, <1>6 DEF Blend, Uniform

\* So the pattern of any projects is even.
LEMMA SteadyPattern ==
    ASSUME past \in Histories, Steady, NEW ps \in SUBSET Projects
    PROVE  monthHistoryPattern(ps, Uniform) = Uniform
<1>1. CASE Observed(ps) = {}
  BY <1>1 DEF monthHistoryPattern
<1>2. CASE Observed(ps) # {}
  <2>1. PICK c \in Rationals : c = Smaller(One, Fraction(Cardinality(Observed(ps)), FullEvidence))
    BY ConfidenceType DEF NonNegative
  <2>2. PICK rates : rates = Rates(ps, Shares(ps), Uniform)
    OBVIOUS
  <2>3. \A d \in Weekdays : rates[d] = One
    BY <2>2, SteadyRate
  <2>4. Blend(rates, Uniform, c) = Uniform
    BY <2>3, EvenBlend
  <2> QED
    BY <1>2, <2>1, <2>2, <2>4 DEF monthHistoryPattern
<1> QED
  BY <1>1, <1>2

\* And so is that of every project.
LEMMA SteadyHabits ==
    ASSUME past \in Histories, Steady
    PROVE  \A p \in Projects : buildMonthHistories[p] = Uniform
<1>1. monthHistoryPattern(Projects, Uniform) = Uniform
  BY SteadyPattern
<1>2. \A p \in Projects : Group(p) \in SUBSET Projects
  BY DEF Group
<1>3. \A p \in Projects : monthHistoryPattern(Group(p), Uniform) = Uniform
  BY <1>2, SteadyPattern
<1> QED
  BY <1>1, <1>3 DEF buildMonthHistories, GroupPatterns

\* What was learned of a steady user stays even: the weeks before and the habit
\* drawn from them do not change while weeks are planned.
LearnedEvenly == past \in Histories /\ (Steady => \A p \in Projects : habit[p] = Uniform)

\* It holds at first, and in every state.
THEOREM LearnedCorrect == Spec => []LearnedEvenly
<1>1. Init => LearnedEvenly
  BY SteadyHabits DEF Init, LearnedEvenly
<1>2. LearnedEvenly /\ [Next]_vars => LearnedEvenly'
  <2> SUFFICES ASSUME LearnedEvenly, [Next]_vars PROVE LearnedEvenly'
    OBVIOUS
  <2>1. past' = past /\ habit' = habit
    BY DEF Next, vars, ReadWeek, Pass, Give, NextProject, EndWeek
  <2>2. Steady' => Steady
    BY <2>1 DEF Steady, AvailableShare
  <2> QED
    BY <2>1, <2>2 DEF LearnedEvenly
<1> QED
  BY <1>1, <1>2, PTL DEF Spec

\* Holidays and vacation are not learned as habitual days off (AbsenceIsNoHabit
\* of the run): monthHistoryPattern divides the hours of a weekday by the days
\* there were.
THEOREM AbsenceCorrect == Spec => []AbsenceIsNoHabit
<1>1. LearnedEvenly => AbsenceIsNoHabit
  BY DEF LearnedEvenly, AbsenceIsNoHabit
<1> QED
  BY <1>1, LearnedCorrect, PTL

-----------------------------------------------------------------------------
(***************************************************************************)
(* Types, and the project that goes first.                                 *)
(***************************************************************************)

\* Of finitely many numbers one is the greatest.
LEMMA GreatestValue ==
    ASSUME NEW S, IsFiniteSet(S), S # {}, NEW f, \A x \in S : f[x] \in Rationals
    PROVE  \E x \in S : \A y \in S : ~ Less(f[x], f[y])
<1> DEFINE Greatest(T) == \E x \in T : \A y \in T : ~ Less(f[x], f[y])
           Q == {T \in SUBSET S : T # {} => Greatest(T)}
<1>1. {} \in Q
  OBVIOUS
<1>2. ASSUME NEW T \in Q, NEW z \in S \ T PROVE T \cup {z} \in Q
  <2>1. f[z] \in Rationals /\ ~ Less(f[z], f[z])
    BY LessIsOrder
  <2>2. CASE T = {}
    BY <2>1, <2>2
  <2>3. CASE T # {}
    <3>1. PICK x \in T : \A y \in T : ~ Less(f[x], f[y])
      BY <2>3
    <3>2. f[x] \in Rationals /\ \A y \in T : f[y] \in Rationals
      OBVIOUS
    <3>3. CASE ~ Less(f[x], f[z])
      <4>1. \A y \in T \cup {z} : ~ Less(f[x], f[y])
        BY <3>1, <3>3
      <4> QED
        BY <4>1
    <3>4. CASE Less(f[x], f[z])
      <4>1. \A y \in T : Less(f[z], f[y]) => Less(f[x], f[y])
        BY <2>1, <3>2, <3>4, LessIsOrder
      <4>2. \A y \in T \cup {z} : ~ Less(f[z], f[y])
        BY <2>1, <3>1, <4>1
      <4> QED
        BY <4>2
    <3> QED
      BY <3>3, <3>4
  <2> QED
    BY <2>2, <2>3
<1>3. S \in Q
  <2> HIDE DEF Q
  <2>1. Q \in SUBSET (SUBSET S)
    BY DEF Q
  <2> QED
    BY <1>1, <1>2, <2>1, SubsetInduction
<1> QED
  BY <1>3

\* The peak of a function is its greatest value.
LEMMA PeakType ==
    ASSUME NEW S, IsFiniteSet(S), S # {}, NEW f, \A x \in S : f[x] \in Rationals
    PROVE  Peak(f, S) \in Rationals
<1>1. PICK x \in S : \A y \in S : ~ Less(f[x], f[y])
  BY GreatestValue
<1>2. \E a \in {f[y] : y \in S} : \A y \in S : ~ Less(a, f[y])
  BY <1>1
<1>3. Peak(f, S) \in {f[y] : y \in S}
  BY <1>2 DEF Peak
<1> QED
  BY <1>3

\* What is known of a week that is being planned.
Planning ==
    /\ week \in WeekToPlan
    /\ habit \in [Projects -> [Weekdays -> NonNegative]]
    /\ total \in [Days -> Rationals]
    /\ estimated \in [Projects -> [Days -> NonNegative]]
    /\ left \in [Projects -> NonNegative]
    /\ todo \subseteq Projects
    /\ pass \in 0 .. Cardinality(Days)

\* The state: no week, and nothing distributed, or a week that is being planned.
PlanShape ==
    /\ past \in Histories
    /\ week \in Weeks[past] \cup {NoWeek}
    /\ habit \in [Projects -> [Weekdays -> NonNegative]]
    /\ total \in [Days -> Rationals]
    /\ estimated \in [Projects -> [Days -> NonNegative]]
    /\ left \in [Projects -> NonNegative]
    /\ todo \subseteq Projects
    /\ pass \in 0 .. Cardinality(Days)
    /\ week = NoWeek => todo = {} /\ \A p \in Projects, d \in Days : estimated[p][d] = Zero
    /\ todo = {} => pass = 0

\* A week of the constant is one that can be planned.
LEMMA ShapePlans == ASSUME PlanShape, week # NoWeek PROVE Planning
  BY WeeksAssumption DEF PlanShape, Planning

\* Hours that stay, capacities and rooms are numbers.
LEMMA RoomType ==
    ASSUME Planning, NEW d \in Days
    PROVE  /\ Capacity(d) \in NonNegative
           /\ Room(d) \in Rationals
           /\ total[d] \in Rationals
<1>1. week.vacation[d] \in Nat
  BY DEF Planning, WeekToPlan
<1>2. PICK v \in Int : v = HolidayDayHours - week.vacation[d]
  BY <1>1 DEF HolidayDayHours
<1>3. <<v, 1>> \in Rationals
  BY WholeFraction
<1>4. Larger(Zero, <<v, 1>>) \in NonNegative
  BY <1>3, NonNegativeValues
<1>5. Capacity(d) \in NonNegative
  BY <1>2, <1>4, NonNegativeValues DEF Capacity
<1>6. PICK c \in Rationals, t \in Rationals : c = Capacity(d) /\ t = total[d]
  BY <1>5 DEF NonNegative, Planning
<1>7. Minus(c, t) \in Rationals
  BY PlusType
<1> QED
  BY <1>5, <1>6, <1>7 DEF Room

\* Hours that are booked are whole numbers.
LEMMA BookedType ==
    ASSUME NEW w \in WeekToPlan, NEW d \in Days, NEW p \in Projects
    PROVE  /\ w.stored[d][p] \in Nat /\ w.stored[d][p] \in Int
           /\ <<w.stored[d][p], 1>> \in NonNegative
           /\ <<w.stored[d][p], 1>> = Fraction(w.stored[d][p], 1)
<1>1. w.stored[d][p] \in Nat
  BY DEF WeekToPlan
<1>2. PICK k \in Nat : k = w.stored[d][p]
  BY <1>1
<1>3. k \in Int
  OBVIOUS
<1> QED
  BY <1>2, <1>3, NonNegativeValues, WholeFraction

\* So are the sums of them.
LEMMA KeptType ==
    ASSUME NEW w \in WeekToPlan
    PROVE  /\ \A d \in Days : Kept(w, d) \in NonNegative
           /\ \A p \in Projects, ds \in SUBSET Days : OnDays(w, p, ds) \in NonNegative
           /\ \A p \in Projects : Remaining(w, p) \in NonNegative
<1>1. ASSUME NEW d \in Days PROVE Kept(w, d) \in NonNegative
  <2>1. PICK f : f = [p \in Projects |-> <<w.stored[d][p], 1>>]
    OBVIOUS
  <2>2. \A p \in Projects : f[p] \in NonNegative
    BY <2>1, BookedType
  <2>3. Sum(f, Projects) \in NonNegative
    BY <2>2, FiniteSets, NonNegativeSum
  <2> QED
    BY <2>1, <2>3, NonNegativeValues DEF Kept
<1>2. ASSUME NEW p \in Projects, NEW ds \in SUBSET Days PROVE OnDays(w, p, ds) \in NonNegative
  <2>1. PICK f : f = [d \in ds |-> <<w.stored[d][p], 1>>]
    OBVIOUS
  <2>2. \A d \in ds : f[d] \in NonNegative
    BY <2>1, BookedType
  <2>3. IsFiniteSet(ds)
    BY FiniteSets, FS_Subset
  <2>4. Sum(f, ds) \in NonNegative
    BY <2>2, <2>3, NonNegativeSum
  <2> QED
    BY <2>1, <2>4 DEF OnDays
<1>3. w.inYear \subseteq Days
  BY DEF WeekToPlan
<1> QED
  BY <1>1, <1>2, <1>3 DEF Remaining

\* Open days are weekdays of the week.
LEMMA OpenDaysType ==
    ASSUME Planning, NEW p \in Projects
    PROVE  /\ OpenDays(p) \subseteq Weekdays /\ OpenDays(p) \subseteq Days
           /\ Eligible(p) \in Nat
           /\ Peak(habit[p], Weekdays) \in Rationals
<1>1. OpenDays(p) \subseteq Weekdays /\ OpenDays(p) \subseteq Days
  BY DEF OpenDays, Weekdays, Planning, WeekToPlan
<1>2. IsFiniteSet({d \in OpenDays(p) : Less(Kept(week, d), Capacity(d))})
  BY <1>1, FiniteSets, FS_Subset
<1>3. Eligible(p) \in Nat
  BY <1>2, FS_CardinalityType DEF Eligible
<1>4. \A d \in Weekdays : habit[p][d] \in Rationals
  BY DEF Planning, NonNegative
<1>5. Peak(habit[p], Weekdays) \in Rationals
  BY <1>4, FiniteSets, DaysAssumption, PeakType
<1> QED
  BY <1>1, <1>3, <1>5

\* Among the projects that wait there is one that goes before all others: the
\* fewest days, of these the strongest preference, of these the least ID.
LEMMA FirstLeads ==
    ASSUME Planning, todo # {}
    PROVE  /\ First \in todo /\ First \in Projects
           /\ \A q \in todo \ {First} : Eligible(First) <= Eligible(q)
<1>1. todo \subseteq Projects /\ \A p \in todo : Eligible(p) \in Nat /\ p \in Nat
  BY OpenDaysType, FiniteSets DEF Planning
<1>2. PICK m \in {Eligible(p) : p \in todo} : \A n \in {Eligible(p) : p \in todo} : m <= n
  BY <1>1, LeastNumber
<1>3. PICK narrow : narrow = {p \in todo : Eligible(p) = m}
  OBVIOUS
<1>4. narrow # {} /\ narrow \subseteq Projects /\ IsFiniteSet(narrow)
  BY <1>1, <1>2, <1>3, FiniteSets, FS_Subset
<1>5. PICK f : f = [p \in narrow |-> Peak(habit[p], Weekdays)]
  OBVIOUS
<1>6. \A p \in narrow : f[p] = Peak(habit[p], Weekdays) /\ f[p] \in Rationals
  BY <1>4, <1>5, OpenDaysType
<1>7. PICK s \in narrow : \A q \in narrow : ~ Less(f[s], f[q])
  BY <1>4, <1>6, GreatestValue
<1>8. PICK strong : strong = {p \in narrow : f[p] = f[s]}
  OBVIOUS
<1>9. strong # {} /\ strong \subseteq Nat
  BY <1>1, <1>3, <1>8
<1>10. PICK p \in strong : \A q \in strong : p <= q
  BY <1>9, LeastNumber
<1>11. p \in todo /\ p \in narrow
  BY <1>3, <1>8
<1>12. ASSUME NEW q \in todo \ {p} PROVE GoesFirst(p, q)
  <2>1. Eligible(p) = m /\ Eligible(p) <= Eligible(q) /\ Eligible(q) \in Nat /\ Eligible(p) \in Nat
    BY <1>1, <1>2, <1>3, <1>11
  <2>2. CASE Eligible(p) # Eligible(q)
    <3>1. Eligible(p) < Eligible(q)
      BY <2>1, <2>2
    <3> QED
      BY <3>1 DEF GoesFirst
  <2>3. CASE Eligible(p) = Eligible(q) /\ f[p] # f[q]
    <3>1. q \in narrow
      BY <1>3, <2>1, <2>3
    <3>2. f[p] \in Rationals /\ f[q] \in Rationals /\ ~ Less(f[p], f[q])
      BY <1>6, <1>7, <1>8, <1>11, <3>1
    <3>3. Less(f[q], f[p])
      BY <2>3, <3>2, LessIsOrder
    <3>4. Less(Peak(habit[q], Weekdays), Peak(habit[p], Weekdays))
      BY <1>6, <1>11, <3>1, <3>3
    <3>5. Peak(habit[p], Weekdays) # Peak(habit[q], Weekdays)
      BY <1>6, <1>11, <2>3, <3>1
    <3> QED
      BY <2>3, <3>4, <3>5 DEF GoesFirst
  <2>4. CASE Eligible(p) = Eligible(q) /\ f[p] = f[q]
    <3>1. q \in narrow
      BY <1>3, <2>1, <2>4
    <3>2. q \in strong
      BY <1>8, <2>4, <3>1
    <3>3. p < q
      BY <1>1, <1>10, <1>11, <3>2
    <3>4. Peak(habit[p], Weekdays) = Peak(habit[q], Weekdays)
      BY <1>6, <1>11, <2>4, <3>1
    <3> QED
      BY <2>4, <3>3, <3>4 DEF GoesFirst
  <2> QED
    BY <2>2, <2>3, <2>4
<1>13. First \in todo /\ \A q \in todo \ {First} : GoesFirst(First, q)
  <2>1. \E r \in todo : \A q \in todo \ {r} : GoesFirst(r, q)
    BY <1>11, <1>12
  <2> QED
    BY <2>1 DEF First
<1>14. ASSUME NEW q \in todo \ {First} PROVE Eligible(First) <= Eligible(q)
  <2>1. GoesFirst(First, q) /\ Eligible(First) \in Nat /\ Eligible(q) \in Nat
    BY <1>1, <1>13
  <2>2. Eligible(First) < Eligible(q) \/ Eligible(First) = Eligible(q)
    BY <2>1 DEF GoesFirst
  <2> QED
    BY <2>1, <2>2
<1> QED
  BY <1>1, <1>13, <1>14

\* Who goes first, as a function of the week, the habits and those who wait.
EligibleIn(w, p) ==
    Cardinality({d \in {e \in w.inYear \ (Weekend \cup w.holidays) : e >= w.today /\ e \in w.bookable[p]} :
        Less(Kept(w, d),
             IF d \in w.inYear /\ d \notin Weekend \cup w.holidays
             THEN Larger(Zero, <<HolidayDayHours - w.vacation[d], 1>>)
             ELSE Zero)})

GoesFirstIn(w, h, p, q) ==
    \/ EligibleIn(w, p) < EligibleIn(w, q)
    \/ /\ EligibleIn(w, p) = EligibleIn(w, q)
       /\ \/ Less(Peak(h[q], Weekdays), Peak(h[p], Weekdays))
          \/ Peak(h[p], Weekdays) = Peak(h[q], Weekdays) /\ p < q

FirstIn(w, h, s) == CHOOSE p \in s : \A q \in s \ {p} : GoesFirstIn(w, h, p, q)

\* It stays the same project until that is done.
LEMMA FirstStays ==
    ASSUME week' = week, habit' = habit, todo' = todo
    PROVE  First' = First /\ \A p : Eligible(p)' = Eligible(p)
<1>1. \A p : Eligible(p) = EligibleIn(week, p) /\ Eligible(p)' = EligibleIn(week', p)
  BY DEF Eligible, EligibleIn, OpenDays, Capacity
<1>2. First = FirstIn(week, habit, todo)
  BY DEF First, FirstIn, GoesFirst, GoesFirstIn, Eligible, EligibleIn, OpenDays, Capacity
<1>3. First' = FirstIn(week', habit', todo')
  BY DEF First, FirstIn, GoesFirst, GoesFirstIn, Eligible, EligibleIn, OpenDays, Capacity
<1> QED
  BY <1>1, <1>2, <1>3

-----------------------------------------------------------------------------
(***************************************************************************)
(* One pass over the days.                                                 *)
(***************************************************************************)

\* The weights of a pass: numbers, zero on the days that are not available, and
\* not all zero.
LEMMA WeightsType ==
    ASSUME Planning, NEW p \in Projects
    PROVE  /\ \A d \in Days : /\ Weights(p)[d] \in NonNegative
                              /\ Weights(p)[d] # Zero => monthDayAvailable(p, d)
           /\ \A d \in Days : monthDayAvailable(p, d) /\ Sum(ByRoom(p), Days) = Zero => FALSE
           /\ HasPass(p) => Sum(Weights(p), Days) \in Rationals /\ Less(Zero, Sum(Weights(p), Days))
<1>1. ASSUME NEW d \in Days, monthDayAvailable(p, d)
      PROVE  /\ Room(d) \in NonNegative /\ Room(d) # Zero
             /\ Times(Room(d), habit[p][d]) \in NonNegative
  <2>1. Room(d) \in Rationals /\ Less(Zero, Room(d))
    BY <1>1, RoomType DEF monthDayAvailable
  <2>2. Room(d) \in NonNegative /\ Room(d) # Zero
    BY <2>1, ConstantTypes, LessIsOrder DEF NonNegative
  <2>3. d \in Weekdays
    BY <1>1, OpenDaysType DEF monthDayAvailable
  <2>4. PICK r \in NonNegative, h \in NonNegative : r = Room(d) /\ h = habit[p][d]
    BY <2>2, <2>3 DEF Planning
  <2>5. Times(r, h) \in NonNegative
    BY NonNegativeClosed
  <2> QED
    BY <2>2, <2>4, <2>5
<1>2. ASSUME NEW d \in Days
      PROVE  /\ ByRoom(p)[d] \in NonNegative /\ ByHabit(p)[d] \in NonNegative
             /\ ByRoom(p)[d] # Zero \/ ByHabit(p)[d] # Zero => monthDayAvailable(p, d)
             /\ monthDayAvailable(p, d) => ByRoom(p)[d] # Zero
  BY <1>1, NonNegativeValues DEF ByRoom, ByHabit
<1>3. PICK room : room = ByRoom(p)
  OBVIOUS
<1>4. PICK byHabit : byHabit = ByHabit(p)
  OBVIOUS
<1>5. Sum(room, Days) \in NonNegative /\ \A d \in Days : room[d] # Zero => Sum(room, Days) # Zero
  BY <1>2, <1>3, FiniteSets, NonNegativeSum
<1>6. Sum(byHabit, Days) \in NonNegative
  BY <1>2, <1>4, FiniteSets, NonNegativeSum
<1>7. \A d \in Days : monthDayAvailable(p, d) /\ Sum(ByRoom(p), Days) = Zero => FALSE
  BY <1>2, <1>3, <1>5
<1>8. Weights(p) = IF Sum(byHabit, Days) # Zero THEN byHabit ELSE room
  BY <1>3, <1>4 DEF Weights
<1>9. ASSUME NEW d \in Days
      PROVE  Weights(p)[d] \in NonNegative /\ (Weights(p)[d] # Zero => monthDayAvailable(p, d))
  BY <1>2, <1>3, <1>4, <1>8
<1>10. ASSUME HasPass(p) PROVE Sum(Weights(p), Days) \in NonNegative /\ Sum(Weights(p), Days) # Zero
  <2>1. Sum(room, Days) # Zero
    BY <1>3, <1>10 DEF HasPass
  <2> QED
    BY <1>5, <1>6, <1>8, <2>1
<1>11. ASSUME HasPass(p) PROVE Sum(Weights(p), Days) \in Rationals /\ Less(Zero, Sum(Weights(p), Days))
  BY <1>10, <1>11, ConstantTypes, LessIsOrder DEF NonNegative
<1> QED
  BY <1>7, <1>9, <1>11

\* What a pass distributes: no day gets more than its room or anything when it is
\* not available, in all no more than is left, and either all that is left is
\* distributed or a day is filled that was available.
LEMMA PassShares ==
    ASSUME Planning, NEW p \in Projects, HasPass(p),
           NEW share, share = [d \in Days |-> Taken(p, d, Weights(p))]
    PROVE  /\ \A d \in Days :
                /\ share[d] \in NonNegative
                /\ share[d] # Zero => monthDayAvailable(p, d) /\ ~ Less(Room(d), share[d])
           /\ Minus(left[p], Sum(share, Days)) \in NonNegative
           /\ \/ Minus(left[p], Sum(share, Days)) = Zero
              \/ \E d \in Days : monthDayAvailable(p, d) /\ share[d] = Room(d)
<1>1. PICK weights : weights = Weights(p)
  OBVIOUS
<1>2. PICK l \in Rationals : l = left[p] /\ l \in NonNegative
  BY DEF Planning, NonNegative
<1>3. PICK s \in Rationals : s = Sum(weights, Days) /\ Less(Zero, s) /\ s \in NonNegative /\ s # Zero
  <2>1. Sum(weights, Days) \in Rationals /\ Less(Zero, Sum(weights, Days))
    BY <1>1, WeightsType
  <2> QED
    BY <2>1, ConstantTypes, LessIsOrder DEF NonNegative
<1>4. PICK parts : parts = [d \in Days |-> Over(weights[d], s)]
  OBVIOUS
<1>5. PICK wanted : wanted = [d \in Days |-> Times(l, parts[d])]
  OBVIOUS
<1>6. ASSUME NEW d \in Days
      PROVE  /\ weights[d] \in Rationals /\ parts[d] = Over(weights[d], s)
             /\ parts[d] \in NonNegative /\ wanted[d] = Times(l, parts[d]) /\ wanted[d] \in NonNegative
             /\ weights[d] = Zero => wanted[d] = Zero
  <2>1. PICK w \in NonNegative : w = weights[d]
    BY <1>1, WeightsType
  <2>2. parts[d] = Over(w, s) /\ Over(w, s) \in NonNegative
    BY <1>3, <1>4, <2>1, NonNegativeClosed
  <2>3. PICK o \in NonNegative : o = parts[d]
    BY <2>2
  <2>4. Times(l, o) \in NonNegative /\ wanted[d] = Times(l, o)
    BY <1>2, <1>5, <2>3, NonNegativeClosed
  <2>5. w \in Rationals /\ o \in Rationals
    BY DEF NonNegative
  <2>6. w = Zero => o = Zero
    BY <1>3, <2>2, <2>3, <2>5, OverType
  <2>7. o = Zero => Times(l, o) = Zero
    BY <2>5, TimesType
  <2> QED
    BY <2>1, <2>2, <2>3, <2>4, <2>5, <2>6, <2>7
<1>7. Sum(wanted, Days) = l
  <2>1. Sum(parts, Days) = Over(s, s)
    BY <1>3, <1>6, FiniteSets, SumDivided
  <2>2. Over(s, s) = One
    BY <1>3, OverLaws
  <2>3. \A d \in Days : parts[d] \in Rationals /\ wanted[d] = Times(l, parts[d])
    BY <1>6 DEF NonNegative
  <2>4. Sum(wanted, Days) = Times(l, Sum(parts, Days))
    BY <2>3, FiniteSets, SumTimes
  <2>5. Times(l, One) = l
    BY ConstantTypes, TimesLaws
  <2> QED
    BY <2>1, <2>2, <2>4, <2>5
<1>8. ASSUME NEW d \in Days
      PROVE  /\ share[d] \in NonNegative /\ ~ Less(wanted[d], share[d])
             /\ share[d] # Zero => monthDayAvailable(p, d) /\ ~ Less(Room(d), share[d])
             /\ share[d] # wanted[d] => monthDayAvailable(p, d) /\ share[d] = Room(d)
  <2>1. wanted[d] \in Rationals /\ wanted[d] \in NonNegative
    BY <1>6 DEF NonNegative
  <2>2. CASE weights[d] = Zero
    <3>1. share[d] = Zero /\ wanted[d] = Zero
      BY <1>1, <1>6, <2>2 DEF Taken
    <3> QED
      BY <2>1, <3>1, LessIsOrder
  <2>3. CASE weights[d] # Zero
    <3>1. monthDayAvailable(p, d)
      BY <1>1, <2>3, WeightsType
    <3>2. Room(d) \in Rationals /\ Less(Zero, Room(d))
      BY <3>1, RoomType DEF monthDayAvailable
    <3>3. Room(d) \in NonNegative
      BY <3>2, ConstantTypes, LessIsOrder DEF NonNegative
    <3>4. share[d] = Smaller(Room(d), wanted[d])
      BY <1>1, <1>2, <1>3, <1>4, <1>5, <2>3 DEF Taken
    <3>5. PICK r \in Rationals, v \in Rationals : r = Room(d) /\ v = wanted[d]
      BY <2>1, <3>2
    <3>6. Smaller(r, v) \in {r, v} /\ ~ Less(r, Smaller(r, v)) /\ ~ Less(v, Smaller(r, v))
      BY ExtremeLaws
    <3> QED
      BY <2>1, <3>1, <3>3, <3>4, <3>5, <3>6
  <2> QED
    BY <2>2, <2>3
<1>9. \A d \in Days : share[d] \in Rationals /\ wanted[d] \in Rationals
  BY <1>6, <1>8 DEF NonNegative
<1>10. PICK given \in Rationals : given = Sum(share, Days)
  BY <1>9, FiniteSets, SumRational
<1>11. ~ Less(l, given)
  BY <1>7, <1>8, <1>9, <1>10, FiniteSets, SumMonotone
<1>12. Minus(l, given) \in NonNegative
  BY <1>11, PlusType, OrderLaws DEF NonNegative
<1>13. CASE \A d \in Days : share[d] = wanted[d]
  <2>1. Sum(share, Days) = Sum(wanted, Days)
    BY <1>9, <1>13, FiniteSets, SumSame
  <2>2. Minus(l, l) = Zero
    BY PlusLaws
  <2> QED
    BY <1>2, <1>7, <1>8, <1>10, <1>12, <2>1, <2>2
<1>14. CASE \E d \in Days : share[d] # wanted[d]
  BY <1>2, <1>8, <1>10, <1>12, <1>14
<1> QED
  BY <1>13, <1>14

\* What a pass gives to each day, and what it leaves.
Given(share) ==
    /\ share \in [Days -> NonNegative]
    /\ total' = [d \in Days |-> Plus(total[d], share[d])]
    /\ estimated' = [estimated EXCEPT ![First] = [d \in Days |-> Plus(@[d], share[d])]]
    /\ left' = [left EXCEPT ![First] = Minus(@, Sum(share, Days))]
    /\ \A d \in Days : share[d] # Zero => monthDayAvailable(First, d) /\ ~ Less(Room(d), share[d])
    /\ Minus(left[First], Sum(share, Days)) \in NonNegative
    /\ \/ Minus(left[First], Sum(share, Days)) = Zero
       \/ \E d \in Days : monthDayAvailable(First, d) /\ share[d] = Room(d)

\* A step of the distribution has a week to plan, and one who goes first; a pass
\* gives something.
LEMMA PassGives ==
    ASSUME PlanShape, todo # {}
    PROVE  /\ week # NoWeek /\ Planning /\ First \in todo /\ First \in Projects
           /\ Pass => \E share : Given(share)
<1>1. week # NoWeek
  BY DEF PlanShape
<1>2. Planning
  BY <1>1, ShapePlans
<1>3. First \in todo /\ First \in Projects
  BY <1>2, FirstLeads
<1>4. ASSUME Pass PROVE \E share : Given(share)
  <2>1. PICK share : share = [d \in Days |-> Taken(First, d, Weights(First))]
    OBVIOUS
  <2>2. HasPass(First) /\ Give(First, share)
    BY <1>4, <2>1 DEF Pass
  <2>3. share \in [Days -> NonNegative]
    BY <1>2, <1>3, <2>1, <2>2, PassShares
  <2>4. /\ \A d \in Days : share[d] # Zero => monthDayAvailable(First, d) /\ ~ Less(Room(d), share[d])
        /\ Minus(left[First], Sum(share, Days)) \in NonNegative
        /\ \/ Minus(left[First], Sum(share, Days)) = Zero
           \/ \E d \in Days : monthDayAvailable(First, d) /\ share[d] = Room(d)
    BY <1>2, <1>3, <2>1, <2>2, PassShares
  <2> QED
    BY <2>2, <2>3, <2>4 DEF Given, Give
<1> QED
  BY <1>1, <1>2, <1>3, <1>4

\* A pass read per project and day.
LEMMA GivenParts ==
    ASSUME Planning, First \in Projects, NEW share, Given(share)
    PROVE  /\ \A d \in Days : total'[d] = Plus(total[d], share[d])
           /\ \A d \in Days : estimated'[First][d] = Plus(estimated[First][d], share[d])
           /\ \A p \in Projects : p # First => estimated'[p] = estimated[p] /\ left'[p] = left[p]
           /\ left'[First] = Minus(left[First], Sum(share, Days))
  BY DEF Planning, Given

\* The state keeps its shape.
LEMMA ShapeStep == PlanShape /\ [Next]_vars => PlanShape'
<1> SUFFICES ASSUME PlanShape, [Next]_vars PROVE PlanShape'
  OBVIOUS
<1>1. CASE ReadWeek
  <2>1. PICK w \in Weeks[past] :
            /\ week' = w
            /\ total' = [d \in Days |-> Kept(w, d)]
            /\ left' = [p \in Projects |-> Remaining(w, p)]
            /\ todo' = {p \in Projects : Less(Zero, Remaining(w, p))}
    BY <1>1 DEF ReadWeek
  <2>2. w \in WeekToPlan /\ w # NoWeek
    BY <2>1, WeeksAssumption DEF PlanShape
  <2>3. \A d \in Days : Kept(w, d) \in Rationals
    BY <2>2, KeptType DEF NonNegative
  <2>4. \A p \in Projects : Remaining(w, p) \in NonNegative
    BY <2>2, KeptType
  <2>5. past' = past /\ habit' = habit /\ estimated' = estimated /\ pass' = pass
    BY <1>1 DEF ReadWeek
  <2>6. week = NoWeek /\ pass = 0
    BY <1>1 DEF ReadWeek, PlanShape
  <2> QED
    BY <2>1, <2>2, <2>3, <2>4, <2>5, <2>6 DEF PlanShape
<1>2. CASE Pass
  <2>1. todo # {} /\ pass < Cardinality(Days) /\ pass' = pass + 1
    BY <1>2 DEF Pass, HasPass
  <2>2. week # NoWeek /\ Planning /\ First \in Projects
    BY <2>1, PassGives
  <2>3. PICK share : Given(share)
    BY <1>2, <2>1, PassGives
  <2>4. past' = past /\ habit' = habit /\ week' = week /\ todo' = todo
    BY <1>2 DEF Pass
  <2>5. \A d \in Days : share[d] \in NonNegative /\ share[d] \in Rationals /\ total[d] \in Rationals
    BY <2>3 DEF Given, PlanShape, NonNegative
  <2>6. \A d \in Days : Plus(total[d], share[d]) \in Rationals
    BY <2>5, PlusType
  <2>7. \A d \in Days : Plus(estimated[First][d], share[d]) \in NonNegative
    BY <2>2, <2>5, NonNegativeClosed DEF PlanShape
  <2>8. total' \in [Days -> Rationals]
    BY <2>3, <2>6 DEF Given
  <2>9. estimated' \in [Projects -> [Days -> NonNegative]]
    BY <2>2, <2>3, <2>7 DEF Given, PlanShape
  <2>10. left' \in [Projects -> NonNegative]
    BY <2>2, <2>3 DEF Given, PlanShape
  <2>11. pass' \in 0 .. Cardinality(Days)
    BY <2>1, FiniteSets DEF PlanShape
  <2> QED
    BY <2>1, <2>2, <2>4, <2>8, <2>9, <2>10, <2>11 DEF PlanShape
<1>3. CASE NextProject
  <2>1. week # NoWeek
    BY <1>3 DEF NextProject, PlanShape
  <2>2. todo' \subseteq todo /\ pass' = 0
    BY <1>3 DEF NextProject
  <2>3. 0 \in 0 .. Cardinality(Days)
    BY FiniteSets
  <2>4. UNCHANGED <<week, past, habit, total, estimated, left>>
    BY <1>3 DEF NextProject
  <2> QED
    BY <2>1, <2>2, <2>3, <2>4 DEF PlanShape
<1>4. CASE EndWeek
  <2>1. /\ week' = NoWeek /\ todo = {} /\ todo' = todo /\ pass' = pass /\ past' = past /\ habit' = habit
        /\ total' = [d \in Days |-> Zero]
        /\ estimated' = [p \in Projects |-> [d \in Days |-> Zero]]
        /\ left' = [p \in Projects |-> Zero]
    BY <1>4 DEF EndWeek
  <2>2. Zero \in NonNegative /\ Zero \in Rationals
    BY NonNegativeValues, ConstantTypes
  <2> QED
    BY <2>1, <2>2 DEF PlanShape
<1>5. CASE UNCHANGED vars
  BY <1>5 DEF PlanShape, vars
<1> QED
  BY <1>1, <1>2, <1>3, <1>4, <1>5 DEF Next

\* It has it from the start.
LEMMA ShapeCorrect == Spec => []PlanShape
<1>1. Init => PlanShape
  <2> SUFFICES ASSUME Init PROVE PlanShape
    OBVIOUS
  <2>1. past \in Histories /\ habit \in [Projects -> [Weekdays -> NonNegative]]
    BY HabitsType DEF Init
  <2>2. Zero \in NonNegative /\ Zero \in Rationals /\ 0 \in 0 .. Cardinality(Days)
    BY NonNegativeValues, ConstantTypes, FiniteSets
  <2> QED
    BY <2>1, <2>2 DEF Init, PlanShape
<1> QED
  BY <1>1, ShapeStep, PTL DEF Spec

\* Every quantity of the plan is a number in lowest terms, only known projects
\* wait, and a project takes no more passes than there are days: the type
\* invariant, with hours that are never negative (PlanShape).
THEOREM TypeCorrect == Spec => []TypeOK
<1>1. NonNegative \subseteq Rationals
  BY DEF NonNegative
<1>2. PlanShape => TypeOK
  BY <1>1 DEF PlanShape, TypeOK
<1> QED
  BY <1>2, ShapeCorrect, PTL

-----------------------------------------------------------------------------
(***************************************************************************)
(* No hour is lost and none is invented.                                   *)
(***************************************************************************)

\* Days of the week that are over, and what is booked on a day that is.
Gone == {d \in week.inYear : d < week.today}
Stays(d) == IF d \in Gone THEN week.stored[d] ELSE [p \in Projects |-> 0]

\* The hours of a project, and those of a day.
HoursOfProjects ==
    \A p \in Projects :
        Plus(OnDays(week, p, Gone), Plus(Sum(estimated[p], Days), left[p])) = OnDays(week, p, week.inYear)

HoursOfDays ==
    \A d \in Days :
        total[d] = Sum([p \in Projects |-> Plus(<<Stays(d)[p], 1>>, estimated[p][d])], Projects)

\* What is booked in the year is booked before today or from today on.
LEMMA BookedSplits ==
    ASSUME NEW w \in WeekToPlan, NEW p \in Projects
    PROVE  OnDays(w, p, w.inYear) = Plus(OnDays(w, p, {d \in w.inYear : d < w.today}), Remaining(w, p))
<1>1. PICK gone : gone = {d \in w.inYear : d < w.today}
  OBVIOUS
<1>2. PICK rest : rest = {d \in w.inYear : d >= w.today}
  OBVIOUS
<1>3. w.inYear \subseteq Days /\ w.today \in Int
  BY DEF WeekToPlan
<1>4. gone \subseteq Days /\ rest \subseteq Days /\ gone \cap rest = {} /\ gone \cup rest = w.inYear
  <2>1. PICK today \in Int : today = w.today
    BY <1>3
  <2>2. ASSUME NEW d \in w.inYear PROVE d < today <=> ~ (d >= today)
    <3>1. d \in Nat
      BY <1>3, FiniteSets
    <3> QED
      BY <2>1, <3>1
  <2> QED
    BY <1>1, <1>2, <1>3, <2>1, <2>2
<1>5. PICK n : n = [d \in Days |-> w.stored[d][p]]
  OBVIOUS
<1>6. \A d \in Days : n[d] \in Int /\ n[d] = w.stored[d][p]
  BY <1>5, BookedType
<1>7. 1 \in Positive
  BY DEF Positive
<1>8. ASSUME NEW ds \in SUBSET Days
      PROVE  OnDays(w, p, ds) = Fraction(SumFunctionOnSet(n, ds), 1) /\ SumFunctionOnSet(n, ds) \in Int
  <2>1. PICK f : f = [d \in ds |-> <<w.stored[d][p], 1>>]
    OBVIOUS
  <2>2. \A d \in ds : n[d] \in Int /\ f[d] = Fraction(n[d], 1)
    BY <1>6, <2>1, BookedType
  <2>3. IsFiniteSet(ds)
    BY FiniteSets, FS_Subset
  <2>4. Sum(f, ds) = Fraction(SumFunctionOnSet(n, ds), 1) /\ SumFunctionOnSet(n, ds) \in Int
    BY <1>7, <2>2, <2>3, SumOfNumerators
  <2> QED
    BY <2>1, <2>4 DEF OnDays
<1>9. SumFunctionOnSet(n, gone \cup rest) = SumFunctionOnSet(n, gone) + SumFunctionOnSet(n, rest)
  <2>1. IsFiniteSet(gone) /\ IsFiniteSet(rest)
    BY <1>4, FiniteSets, FS_Subset
  <2>2. \A d \in gone \cup rest : n[d] \in Int
    BY <1>4, <1>6
  <2> QED
    BY <1>4, <2>1, <2>2, SumUnion
<1>10. PICK x \in Int, y \in Int : x = SumFunctionOnSet(n, gone) /\ y = SumFunctionOnSet(n, rest)
  BY <1>4, <1>8
<1>11. OnDays(w, p, gone) = Fraction(x, 1) /\ OnDays(w, p, rest) = Fraction(y, 1)
  BY <1>4, <1>8, <1>10
<1>12. OnDays(w, p, w.inYear) = Fraction(x + y, 1)
  BY <1>3, <1>4, <1>8, <1>9, <1>10
<1>13. Plus(Fraction(x, 1), Fraction(y, 1)) = Fraction(x + y, 1)
  BY <1>7, AddFractions
<1> QED
  BY <1>1, <1>2, <1>11, <1>12, <1>13 DEF Remaining

\* A week that was just read has the hours it is read with.
LEMMA ReadKeepsHours ==
    ASSUME PlanShape, ReadWeek
    PROVE  HoursOfProjects' /\ HoursOfDays'
<1>1. PICK w \in Weeks[past] :
          /\ week' = w
          /\ total' = [d \in Days |-> Kept(w, d)]
          /\ left' = [p \in Projects |-> Remaining(w, p)]
  BY DEF ReadWeek
<1>2. w \in WeekToPlan
  BY <1>1, WeeksAssumption DEF PlanShape
<1>3. \A p \in Projects, d \in Days : estimated'[p][d] = Zero
  BY DEF ReadWeek, PlanShape
<1>4. Gone' = {d \in w.inYear : d < w.today}
  BY <1>1 DEF Gone
<1>5. ASSUME NEW p \in Projects
      PROVE  Plus(OnDays(week', p, Gone'), Plus(Sum(estimated'[p], Days), left'[p])) =
                 OnDays(week', p, week'.inYear)
  <2>1. PICK e : e = estimated'[p]
    OBVIOUS
  <2>2. Sum(e, Days) = Zero
    BY <1>3, <2>1, FiniteSets, SumZero
  <2>3. PICK r \in Rationals : r = Remaining(w, p) /\ left'[p] = r
    BY <1>1, <1>2, KeptType DEF NonNegative
  <2>4. Plus(Zero, r) = r
    BY ConstantTypes, PlusLaws
  <2> QED
    BY <1>1, <1>2, <1>4, <2>1, <2>2, <2>3, <2>4, BookedSplits
<1>6. ASSUME NEW d \in Days
      PROVE  total'[d] = Sum([p \in Projects |-> Plus(<<Stays(d)'[p], 1>>, estimated'[p][d])], Projects)
  <2>1. PICK g : g = [p \in Projects |-> Plus(<<Stays(d)'[p], 1>>, estimated'[p][d])]
    OBVIOUS
  <2>2. Stays(d)' = IF d \in w.inYear /\ d < w.today THEN w.stored[d] ELSE [p \in Projects |-> 0]
    BY <1>1, <1>4 DEF Stays
  <2>3. ASSUME NEW p \in Projects PROVE Stays(d)'[p] \in Int
    <3>1. w.stored[d][p] \in Int /\ [q \in Projects |-> 0][p] = 0
      BY <1>2, BookedType
    <3> QED
      BY <2>2, <3>1
  <2>4. ASSUME NEW p \in Projects PROVE g[p] = <<Stays(d)'[p], 1>> /\ g[p] \in Rationals
    <3>1. PICK q \in Rationals : q = <<Stays(d)'[p], 1>>
      BY <2>3, WholeFraction
    <3>2. Plus(q, Zero) = q
      BY ConstantTypes, PlusLaws
    <3> QED
      BY <1>3, <2>1, <3>1, <3>2
  <2>5. CASE d \in w.inYear /\ d < w.today
    <3>1. PICK f : f = [p \in Projects |-> <<w.stored[d][p], 1>>]
      OBVIOUS
    <3>2. \A p \in Projects : f[p] \in Rationals /\ f[p] = g[p]
      BY <2>2, <2>4, <2>5, <3>1
    <3>3. Sum(f, Projects) = Sum(g, Projects)
      BY <3>2, FiniteSets, SumSame
    <3>4. total'[d] = Sum(f, Projects)
      BY <1>1, <2>5, <3>1 DEF Kept
    <3> QED
      BY <2>1, <3>3, <3>4
  <2>6. CASE ~ (d \in w.inYear /\ d < w.today)
    <3>1. \A p \in Projects : g[p] = Zero
      BY <2>2, <2>4, <2>6 DEF Zero
    <3>2. Sum(g, Projects) = Zero
      BY <3>1, FiniteSets, SumZero
    <3>3. total'[d] = Zero
      BY <1>1, <2>6 DEF Kept
    <3> QED
      BY <2>1, <3>2, <3>3
  <2> QED
    BY <2>5, <2>6
<1> QED
  BY <1>5, <1>6 DEF HoursOfProjects, HoursOfDays

\* A pass moves hours from those that are left to days.
LEMMA PassKeepsHours ==
    ASSUME PlanShape, Pass, HoursOfProjects, HoursOfDays
    PROVE  HoursOfProjects' /\ HoursOfDays'
<1>1. todo # {} /\ week' = week
  BY DEF Pass
<1>2. Planning /\ First \in Projects /\ week \in WeekToPlan
  BY <1>1, PassGives DEF Planning
<1>3. PICK share : Given(share)
  BY <1>1, PassGives
<1>4. /\ \A d \in Days : total'[d] = Plus(total[d], share[d])
      /\ \A d \in Days : estimated'[First][d] = Plus(estimated[First][d], share[d])
      /\ \A p \in Projects : p # First => estimated'[p] = estimated[p] /\ left'[p] = left[p]
      /\ left'[First] = Minus(left[First], Sum(share, Days))
  BY <1>2, <1>3, GivenParts
<1>5. Gone' = Gone /\ Gone \subseteq Days /\ \A d \in Days : Stays(d)' = Stays(d)
  BY <1>1, <1>2 DEF Gone, Stays, WeekToPlan
<1>6. \A d \in Days : share[d] \in Rationals
  BY <1>3 DEF Given, NonNegative
<1>7. \A p \in Projects, d \in Days : estimated[p][d] \in Rationals
  BY <1>2 DEF Planning, NonNegative
<1>8. ASSUME NEW p \in Projects
      PROVE  Plus(Sum(estimated'[p], Days), left'[p]) = Plus(Sum(estimated[p], Days), left[p])
  <2>1. CASE p # First
    BY <1>4, <2>1
  <2>2. CASE p = First
    <3>1. PICK before : before = estimated[p]
      OBVIOUS
    <3>2. PICK after : after = estimated'[p]
      OBVIOUS
    <3>3. \A d \in Days : before[d] \in Rationals /\ share[d] \in Rationals /\ after[d] = Plus(before[d], share[d])
      BY <1>4, <1>6, <1>7, <2>2, <3>1, <3>2
    <3>4. PICK b \in Rationals, s \in Rationals, l \in Rationals :
              b = Sum(before, Days) /\ s = Sum(share, Days) /\ l = left[p]
      BY <1>2, <3>3, FiniteSets, SumRational DEF Planning, NonNegative
    <3>5. Sum(after, Days) = Plus(b, s)
      BY <3>3, <3>4, FiniteSets, SumPlus
    <3>6. left'[p] = Minus(l, s)
      BY <1>4, <2>2, <3>4
    <3>7. Plus(Plus(b, s), Minus(l, s)) = Plus(b, l)
      BY PlusLaws
    <3> QED
      BY <3>1, <3>2, <3>4, <3>5, <3>6, <3>7
  <2> QED
    BY <2>1, <2>2
<1>9. \A p \in Projects : /\ OnDays(week', p, Gone') = OnDays(week, p, Gone)
                          /\ OnDays(week', p, week'.inYear) = OnDays(week, p, week.inYear)
  BY <1>1, <1>5
<1>10. HoursOfProjects'
  BY <1>8, <1>9 DEF HoursOfProjects
<1>11. ASSUME NEW d \in Days
       PROVE  total'[d] = Sum([p \in Projects |-> Plus(<<Stays(d)'[p], 1>>, estimated'[p][d])], Projects)
  <2>1. PICK f : f = [p \in Projects |-> Plus(<<Stays(d)[p], 1>>, estimated[p][d])]
    OBVIOUS
  <2>2. PICK g : g = [p \in Projects |-> Plus(<<Stays(d)'[p], 1>>, estimated'[p][d])]
    OBVIOUS
  <2>3. ASSUME NEW p \in Projects
        PROVE  /\ f[p] \in Rationals /\ g[p] \in Rationals
               /\ p # First => g[p] = f[p]
               /\ p = First => g[p] = Plus(f[p], share[d])
    <3>1. Stays(d)[p] \in Int
      <4>1. week.stored[d][p] \in Int /\ [q \in Projects |-> 0][p] = 0
        BY <1>2, BookedType
      <4> QED
        BY <4>1 DEF Stays
    <3>2. PICK k \in Rationals, e \in Rationals, s \in Rationals :
              k = <<Stays(d)[p], 1>> /\ e = estimated[p][d] /\ s = share[d]
      BY <1>6, <1>7, <3>1, WholeFraction
    <3>3. f[p] = Plus(k, e) /\ Plus(k, e) \in Rationals
      BY <2>1, <3>2, PlusType
    <3>4. CASE p # First
      BY <1>4, <1>5, <2>2, <3>2, <3>3, <3>4
    <3>5. CASE p = First
      <4>1. g[p] = Plus(k, Plus(e, s))
        BY <1>4, <1>5, <2>2, <3>2, <3>5
      <4>2. Plus(k, Plus(e, s)) = Plus(Plus(k, e), s)
        BY PlusLaws
      <4>3. Plus(Plus(k, e), s) \in Rationals
        BY <3>3, PlusType
      <4> QED
        BY <3>2, <3>3, <3>5, <4>1, <4>2, <4>3
    <3> QED
      BY <3>4, <3>5
  <2>4. Sum(f, Projects) = Plus(f[First], Sum(f, Projects \ {First}))
    BY <1>2, <2>3, FiniteSets, SumTakesRational
  <2>5. Sum(g, Projects) = Plus(g[First], Sum(g, Projects \ {First}))
    BY <1>2, <2>3, FiniteSets, SumTakesRational
  <2>6. IsFiniteSet(Projects \ {First})
    BY FiniteSets, FS_Subset
  <2>7. Sum(f, Projects \ {First}) = Sum(g, Projects \ {First})
    BY <2>3, <2>6, SumSame
  <2>8. PICK a \in Rationals, r \in Rationals, s \in Rationals :
            a = f[First] /\ r = Sum(f, Projects \ {First}) /\ s = share[d]
    BY <1>2, <1>6, <2>3, <2>6, SumRational
  <2>9. Plus(Plus(a, s), r) = Plus(Plus(a, r), s)
    <3>1. Plus(a, Plus(s, r)) = Plus(Plus(a, s), r) /\ Plus(s, r) = Plus(r, s)
      BY PlusLaws
    <3>2. Plus(a, Plus(r, s)) = Plus(Plus(a, r), s)
      BY PlusLaws
    <3> QED
      BY <3>1, <3>2
  <2>10. Sum(g, Projects) = Plus(Sum(f, Projects), share[d])
    BY <1>2, <2>3, <2>4, <2>5, <2>7, <2>8, <2>9
  <2>11. total[d] = Sum(f, Projects)
    BY <2>1 DEF HoursOfDays
  <2> QED
    BY <1>4, <2>2, <2>10, <2>11
<1> QED
  BY <1>10, <1>11 DEF HoursOfDays

\* HoursAreKept, by project and by day.
LEMMA HoursSplit == HoursAreKept <=> (week # NoWeek => HoursOfProjects /\ HoursOfDays)
  BY DEF HoursAreKept, HoursOfProjects, HoursOfDays, Gone, Stays

\* Neither an hour lost nor one invented (HoursAreKept of the run), in every
\* state of the distribution of any week: monthly hours stay those booked.
THEOREM HoursCorrect == Spec => []HoursAreKept
<1> DEFINE Hours == week # NoWeek => HoursOfProjects /\ HoursOfDays
<1>1. Init => Hours
  BY DEF Init
<1>2. PlanShape /\ Hours /\ [Next]_vars => Hours'
  <2> SUFFICES ASSUME PlanShape, Hours, [Next]_vars PROVE Hours'
    OBVIOUS
  <2>1. CASE ReadWeek
    BY <2>1, ReadKeepsHours
  <2>2. CASE Pass
    <3>1. week # NoWeek
      BY <2>2 DEF Pass, PlanShape
    <3> QED
      BY <2>2, <3>1, PassKeepsHours
  <2>3. CASE NextProject \/ UNCHANGED vars
    <3>1. week' = week /\ total' = total /\ estimated' = estimated /\ left' = left
      BY <2>3 DEF NextProject, vars
    <3> QED
      BY <3>1 DEF HoursOfProjects, HoursOfDays, Gone, Stays
  <2>4. CASE EndWeek
    BY <2>4 DEF EndWeek
  <2> QED
    BY <2>1, <2>2, <2>3, <2>4 DEF Next
<1>3. Hours => HoursAreKept
  BY HoursSplit
<1> HIDE DEF Hours
<1> QED
  BY <1>1, <1>2, <1>3, ShapeCorrect, PTL DEF Spec

-----------------------------------------------------------------------------
(***************************************************************************)
(* The passes are enough.  Every pass either distributes all that is left  *)
(* or fills a day, and a full day is not available to any later pass.      *)
(***************************************************************************)

\* Hours that have no day, and hours on days: the two parts of PendingMeansFull.
PendingIsFull ==
    \A p \in Projects \ todo, d \in Days :
        left[p] # Zero /\ d \in OpenDays(p) => ~ Less(Zero, Room(d))

EstimatesFit ==
    \A p \in Projects, d \in Days :
        estimated[p][d] # Zero => d \in OpenDays(p) /\ ~ Less(Room(d), Zero)

\* Passes are left for all the days that are available to the one that goes first.
AvailableDays(p) == {d \in Days : monthDayAvailable(p, d)}
PassesSuffice ==
    todo # {} => left[First] = Zero \/ pass + Cardinality(AvailableDays(First)) <= Cardinality(Days)

\* Available days can be counted.
LEMMA AvailableDaysType ==
    ASSUME NEW p
    PROVE  /\ IsFiniteSet(AvailableDays(p)) /\ Cardinality(AvailableDays(p)) \in Nat
           /\ Cardinality(AvailableDays(p)) <= Cardinality(Days)
<1>1. AvailableDays(p) \in SUBSET Days
  BY DEF AvailableDays
<1> QED
  BY <1>1, FiniteSets, FS_Subset, FS_CardinalityType

\* In the same week the same days are open, and a day whose hours do not change
\* keeps its room.
LEMMA SameWeek ==
    ASSUME week' = week
    PROVE  /\ \A p : OpenDays(p)' = OpenDays(p)
           /\ \A d : Capacity(d)' = Capacity(d)
           /\ \A d : total'[d] = total[d] => Room(d)' = Room(d)
  BY DEF OpenDays, Capacity, Room

\* A pass takes room from a day, and never more than there is.
LEMMA RoomShrinks ==
    ASSUME Planning, First \in Projects, week' = week, NEW share, Given(share), NEW d \in Days
    PROVE  /\ Less(Zero, Room(d)') => Less(Zero, Room(d))
           /\ share[d] = Zero => Room(d)' = Room(d)
           /\ share[d] # Zero => Less(Zero, Room(d)) /\ ~ Less(Room(d)', Zero)
           /\ share[d] = Room(d) => ~ Less(Zero, Room(d)')
<1>1. PICK c \in Rationals, t \in Rationals, s \in Rationals, r \in Rationals :
          c = Capacity(d) /\ t = total[d] /\ s = share[d] /\ r = Room(d) /\ ~ Less(s, Zero)
  BY RoomType DEF Given, NonNegative
<1>2. total'[d] = Plus(t, s)
  BY <1>1, GivenParts
<1>3. Room(d)' = Minus(c, Plus(t, s)) /\ r = Minus(c, t)
  BY <1>1, <1>2, SameWeek DEF Room
<1>4. Minus(c, Plus(t, s)) = Minus(Minus(c, t), s)
  BY PlusLaws
<1>5. PICK n \in Rationals : n = Minus(r, s) /\ Room(d)' = n
  BY <1>3, <1>4, PlusType
<1>6. ~ Less(r, n)
  BY <1>1, <1>5, OrderLaws
<1>7. s = Zero => n = r
  BY <1>5, PlusLaws
<1>8. s # Zero => ~ Less(n, Zero) /\ Less(Zero, r)
  <2>1. s # Zero => ~ Less(r, s) /\ Less(Zero, r)
    BY <1>1 DEF Given, monthDayAvailable
  <2>2. Less(Minus(r, s), Zero) <=> Less(r, s)
    BY OrderLaws
  <2> QED
    BY <1>5, <2>1, <2>2
<1>9. s = r => n = Zero
  BY <1>5, PlusLaws
<1>10. Less(Zero, n) => Less(Zero, r)
  <2>1. Zero \in Rationals
    BY ConstantTypes
  <2>2. Less(n, r) \/ n = r
    BY <1>6, LessIsOrder
  <2> QED
    BY <2>1, <2>2, LessIsOrder
<1>11. ~ Less(Zero, Zero)
  BY ConstantTypes, LessIsOrder
<1> QED
  BY <1>1, <1>5, <1>7, <1>8, <1>9, <1>10, <1>11

\* A pass keeps the three.
LEMMA PassFills ==
    ASSUME PlanShape, Pass, PendingIsFull, EstimatesFit, PassesSuffice
    PROVE  PendingIsFull' /\ EstimatesFit' /\ PassesSuffice'
<1>1. todo # {} /\ week' = week /\ habit' = habit /\ todo' = todo /\ pass' = pass + 1 /\ left[First] # Zero
  BY DEF Pass, HasPass
<1>2. Planning /\ First \in todo /\ First \in Projects
  BY <1>1, PassGives
<1>3. PICK share : Given(share)
  BY <1>1, PassGives
<1>4. /\ \A d \in Days : estimated'[First][d] = Plus(estimated[First][d], share[d])
      /\ \A p \in Projects : p # First => estimated'[p] = estimated[p] /\ left'[p] = left[p]
      /\ left'[First] = Minus(left[First], Sum(share, Days))
  BY <1>2, <1>3, GivenParts
<1>5. \A d \in Days :
          /\ Less(Zero, Room(d)') => Less(Zero, Room(d))
          /\ share[d] = Zero => Room(d)' = Room(d)
          /\ share[d] # Zero => Less(Zero, Room(d)) /\ ~ Less(Room(d)', Zero)
          /\ share[d] = Room(d) => ~ Less(Zero, Room(d)')
  BY <1>1, <1>2, <1>3, RoomShrinks
<1>6. \A p : OpenDays(p)' = OpenDays(p)
  BY <1>1, SameWeek
<1>7. PendingIsFull'
  <2> SUFFICES ASSUME NEW p \in Projects, p \notin todo, NEW d \in Days,
                      left'[p] # Zero, d \in OpenDays(p)
               PROVE  ~ Less(Zero, Room(d)')
    BY <1>1, <1>6 DEF PendingIsFull
  <2>1. left[p] # Zero
    BY <1>2, <1>4
  <2> QED
    BY <1>5, <2>1 DEF PendingIsFull
<1>8. EstimatesFit'
  <2> SUFFICES ASSUME NEW p \in Projects, NEW d \in Days, estimated'[p][d] # Zero
               PROVE  d \in OpenDays(p) /\ ~ Less(Room(d)', Zero)
    BY <1>6 DEF EstimatesFit
  <2>1. estimated[p][d] # Zero \/ (p = First /\ share[d] # Zero)
    <3>1. p = First /\ share[d] = Zero => estimated'[p][d] = estimated[p][d]
      <4>1. \A q \in Rationals : Plus(q, Zero) = q
        BY ConstantTypes, PlusLaws
      <4>2. estimated[p][d] \in Rationals
        BY DEF PlanShape, NonNegative
      <4> QED
        BY <1>4, <4>1, <4>2
    <3> QED
      BY <1>4, <3>1
  <2>2. share[d] # Zero => d \in OpenDays(First)
    BY <1>3 DEF Given, monthDayAvailable
  <2>3. d \in OpenDays(p)
    BY <2>1, <2>2 DEF EstimatesFit
  <2>4. share[d] = Zero => ~ Less(Room(d)', Zero)
    BY <1>5, <2>1 DEF EstimatesFit
  <2> QED
    BY <1>5, <2>3, <2>4
<1>9. PassesSuffice'
  <2>1. First' = First
    BY <1>1, FirstStays
  <2>2. CASE left'[First] = Zero
    BY <2>1, <2>2 DEF PassesSuffice
  <2>3. CASE left'[First] # Zero
    <3>1. PICK d \in Days : monthDayAvailable(First, d) /\ share[d] = Room(d)
      BY <1>3, <1>4, <2>3 DEF Given
    <3>2. \A e \in Days : monthDayAvailable(First, e)' => monthDayAvailable(First, e)
      BY <1>5, <1>6, <2>1 DEF monthDayAvailable
    <3>3. ~ monthDayAvailable(First, d)'
      BY <1>5, <3>1 DEF monthDayAvailable
    <3>4. PICK before : before = AvailableDays(First)
      OBVIOUS
    <3>5. PICK after : after = AvailableDays(First)'
      OBVIOUS
    <3>6. after \subseteq before \ {d} /\ d \in before
      BY <3>1, <3>2, <3>3, <3>4, <3>5 DEF AvailableDays
    <3>7. /\ IsFiniteSet(before) /\ Cardinality(before) \in Nat
          /\ pass + Cardinality(before) <= Cardinality(Days)
      BY <1>1, <3>4, AvailableDaysType DEF PassesSuffice
    <3>8. IsFiniteSet(before \ {d}) /\ Cardinality(before \ {d}) = Cardinality(before) - 1
      BY <3>6, <3>7, FS_RemoveElement
    <3>9. Cardinality(after) <= Cardinality(before \ {d}) /\ Cardinality(after) \in Nat
      BY <3>6, <3>8, FS_Subset, FS_CardinalityType
    <3>10. pass \in Nat
      BY FiniteSets DEF PlanShape
    <3>11. pass' + Cardinality(after) <= Cardinality(Days)
      BY <1>1, <3>7, <3>8, <3>9, <3>10, FiniteSets
    <3> QED
      BY <3>5, <3>11 DEF PassesSuffice
  <2> QED
    BY <2>2, <2>3
<1> QED
  BY <1>7, <1>8, <1>9

\* Who is done has no hours left or no day that is not full.
LEMMA DoneIsFull ==
    ASSUME PlanShape, PendingIsFull, PassesSuffice, NextProject
    PROVE  \A d \in Days : left[First] # Zero /\ d \in OpenDays(First) => ~ Less(Zero, Room(d))
<1> SUFFICES ASSUME NEW d \in Days, left[First] # Zero, monthDayAvailable(First, d) PROVE FALSE
  BY DEF monthDayAvailable
<1>1. todo # {} /\ ~ HasPass(First)
  BY DEF NextProject
<1>2. Planning /\ First \in Projects
  BY <1>1, PassGives
<1>3. Sum(ByRoom(First), Days) # Zero
  BY <1>2, WeightsType
<1>4. ~ (pass < Cardinality(Days))
  BY <1>1, <1>3 DEF HasPass
<1>5. pass \in 0 .. Cardinality(Days) /\ pass + Cardinality(AvailableDays(First)) <= Cardinality(Days)
  BY <1>1 DEF PlanShape, PassesSuffice
<1>6. IsFiniteSet(AvailableDays(First)) /\ Cardinality(AvailableDays(First)) \in Nat
  BY AvailableDaysType
<1>7. Cardinality(AvailableDays(First)) = 0
  BY <1>4, <1>5, <1>6, FiniteSets
<1>8. AvailableDays(First) = {}
  BY <1>6, <1>7, FS_EmptySet
<1> QED
  BY <1>8 DEF AvailableDays

\* The three hold in every state of a week.
FullSoFar == week # NoWeek => PendingIsFull /\ EstimatesFit /\ PassesSuffice

\* A step keeps them.
LEMMA FullStep == PlanShape /\ FullSoFar /\ [Next]_vars => FullSoFar'
<1> SUFFICES ASSUME PlanShape, FullSoFar, [Next]_vars PROVE FullSoFar'
  OBVIOUS
<1>1. CASE ReadWeek
  <2>1. PICK w \in Weeks[past] :
            /\ left' = [p \in Projects |-> Remaining(w, p)]
            /\ todo' = {p \in Projects : Less(Zero, Remaining(w, p))}
    BY <1>1 DEF ReadWeek
  <2>2. w \in WeekToPlan
    BY <2>1, WeeksAssumption DEF PlanShape
  <2>3. \A p \in Projects : Remaining(w, p) \in NonNegative
    BY <2>2, KeptType
  <2>4. \A p \in Projects \ todo' : left'[p] = Zero
    BY <2>1, <2>3, NonNegativeClosed
  <2>5. \A p \in Projects, d \in Days : estimated'[p][d] = Zero
    BY <1>1 DEF ReadWeek, PlanShape
  <2>6. pass' = 0
    BY <1>1 DEF ReadWeek, PlanShape
  <2>7. PassesSuffice'
    <3>1. PICK days : days = AvailableDays(First)'
      OBVIOUS
    <3>2. days \in SUBSET Days
      BY <3>1 DEF AvailableDays
    <3>3. Cardinality(days) \in Nat /\ Cardinality(days) <= Cardinality(Days)
      BY <3>2, FiniteSets, FS_Subset, FS_CardinalityType
    <3> QED
      BY <2>6, <3>1, <3>3 DEF PassesSuffice
  <2> QED
    BY <2>4, <2>5, <2>7 DEF FullSoFar, PendingIsFull, EstimatesFit
<1>2. CASE Pass
  <2>1. week # NoWeek
    BY <1>2 DEF Pass, PlanShape
  <2> QED
    BY <1>2, <2>1, PassFills DEF FullSoFar
<1>3. CASE NextProject
  <2>1. /\ week # NoWeek /\ week' = week /\ todo' = todo \ {First} /\ pass' = 0
        /\ total' = total /\ estimated' = estimated /\ left' = left
    BY <1>3 DEF NextProject, PlanShape
  <2>2. /\ \A p : OpenDays(p)' = OpenDays(p)
        /\ \A d : Room(d)' = Room(d)
    BY <2>1, SameWeek
  <2>3. PendingIsFull /\ EstimatesFit /\ PassesSuffice
    BY <2>1 DEF FullSoFar
  <2>4. \A d \in Days : left[First] # Zero /\ d \in OpenDays(First) => ~ Less(Zero, Room(d))
    BY <1>3, <2>3, DoneIsFull
  <2>5. PendingIsFull'
    BY <2>1, <2>2, <2>3, <2>4 DEF PendingIsFull
  <2>6. EstimatesFit'
    BY <2>1, <2>2, <2>3 DEF EstimatesFit
  <2>7. PassesSuffice'
    <3>1. PICK days : days = AvailableDays(First)'
      OBVIOUS
    <3>2. days \in SUBSET Days
      BY <3>1 DEF AvailableDays
    <3>3. Cardinality(days) \in Nat /\ Cardinality(days) <= Cardinality(Days)
      BY <3>2, FiniteSets, FS_Subset, FS_CardinalityType
    <3> QED
      BY <2>1, <3>1, <3>3 DEF PassesSuffice
  <2> QED
    BY <2>5, <2>6, <2>7 DEF FullSoFar
<1>4. CASE EndWeek
  BY <1>4 DEF EndWeek, FullSoFar
<1>5. CASE UNCHANGED vars
  <2>1. /\ week' = week /\ habit' = habit /\ todo' = todo /\ pass' = pass
        /\ total' = total /\ estimated' = estimated /\ left' = left
    BY <1>5 DEF vars
  <2>2. /\ \A p : OpenDays(p)' = OpenDays(p)
        /\ \A d : Room(d)' = Room(d)
        /\ First' = First
    BY <2>1, SameWeek, FirstStays
  <2>3. AvailableDays(First)' = AvailableDays(First)
    BY <2>2 DEF AvailableDays, monthDayAvailable
  <2> QED
    BY <2>1, <2>2, <2>3 DEF FullSoFar, PendingIsFull, EstimatesFit, PassesSuffice
<1> QED
  BY <1>1, <1>2, <1>3, <1>4, <1>5 DEF Next

\* So they hold.
LEMMA FullCorrect == Spec => []FullSoFar
<1>1. Init => FullSoFar
  BY DEF Init, FullSoFar
<1> QED
  BY <1>1, FullStep, ShapeCorrect, PTL DEF Spec

\* As many passes as there are days are enough (PendingMeansFull of the run), as
\* the comment in distributeMonthProject says of its seven: hours are pending only
\* when every open day is full, and no estimate fills a day beyond its capacity.
THEOREM PendingCorrect == Spec => []PendingMeansFull
<1>1. FullSoFar => PendingMeansFull
  BY DEF FullSoFar, PendingIsFull, EstimatesFit, PendingMeansFull
<1> QED
  BY <1>1, FullCorrect, PTL

-----------------------------------------------------------------------------
(***************************************************************************)
(* Narrow windows first.                                                   *)
(***************************************************************************)

\* Who waits has nothing yet, and who has something has no more days than those
\* who wait.
WaitingHaveNothing == \A q \in todo \ {First}, d \in Days : estimated[q][d] = Zero

NarrowerServed ==
    \A q \in Projects \ todo, p \in todo :
        (\E d \in Days : estimated[q][d] # Zero) => Eligible(q) <= Eligible(p)

\* Who took hours of a pending project had no more days than that one.
NarrowerThanPending ==
    \A p \in Projects \ todo : \A q \in Projects \ {p} :
        left[p] # Zero /\ (\E d \in OpenDays(p) : estimated[q][d] # Zero)
            => Eligible(q) <= Eligible(p)

NarrowSoFar == week # NoWeek => WaitingHaveNothing /\ NarrowerServed /\ NarrowerThanPending

\* A pass takes nothing from the pending ones: their days are full.
LEMMA PassIsNarrow ==
    ASSUME PlanShape, Pass, PendingIsFull, WaitingHaveNothing, NarrowerServed, NarrowerThanPending
    PROVE  WaitingHaveNothing' /\ NarrowerServed' /\ NarrowerThanPending'
<1>1. todo # {} /\ week' = week /\ habit' = habit /\ todo' = todo
  BY DEF Pass
<1>2. Planning /\ First \in todo /\ First \in Projects
  BY <1>1, PassGives
<1>3. PICK share : Given(share)
  BY <1>1, PassGives
<1>4. /\ \A d \in Days : estimated'[First][d] = Plus(estimated[First][d], share[d])
      /\ \A p \in Projects : p # First => estimated'[p] = estimated[p] /\ left'[p] = left[p]
  BY <1>2, <1>3, GivenParts
<1>5. First' = First /\ \A p : OpenDays(p)' = OpenDays(p) /\ Eligible(p)' = Eligible(p)
  BY <1>1, SameWeek, FirstStays
<1>6. todo \subseteq Projects
  BY DEF PlanShape
<1>7. WaitingHaveNothing'
  BY <1>1, <1>4, <1>5, <1>6 DEF WaitingHaveNothing
<1>8. NarrowerServed'
  BY <1>1, <1>2, <1>4, <1>5 DEF NarrowerServed
<1>9. NarrowerThanPending'
  <2> SUFFICES ASSUME NEW p \in Projects, p \notin todo, NEW q \in Projects, q # p, left'[p] # Zero,
                      NEW d \in OpenDays(p), estimated'[q][d] # Zero
               PROVE  Eligible(q) <= Eligible(p)
    BY <1>1, <1>5 DEF NarrowerThanPending
  <2>1. d \in Days /\ left[p] # Zero
    BY <1>2, <1>4, OpenDaysType
  <2>2. ~ Less(Zero, Room(d))
    BY <2>1 DEF PendingIsFull
  <2>3. share[d] = Zero
    BY <1>3, <2>1, <2>2 DEF Given, monthDayAvailable
  <2>4. estimated[q][d] # Zero
    <3>1. \A r \in Rationals : Plus(r, Zero) = r
      BY ConstantTypes, PlusLaws
    <3>2. estimated[q][d] \in Rationals
      BY <2>1 DEF PlanShape, NonNegative
    <3> QED
      BY <1>4, <2>1, <2>3, <3>1, <3>2
  <2> QED
    BY <2>1, <2>4 DEF NarrowerThanPending
<1> QED
  BY <1>7, <1>8, <1>9

\* Who is done had no more days than those who wait.
LEMMA NextIsNarrow ==
    ASSUME PlanShape, NextProject, WaitingHaveNothing, NarrowerServed, NarrowerThanPending
    PROVE  WaitingHaveNothing' /\ NarrowerServed' /\ NarrowerThanPending'
<1>1. /\ todo # {} /\ todo' = todo \ {First} /\ week' = week
      /\ estimated' = estimated /\ left' = left
  BY DEF NextProject
<1>2. Planning /\ First \in todo /\ \A q \in todo \ {First} : Eligible(First) <= Eligible(q)
  BY <1>1, PassGives, FirstLeads
<1>3. \A p : OpenDays(p)' = OpenDays(p)
  BY <1>1, SameWeek
<1>4. \A p : Eligible(p)' = Eligible(p)
  BY <1>1 DEF Eligible, OpenDays, Capacity
<1>5. WaitingHaveNothing'
  BY <1>1 DEF WaitingHaveNothing
<1>6. NarrowerServed'
  BY <1>1, <1>2, <1>4 DEF NarrowerServed
<1>7. NarrowerThanPending'
  <2> SUFFICES ASSUME NEW p \in Projects, p \notin todo \/ p = First, NEW q \in Projects, q # p,
                      left[p] # Zero, NEW d \in OpenDays(p), estimated[q][d] # Zero
               PROVE  Eligible(q) <= Eligible(p)
    BY <1>1, <1>3, <1>4 DEF NarrowerThanPending
  <2>1. CASE p \notin todo
    BY <2>1 DEF NarrowerThanPending
  <2>2. CASE p = First
    <3>1. d \in Days
      BY <1>2, OpenDaysType
    <3>2. q \notin todo
      BY <2>2, <3>1 DEF WaitingHaveNothing
    <3> QED
      BY <1>2, <2>2, <3>1, <3>2 DEF NarrowerServed
  <2> QED
    BY <2>1, <2>2
<1> QED
  BY <1>5, <1>6, <1>7

\* The three hold in every state of a week.
LEMMA NarrowStep == PlanShape /\ FullSoFar /\ NarrowSoFar /\ [Next]_vars => NarrowSoFar'
<1> SUFFICES ASSUME PlanShape, FullSoFar, NarrowSoFar, [Next]_vars PROVE NarrowSoFar'
  OBVIOUS
<1>1. CASE ReadWeek
  <2>1. \A p \in Projects, d \in Days : estimated'[p][d] = Zero
    BY <1>1 DEF ReadWeek, PlanShape
  <2>2. PlanShape' /\ week' # NoWeek
    BY <1>1, ShapeStep, WeeksAssumption DEF Next, ReadWeek, PlanShape
  <2>3. \A p \in Projects : OpenDays(p)' \subseteq Days
    BY <2>2, WeeksAssumption DEF PlanShape, OpenDays, WeekToPlan
  <2>4. todo' \subseteq Projects
    BY <2>2 DEF PlanShape
  <2> QED
    BY <2>1, <2>3, <2>4 DEF NarrowSoFar, WaitingHaveNothing, NarrowerServed, NarrowerThanPending
<1>2. CASE Pass
  <2>1. week # NoWeek
    BY <1>2 DEF Pass, PlanShape
  <2> QED
    BY <1>2, <2>1, PassIsNarrow DEF FullSoFar, NarrowSoFar
<1>3. CASE NextProject
  <2>1. week # NoWeek
    BY <1>3 DEF NextProject, PlanShape
  <2> QED
    BY <1>3, <2>1, NextIsNarrow DEF NarrowSoFar
<1>4. CASE EndWeek
  BY <1>4 DEF EndWeek, NarrowSoFar
<1>5. CASE UNCHANGED vars
  <2>1. week' = week /\ habit' = habit /\ todo' = todo /\ estimated' = estimated /\ left' = left
    BY <1>5 DEF vars
  <2>2. First' = First /\ \A p : OpenDays(p)' = OpenDays(p) /\ Eligible(p)' = Eligible(p)
    BY <2>1, SameWeek, FirstStays
  <2> QED
    BY <2>1, <2>2 DEF NarrowSoFar, WaitingHaveNothing, NarrowerServed, NarrowerThanPending
<1> QED
  BY <1>1, <1>2, <1>3, <1>4, <1>5 DEF Next

\* Flexible projects do not take the days of narrow ones (NarrowWindowsFirst of
\* the run): who has hours on a day of a pending project had no more days to
\* choose from than that project.
THEOREM NarrowCorrect == Spec => []NarrowWindowsFirst
<1>1. Init => NarrowSoFar
  BY DEF Init, NarrowSoFar
<1>2. NarrowSoFar => NarrowWindowsFirst
  BY DEF NarrowSoFar, NarrowerThanPending, NarrowWindowsFirst
<1> QED
  BY <1>1, <1>2, NarrowStep, ShapeCorrect, FullCorrect, PTL DEF Spec

=============================================================================
