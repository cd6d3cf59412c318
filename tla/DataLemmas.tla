----------------------------- MODULE DataLemmas -----------------------------
(***************************************************************************)
(* Facts about sets of numbers, sums and fractions, for the proofs about   *)
(* every component.                                                        *)
(***************************************************************************)

EXTENDS Fractions, FiniteSets, FiniteSetTheorems, NaturalsInduction, WellFoundedInduction, TLAPS

-----------------------------------------------------------------------------
(***************************************************************************)
(* Least and greatest elements of sets of numbers.  They stand in for      *)
(* induction: the theorem of the library on well-founded relations that    *)
(* these proofs use speaks of a set, not of a predicate.                   *)
(***************************************************************************)

\* The order of the naturals is well-founded.
LEMMA OrderIsWellFounded == IsWellFoundedOn({ss \in Nat \X Nat : ss[1] < ss[2]}, Nat)
  BY NatLessThanWellFounded DEF OpToRel

\* A set of naturals that is not empty has a least element.
LEMMA LeastNumber == ASSUME NEW S \in SUBSET Nat, S # {} PROVE \E n \in S : \A m \in S : n <= m
<1>1. PICK R : R = {ss \in Nat \X Nat : ss[1] < ss[2]}
  OBVIOUS
<1>2. PICK x \in S : \A y \in S : ~(<<y, x>> \in R)
  BY <1>1, OrderIsWellFounded, WFMin
<1>3. ASSUME NEW m \in S PROVE x <= m
  <2>1. x \in Nat /\ m \in Nat
    OBVIOUS
  <2>2. <<m, x>> \notin R
    BY <1>2
  <2>3. ~(m < x)
    BY <2>1, <2>2, <1>1
  <2>4. QED
    BY <2>1, <2>3
<1>4. QED
  BY <1>3

\* A set of naturals with an upper bound has a greatest element.
LEMMA GreatestNumber ==
    ASSUME NEW S \in SUBSET Nat, S # {}, NEW b \in Nat, \A n \in S : n <= b
    PROVE  \E n \in S : \A m \in S : m <= n
<1> DEFINE Bounds == {u \in Nat : \A n \in S : n <= u}
<1>1. Bounds \in SUBSET Nat /\ Bounds # {}
  OBVIOUS
<1>2. PICK u \in Bounds : \A v \in Bounds : u <= v
  BY <1>1, LeastNumber
<1>3. ASSUME u \notin S PROVE FALSE
  <2>1. u \in Nat /\ \A n \in S : n \in Nat /\ n < u
    BY <1>3
  <2>2. PICK n \in S : n \in Nat /\ n < u
    BY <2>1
  <2>3. u - 1 \in Nat
    BY <2>1, <2>2
  <2>4. \A m \in S : m <= u - 1
    BY <2>1
  <2>5. u - 1 \in Bounds
    BY <2>3, <2>4
  <2>6. QED
    BY <2>1, <2>5, <1>2
<1>4. QED
  BY <1>2, <1>3

\* A finite set of naturals has an upper bound: a smallest one without could
\* lose an element.
LEMMA FiniteIsBounded ==
    ASSUME NEW S \in SUBSET Nat, IsFiniteSet(S)
    PROVE  \E b \in Nat : \A n \in S : n <= b
<1>1. PICK N : N = {k \in Nat : \E T \in SUBSET S :
                        /\ IsFiniteSet(T) /\ Cardinality(T) = k
                        /\ ~ \E b \in Nat : \A n \in T : n <= b}
  OBVIOUS
<1>2. SUFFICES ASSUME N # {} PROVE FALSE
  BY <1>1, FS_CardinalityType
<1>3. PICK k \in N : \A j \in N : k <= j
  BY <1>1, <1>2, LeastNumber
<1>4. PICK T \in SUBSET S : IsFiniteSet(T) /\ Cardinality(T) = k
                            /\ ~ \E b \in Nat : \A n \in T : n <= b
  BY <1>1
<1>5. PICK x \in T : TRUE
  BY <1>4
<1>6. IsFiniteSet(T \ {x}) /\ Cardinality(T \ {x}) = k - 1
  BY <1>4, FS_RemoveElement
<1>7. k - 1 \in Nat /\ k \in Nat
  BY <1>1, <1>6, FS_CardinalityType
<1>8. k - 1 \notin N
  BY <1>3, <1>7
<1>9. PICK b \in Nat : \A n \in T \ {x} : n <= b
  BY <1>1, <1>6, <1>7, <1>8
<1>10. x \in Nat /\ \A n \in T : n \in Nat
  OBVIOUS
<1>11. b + x \in Nat /\ \A n \in T : n <= b + x
  BY <1>9, <1>10
<1>12. QED
  BY <1>4, <1>11

\* So a finite set of naturals that is not empty has a greatest element.
LEMMA FiniteHasGreatest ==
    ASSUME NEW S \in SUBSET Nat, S # {}, IsFiniteSet(S)
    PROVE  \E n \in S : \A m \in S : m <= n
  BY FiniteIsBounded, GreatestNumber

-----------------------------------------------------------------------------
\* Induction over the naturals, said with a set: what holds of 0, and of n + 1
\* when it holds of n, holds of all.
LEMMA SetInduction ==
    ASSUME NEW N \in SUBSET Nat, 0 \in N, \A n \in N : n + 1 \in N
    PROVE  N = Nat
<1>1. SUFFICES ASSUME Nat \ N # {} PROVE FALSE
  OBVIOUS
<1>2. PICK m \in Nat \ N : \A k \in Nat \ N : m <= k
  BY <1>1, LeastNumber
<1>3. m \in Nat /\ m # 0
  BY <1>2
<1>4. m - 1 \in Nat
  BY <1>3
<1>5. m - 1 \in N
  BY <1>2, <1>4
<1>6. (m - 1) + 1 \in N
  BY <1>5
<1>7. QED
  BY <1>2, <1>6

\* Induction over the subsets of a finite set.
LEMMA SubsetInduction ==
    ASSUME NEW S, IsFiniteSet(S), NEW Q \in SUBSET (SUBSET S),
           {} \in Q,
           \A T \in Q : \A x \in S \ T : T \cup {x} \in Q
    PROVE  S \in Q
<1> DEFINE N == {n \in Nat : \A T \in SUBSET S : Cardinality(T) = n => T \in Q}
<1>1. \A T \in SUBSET S : IsFiniteSet(T) /\ Cardinality(T) \in Nat
  BY FS_Subset, FS_CardinalityType
<1>2. 0 \in N
  BY <1>1, FS_EmptySet
<1>3. ASSUME NEW n \in N PROVE n + 1 \in N
  <2>1. SUFFICES ASSUME NEW T \in SUBSET S, Cardinality(T) = n + 1 PROVE T \in Q
    OBVIOUS
  <2>2. IsFiniteSet(T) /\ T # {}
    BY <1>1, <2>1, FS_EmptySet
  <2>3. PICK x \in T : TRUE
    BY <2>2
  <2>4. Cardinality(T \ {x}) = n
    <3>1. Cardinality(T \ {x}) = Cardinality(T) - 1
      BY <2>2, <2>3, FS_RemoveElement
    <3>2. QED
      BY <2>1, <3>1
  <2>5. T \ {x} \in Q
    BY <2>4
  <2>6. (T \ {x}) \cup {x} = T /\ x \in S \ (T \ {x})
    BY <2>3
  <2>7. QED
    BY <2>5, <2>6
<1>4. N = Nat
  <2>1. N \in SUBSET Nat
    OBVIOUS
  <2>2. QED
    BY <1>2, <1>3, <2>1, SetInduction
<1>5. QED
  BY <1>1, <1>4

-----------------------------------------------------------------------------
(***************************************************************************)
(* The sum of a function over a finite set: SumFunctionOnSet takes the     *)
(* elements in an order of its own, which does not matter.                 *)
(***************************************************************************)

\* The element that is taken from s next.
FirstOf(s) == CHOOSE x \in s : TRUE

\* The recursion behind the sum, on the sets of D.
Sums(g, f, D) ==
    g = [s \in D |-> IF s = {} THEN 0 ELSE f[FirstOf(s)] + g[s \ {FirstOf(s)}]]

\* The sum is the value of the recursion on the subsets of S.
LEMMA SumUnfolds ==
    ASSUME NEW f, NEW S
    PROVE  SumFunctionOnSet(f, S) = (CHOOSE g : Sums(g, f, SUBSET S))[S]
  BY DEF SumFunctionOnSet, FoldFunctionOnSet, MapThenFoldSet, Sums, FirstOf

\* The recursion has a solution.
LEMMA SumsExist ==
    ASSUME NEW f, NEW S, IsFiniteSet(S)
    PROVE  \E g : Sums(g, f, SUBSET S)
<1> DEFINE Upto(n) == {s \in SUBSET S : Cardinality(s) <= n}
           N == {n \in Nat : \E g : Sums(g, f, Upto(n))}
<1>1. \A s \in SUBSET S : IsFiniteSet(s) /\ Cardinality(s) \in Nat
  BY FS_Subset, FS_CardinalityType
<1>2. \A s \in SUBSET S : s # {} => /\ FirstOf(s) \in s /\ s \ {FirstOf(s)} \in SUBSET S
                                    /\ Cardinality(s \ {FirstOf(s)}) = Cardinality(s) - 1
  BY <1>1, FS_RemoveElement DEF FirstOf
<1>3. 0 \in N
  <2>1. \A s \in Upto(0) : s = {}
    BY <1>1, FS_EmptySet
  <2>2. Sums([s \in Upto(0) |-> 0], f, Upto(0))
    BY <2>1 DEF Sums
  <2>3. QED
    BY <2>2
<1>4. ASSUME NEW n \in N PROVE n + 1 \in N
  <2>1. PICK g : Sums(g, f, Upto(n))
    OBVIOUS
  <2>2. PICK h : h = [s \in Upto(n + 1) |-> IF s = {} THEN 0 ELSE f[FirstOf(s)] + g[s \ {FirstOf(s)}]]
    OBVIOUS
  <2>3. ASSUME NEW s \in Upto(n) PROVE s \in Upto(n + 1) /\ h[s] = g[s]
    <3>1. s \in Upto(n + 1)
      BY <1>1
    <3>2. QED
      BY <2>1, <2>2, <3>1 DEF Sums
  <2>4. ASSUME NEW s \in Upto(n + 1), s # {} PROVE s \ {FirstOf(s)} \in Upto(n)
    BY <1>1, <1>2, <2>4
  <2>5. ASSUME NEW s \in Upto(n + 1), s # {} PROVE h[s \ {FirstOf(s)}] = g[s \ {FirstOf(s)}]
    BY <2>3, <2>4, <2>5
  <2>6. Sums(h, f, Upto(n + 1))
    BY <2>2, <2>5 DEF Sums
  <2>7. n + 1 \in Nat
    OBVIOUS
  <2>8. QED
    BY <2>6, <2>7
<1>5. N = Nat
  <2>1. N \in SUBSET Nat
    OBVIOUS
  <2>2. QED
    BY <1>3, <1>4, <2>1, SetInduction
<1>6. Cardinality(S) \in N
  BY <1>1, <1>5
<1>7. Upto(Cardinality(S)) = SUBSET S
  BY FS_Subset, <1>1
<1>8. QED
  BY <1>6, <1>7

\* The recursions of two sets agree where both are defined.
LEMMA SumsAgree ==
    ASSUME NEW f, NEW S, NEW T, IsFiniteSet(T), T \subseteq S,
           NEW g, NEW h, Sums(g, f, SUBSET S), Sums(h, f, SUBSET T)
    PROVE  g[T] = h[T]
<1> DEFINE N == {n \in Nat : \A s \in SUBSET T : Cardinality(s) = n => g[s] = h[s]}
<1>1. \A s \in SUBSET T : IsFiniteSet(s) /\ Cardinality(s) \in Nat
  BY FS_Subset, FS_CardinalityType
<1>2. 0 \in N
  BY <1>1, FS_EmptySet DEF Sums
<1>3. ASSUME NEW n \in N PROVE n + 1 \in N
  <2>1. SUFFICES ASSUME NEW s \in SUBSET T, Cardinality(s) = n + 1 PROVE g[s] = h[s]
    OBVIOUS
  <2>2. s # {} /\ FirstOf(s) \in s
    <3>1. n + 1 # 0 /\ Cardinality({}) = 0
      BY FS_EmptySet
    <3>2. s # {}
      BY <2>1, <3>1
    <3>3. QED
      BY <3>2 DEF FirstOf
  <2>3. s \ {FirstOf(s)} \in SUBSET T /\ Cardinality(s \ {FirstOf(s)}) = n
    BY <1>1, <2>1, <2>2, FS_RemoveElement
  <2>4. g[s \ {FirstOf(s)}] = h[s \ {FirstOf(s)}]
    BY <2>3
  <2>5. QED
    BY <2>2, <2>4 DEF Sums
<1>4. N = Nat
  <2>1. N \in SUBSET Nat
    OBVIOUS
  <2>2. QED
    BY <1>2, <1>3, <2>1, SetInduction
<1>5. QED
  BY <1>1, <1>4

-----------------------------------------------------------------------------
\* Nothing sums to 0, and a sum is what is taken first and the sum of the rest.
LEMMA SumStep ==
    ASSUME NEW f, NEW S, IsFiniteSet(S)
    PROVE  SumFunctionOnSet(f, S) =
               IF S = {} THEN 0 ELSE f[FirstOf(S)] + SumFunctionOnSet(f, S \ {FirstOf(S)})
<1>1. PICK g : g = CHOOSE x : Sums(x, f, SUBSET S)
  OBVIOUS
<1>2. Sums(g, f, SUBSET S) /\ SumFunctionOnSet(f, S) = g[S]
  BY <1>1, SumsExist, SumUnfolds
<1>3. CASE S = {}
  BY <1>2, <1>3 DEF Sums
<1>4. CASE S # {}
  <2>1. PICK T : T = S \ {FirstOf(S)}
    OBVIOUS
  <2>2. IsFiniteSet(T) /\ T \subseteq S
    BY <2>1, FS_Subset
  <2>3. PICK h : h = CHOOSE x : Sums(x, f, SUBSET T)
    OBVIOUS
  <2>4. Sums(h, f, SUBSET T) /\ SumFunctionOnSet(f, T) = h[T]
    BY <2>2, <2>3, SumsExist, SumUnfolds
  <2>5. g[T] = h[T]
    BY <1>2, <2>2, <2>4, SumsAgree, SMTT(20)
  <2>6. g[S] = f[FirstOf(S)] + g[T]
    BY <1>2, <1>4, <2>1 DEF Sums
  <2>7. QED
    BY <1>2, <1>4, <2>1, <2>4, <2>5, <2>6
<1>5. QED
  BY <1>3, <1>4

\* The sum of integers is an integer.
LEMMA SumType ==
    ASSUME NEW f, NEW S, IsFiniteSet(S), \A x \in S : f[x] \in Int
    PROVE  SumFunctionOnSet(f, S) \in Int
<1> DEFINE N == {n \in Nat : \A s \in SUBSET S : Cardinality(s) = n => SumFunctionOnSet(f, s) \in Int}
<1>1. \A s \in SUBSET S : IsFiniteSet(s) /\ Cardinality(s) \in Nat
  BY FS_Subset, FS_CardinalityType
<1>2. 0 \in N
  <2>1. ASSUME NEW s \in SUBSET S, Cardinality(s) = 0 PROVE SumFunctionOnSet(f, s) \in Int
    <3>1. s = {}
      BY <1>1, <2>1, FS_EmptySet
    <3>2. SumFunctionOnSet(f, s) = 0
      BY <1>1, <3>1, SumStep
    <3>3. QED
      BY <3>2
  <2>2. QED
    BY <2>1
<1>3. ASSUME NEW n \in N PROVE n + 1 \in N
  <2>1. n \in Nat /\ n + 1 \in Nat /\ n + 1 # 0
    OBVIOUS
  <2>2. ASSUME NEW s \in SUBSET S, Cardinality(s) = n + 1 PROVE SumFunctionOnSet(f, s) \in Int
    <3>1. s # {} /\ FirstOf(s) \in s
      BY <2>1, <2>2, FS_EmptySet DEF FirstOf
    <3>2. Cardinality(s \ {FirstOf(s)}) = Cardinality(s) - 1
      BY <1>1, <3>1, FS_RemoveElement
    <3>3. SumFunctionOnSet(f, s \ {FirstOf(s)}) \in Int
      BY <2>1, <2>2, <3>2
    <3>4. SumFunctionOnSet(f, s) = f[FirstOf(s)] + SumFunctionOnSet(f, s \ {FirstOf(s)})
      BY <1>1, <3>1, SumStep
    <3>5. QED
      BY <3>1, <3>3, <3>4
  <2>3. QED
    BY <2>1, <2>2
<1>4. N = Nat
  <2>1. N \in SUBSET Nat
    OBVIOUS
  <2>2. QED
    BY <1>2, <1>3, <2>1, SetInduction
<1>5. QED
  BY <1>1, <1>4

\* Any element may be taken first.
LEMMA SumTakes ==
    ASSUME NEW f, NEW S, IsFiniteSet(S), \A y \in S : f[y] \in Int, NEW x \in S
    PROVE  SumFunctionOnSet(f, S) = f[x] + SumFunctionOnSet(f, S \ {x})
<1> DEFINE Takes(s) == \A y \in s : SumFunctionOnSet(f, s) = f[y] + SumFunctionOnSet(f, s \ {y})
           N == {n \in Nat : \A s \in SUBSET S : Cardinality(s) = n => Takes(s)}
<1>1. \A s \in SUBSET S : /\ IsFiniteSet(s) /\ Cardinality(s) \in Nat
                           /\ SumFunctionOnSet(f, s) \in Int
  BY FS_Subset, FS_CardinalityType, SumType
<1>2. 0 \in N
  BY <1>1, FS_EmptySet
<1>3. ASSUME NEW n \in N PROVE n + 1 \in N
  <2>1. n \in Nat /\ n + 1 \in Nat
    OBVIOUS
  <2>2. ASSUME NEW s \in SUBSET S, Cardinality(s) = n + 1, NEW y \in s
        PROVE  SumFunctionOnSet(f, s) = f[y] + SumFunctionOnSet(f, s \ {y})
    <3>1. PICK c \in s : c = FirstOf(s)
      BY DEF FirstOf
    <3>2. SumFunctionOnSet(f, s) = f[c] + SumFunctionOnSet(f, s \ {c})
      BY <1>1, <3>1, SumStep
    <3>3. CASE y = c
      BY <3>2, <3>3
    <3>4. CASE y # c
      <4>1. Cardinality(s \ {c}) = n /\ Cardinality(s \ {y}) = n
        <5>1. Cardinality(s \ {c}) = Cardinality(s) - 1 /\ Cardinality(s \ {y}) = Cardinality(s) - 1
          BY <1>1, FS_RemoveElement
        <5>2. QED
          BY <2>1, <2>2, <5>1
      <4>2. Takes(s \ {c}) /\ Takes(s \ {y})
        BY <4>1
      <4>3. SumFunctionOnSet(f, s \ {c}) = f[y] + SumFunctionOnSet(f, (s \ {c}) \ {y})
        BY <3>4, <4>2
      <4>4. SumFunctionOnSet(f, s \ {y}) = f[c] + SumFunctionOnSet(f, (s \ {y}) \ {c})
        BY <3>4, <4>2
      <4>5. (s \ {c}) \ {y} = (s \ {y}) \ {c}
        OBVIOUS
      <4>6. PICK r \in Int : r = SumFunctionOnSet(f, (s \ {c}) \ {y})
        BY <1>1
      <4>7. f[c] \in Int /\ f[y] \in Int
        OBVIOUS
      <4>8. SumFunctionOnSet(f, s) = f[c] + (f[y] + r)
        BY <3>2, <4>3, <4>6
      <4>9. SumFunctionOnSet(f, s \ {y}) = f[c] + r
        BY <4>4, <4>5, <4>6
      <4>10. QED
        BY <4>7, <4>8, <4>9
    <3>5. QED
      BY <3>3, <3>4
  <2>3. QED
    BY <2>1, <2>2
<1>4. N = Nat
  <2>1. N \in SUBSET Nat
    OBVIOUS
  <2>2. QED
    BY <1>2, <1>3, <2>1, SetInduction
<1>5. Takes(S)
  BY <1>1, <1>4
<1>6. QED
  BY <1>5

\* Functions that agree on a set have the same sum over it.
LEMMA SumCongruence ==
    ASSUME NEW S, IsFiniteSet(S), NEW f, NEW g, \A x \in S : f[x] \in Int /\ f[x] = g[x]
    PROVE  SumFunctionOnSet(f, S) = SumFunctionOnSet(g, S)
<1> DEFINE Q == {s \in SUBSET S : SumFunctionOnSet(f, s) = SumFunctionOnSet(g, s)}
<1>1. \A s \in SUBSET S : IsFiniteSet(s)
  BY FS_Subset
<1>2. {} \in Q
  <2>1. SumFunctionOnSet(f, {}) = 0 /\ SumFunctionOnSet(g, {}) = 0
    BY <1>1, SumStep
  <2>2. QED
    BY <2>1
<1>3. ASSUME NEW T \in Q, NEW x \in S \ T PROVE T \cup {x} \in Q
  <2>1. PICK U \in SUBSET S : U = T \cup {x}
    OBVIOUS
  <2>2. x \in U /\ U \ {x} = T /\ IsFiniteSet(U) /\ \A y \in U : f[y] \in Int /\ g[y] \in Int
    BY <1>1, <2>1
  <2>3. SumFunctionOnSet(f, U) = f[x] + SumFunctionOnSet(f, T)
    BY <2>2, SumTakes
  <2>4. SumFunctionOnSet(g, U) = g[x] + SumFunctionOnSet(g, T)
    BY <2>2, SumTakes
  <2>5. QED
    BY <2>1, <2>3, <2>4
<1>4. S \in Q
  <2>1. Q \in SUBSET (SUBSET S)
    OBVIOUS
  <2>2. QED
    BY <1>2, <1>3, <2>1, SubsetInduction
<1>5. QED
  BY <1>4

\* The sum over two sets without a common element.
LEMMA SumUnion ==
    ASSUME NEW f, NEW S, NEW T, IsFiniteSet(S), IsFiniteSet(T), S \cap T = {},
           \A x \in S \cup T : f[x] \in Int
    PROVE  SumFunctionOnSet(f, S \cup T) = SumFunctionOnSet(f, S) + SumFunctionOnSet(f, T)
<1> DEFINE Q == {t \in SUBSET T :
                   SumFunctionOnSet(f, S \cup t) = SumFunctionOnSet(f, S) + SumFunctionOnSet(f, t)}
<1>1. ASSUME NEW t \in SUBSET T
      PROVE  /\ IsFiniteSet(t) /\ IsFiniteSet(S \cup t)
             /\ SumFunctionOnSet(f, t) \in Int /\ SumFunctionOnSet(f, S \cup t) \in Int
             /\ SumFunctionOnSet(f, S) \in Int
  <2>1. IsFiniteSet(t) /\ IsFiniteSet(S \cup t)
    BY FS_Subset, FS_Union
  <2>2. QED
    BY <2>1, SumType
<1>2. {} \in Q
  <2>1. SumFunctionOnSet(f, {}) = 0
    BY <1>1, SumStep
  <2>2. S \cup {} = S /\ SumFunctionOnSet(f, S) \in Int
    BY <1>1
  <2>3. QED
    BY <2>1, <2>2
<1>3. ASSUME NEW t \in Q, NEW x \in T \ t PROVE t \cup {x} \in Q
  <2>1. PICK u \in SUBSET T : u = t \cup {x}
    OBVIOUS
  <2>2. x \in u /\ u \ {x} = t /\ x \in S \cup u /\ (S \cup u) \ {x} = S \cup t
    BY <2>1
  <2>3. /\ IsFiniteSet(u) /\ \A y \in u : f[y] \in Int
        /\ IsFiniteSet(S \cup u) /\ \A y \in S \cup u : f[y] \in Int
    BY <1>1
  <2>4. SumFunctionOnSet(f, u) = f[x] + SumFunctionOnSet(f, t)
    BY <2>3, <2>2, SumTakes
  <2>5. SumFunctionOnSet(f, S \cup u) = f[x] + SumFunctionOnSet(f, S \cup t)
    BY <2>3, <2>2, SumTakes
  <2>6. SumFunctionOnSet(f, S \cup t) = SumFunctionOnSet(f, S) + SumFunctionOnSet(f, t)
    OBVIOUS
  <2>7. SumFunctionOnSet(f, S) \in Int /\ SumFunctionOnSet(f, t) \in Int /\ f[x] \in Int
    BY <1>1
  <2>8. QED
    BY <2>1, <2>4, <2>5, <2>6, <2>7
<1>4. T \in Q
  <2>1. Q \in SUBSET (SUBSET T)
    OBVIOUS
  <2>2. QED
    BY <1>2, <1>3, <2>1, SubsetInduction
<1>5. QED
  BY <1>4

\* A sum of nothing but zeros.
LEMMA SumOfZeros ==
    ASSUME NEW f, NEW S, IsFiniteSet(S), \A x \in S : f[x] = 0
    PROVE  SumFunctionOnSet(f, S) = 0
<1> DEFINE Q == {s \in SUBSET S : SumFunctionOnSet(f, s) = 0}
<1>1. \A s \in SUBSET S : IsFiniteSet(s)
  BY FS_Subset
<1>2. {} \in Q
  BY <1>1, SumStep
<1>3. ASSUME NEW T \in Q, NEW x \in S \ T PROVE T \cup {x} \in Q
  <2>1. PICK U \in SUBSET S : U = T \cup {x}
    OBVIOUS
  <2>2. x \in U /\ U \ {x} = T /\ IsFiniteSet(U) /\ \A y \in U : f[y] \in Int
    BY <1>1, <2>1
  <2>3. SumFunctionOnSet(f, U) = f[x] + SumFunctionOnSet(f, T)
    BY <2>2, SumTakes
  <2>4. QED
    BY <2>1, <2>3
<1>4. S \in Q
  <2>1. Q \in SUBSET (SUBSET S)
    OBVIOUS
  <2>2. QED
    BY <1>2, <1>3, <2>1, SubsetInduction
<1>5. QED
  BY <1>4

\* A sum of naturals is a natural.
LEMMA SumIsNat ==
    ASSUME NEW f, NEW S, IsFiniteSet(S), \A x \in S : f[x] \in Nat
    PROVE  SumFunctionOnSet(f, S) \in Nat
<1> DEFINE Q == {s \in SUBSET S : SumFunctionOnSet(f, s) \in Nat}
<1>1. \A s \in SUBSET S : IsFiniteSet(s)
  BY FS_Subset
<1>2. {} \in Q
  <2>1. SumFunctionOnSet(f, {}) = 0
    BY <1>1, SumStep
  <2>2. QED
    BY <2>1
<1>3. ASSUME NEW T \in Q, NEW x \in S \ T PROVE T \cup {x} \in Q
  <2>1. PICK U \in SUBSET S : U = T \cup {x}
    OBVIOUS
  <2>2. x \in U /\ U \ {x} = T /\ IsFiniteSet(U) /\ \A y \in U : f[y] \in Int
    BY <1>1, <2>1
  <2>3. SumFunctionOnSet(f, U) = f[x] + SumFunctionOnSet(f, T)
    BY <2>2, SumTakes
  <2>4. QED
    BY <2>1, <2>3
<1>4. S \in Q
  <2>1. Q \in SUBSET (SUBSET S)
    OBVIOUS
  <2>2. QED
    BY <1>2, <1>3, <2>1, SubsetInduction
<1>5. QED
  BY <1>4

\* The sum of a combination of two functions.
LEMMA SumCombines ==
    ASSUME NEW S, IsFiniteSet(S), NEW f, NEW g, NEW h, NEW k \in Int,
           \A x \in S : f[x] \in Int /\ g[x] \in Int /\ h[x] = k * f[x] + g[x]
    PROVE  SumFunctionOnSet(h, S) = k * SumFunctionOnSet(f, S) + SumFunctionOnSet(g, S)
<1> DEFINE Q == {s \in SUBSET S :
                   SumFunctionOnSet(h, s) = k * SumFunctionOnSet(f, s) + SumFunctionOnSet(g, s)}
<1>1. \A s \in SUBSET S : IsFiniteSet(s)
  BY FS_Subset
<1>2. {} \in Q
  <2>1. SumFunctionOnSet(f, {}) = 0 /\ SumFunctionOnSet(g, {}) = 0 /\ SumFunctionOnSet(h, {}) = 0
    BY <1>1, SumStep
  <2> QED
    BY <2>1
<1>3. ASSUME NEW T \in Q, NEW x \in S \ T PROVE T \cup {x} \in Q
  <2>1. PICK U \in SUBSET S : U = T \cup {x}
    OBVIOUS
  <2>2. x \in U /\ U \ {x} = T /\ IsFiniteSet(U) /\ IsFiniteSet(T)
    BY <1>1, <2>1
  <2>3. \A y \in U : f[y] \in Int /\ g[y] \in Int /\ h[y] \in Int
    OBVIOUS
  <2>4. PICK a \in Int, b \in Int, c \in Int :
            a = SumFunctionOnSet(f, T) /\ b = SumFunctionOnSet(g, T) /\ c = SumFunctionOnSet(h, T)
    <3>1. \A y \in T : f[y] \in Int /\ g[y] \in Int /\ h[y] \in Int
      OBVIOUS
    <3> QED
      BY <2>2, <3>1, SumType
  <2>5. SumFunctionOnSet(f, U) = f[x] + a
    BY <2>2, <2>3, <2>4, SumTakes
  <2>6. SumFunctionOnSet(g, U) = g[x] + b
    BY <2>2, <2>3, <2>4, SumTakes
  <2>7. SumFunctionOnSet(h, U) = h[x] + c
    BY <2>2, <2>3, <2>4, SumTakes
  <2>8. c = k * a + b
    BY <2>4
  <2>9. PICK p \in Int, q \in Int : p = f[x] /\ q = g[x] /\ h[x] = k * p + q
    OBVIOUS
  <2>10. (k * p + q) + (k * a + b) = k * (p + a) + (q + b)
    OBVIOUS
  <2> QED
    BY <2>1, <2>5, <2>6, <2>7, <2>8, <2>9, <2>10
<1>4. S \in Q
  <2>1. Q \in SUBSET (SUBSET S)
    OBVIOUS
  <2> QED
    BY <1>2, <1>3, <2>1, SubsetInduction
<1>5. QED
  BY <1>4

\* A sum of naturals is at least each of them.
LEMMA SumCovers ==
    ASSUME NEW S, IsFiniteSet(S), NEW f, \A y \in S : f[y] \in Nat, NEW x \in S
    PROVE  SumFunctionOnSet(f, S) >= f[x]
<1>1. SumFunctionOnSet(f, S) = f[x] + SumFunctionOnSet(f, S \ {x})
  BY SumTakes
<1>2. SumFunctionOnSet(f, S \ {x}) \in Nat
  BY FS_Subset, SumIsNat
<1> QED
  BY <1>1, <1>2

\* A sum of ones counts.
LEMMA SumOfOnes ==
    ASSUME NEW S, IsFiniteSet(S), NEW f, \A x \in S : f[x] = 1
    PROVE  SumFunctionOnSet(f, S) = Cardinality(S)
<1> DEFINE Q == {s \in SUBSET S : SumFunctionOnSet(f, s) = Cardinality(s)}
<1>1. \A s \in SUBSET S : IsFiniteSet(s) /\ Cardinality(s) \in Nat
  BY FS_Subset, FS_CardinalityType
<1>2. {} \in Q
  BY <1>1, SumStep, FS_EmptySet
<1>3. ASSUME NEW T \in Q, NEW x \in S \ T PROVE T \cup {x} \in Q
  <2>1. PICK U \in SUBSET S : U = T \cup {x}
    OBVIOUS
  <2>2. x \in U /\ U \ {x} = T /\ IsFiniteSet(U) /\ \A y \in U : f[y] \in Int
    BY <1>1, <2>1
  <2>3. SumFunctionOnSet(f, U) = f[x] + SumFunctionOnSet(f, T)
    BY <2>2, SumTakes
  <2>4. Cardinality(U) = Cardinality(T) + 1
    BY <1>1, <2>1, FS_AddElement
  <2>5. f[x] = 1 /\ Cardinality(T) \in Nat /\ SumFunctionOnSet(f, T) = Cardinality(T)
    BY <1>1
  <2> QED
    BY <2>1, <2>3, <2>4, <2>5
<1>4. S \in Q
  <2>1. Q \in SUBSET (SUBSET S)
    OBVIOUS
  <2> QED
    BY <1>2, <1>3, <2>1, SubsetInduction
<1> QED
  BY <1>4

\* The sum over disjoint parts is the sum of the sums over each of them.
LEMMA SumOfParts ==
    ASSUME NEW S, IsFiniteSet(S), NEW h, \A x \in S : h[x] \in Int,
           NEW K, IsFiniteSet(K), NEW C, NEW g,
           \A k \in K : C[k] \subseteq S /\ g[k] = SumFunctionOnSet(h, C[k]),
           \A k, l \in K : k # l => C[k] \cap C[l] = {}
    PROVE  SumFunctionOnSet(g, K) = SumFunctionOnSet(h, {x \in S : \E k \in K : x \in C[k]})
<1> DEFINE Covered(T) == {x \in S : \E k \in T : x \in C[k]}
           Q == {T \in SUBSET K : SumFunctionOnSet(g, T) = SumFunctionOnSet(h, Covered(T))}
<1>1. \A T \in SUBSET K : IsFiniteSet(T)
  BY FS_Subset
<1>2. \A T \in SUBSET K : IsFiniteSet(Covered(T)) /\ \A x \in Covered(T) : h[x] \in Int
  BY FS_Subset
<1>3. \A k \in K : IsFiniteSet(C[k]) /\ g[k] \in Int /\ \A x \in C[k] : h[x] \in Int
  BY FS_Subset, SumType
<1>4. {} \in Q
  <2>1. Covered({}) = {} /\ IsFiniteSet({})
    BY FS_EmptySet
  <2>2. SumFunctionOnSet(g, {}) = 0 /\ SumFunctionOnSet(h, {}) = 0
    BY <2>1, SumStep
  <2> QED
    BY <2>1, <2>2
<1>5. ASSUME NEW T \in Q, NEW k \in K \ T PROVE T \cup {k} \in Q
  <2>1. PICK U \in SUBSET K : U = T \cup {k} /\ T \in SUBSET K
    <3>1. T \in SUBSET K
      OBVIOUS
    <3>2. T \cup {k} \in SUBSET K
      BY <3>1
    <3> QED
      BY <3>1, <3>2, Zenon
  <2>2. PICK before, now, both : before = Covered(T) /\ now = C[k] /\ both = Covered(U)
    BY Zenon
  <2>3. both = before \cup now /\ before \cap now = {}
    BY <2>1, <2>2
  <2>4. /\ IsFiniteSet(before) /\ IsFiniteSet(now)
        /\ \A x \in before \cup now : h[x] \in Int
    BY <1>2, <1>3, <2>1, <2>2
  <2>5. SumFunctionOnSet(h, both) = SumFunctionOnSet(h, before) + SumFunctionOnSet(h, now)
    BY <2>3, <2>4, SumUnion
  <2>6. SumFunctionOnSet(g, U) = g[k] + SumFunctionOnSet(g, T)
    <3>1. k \in U /\ U \ {k} = T /\ IsFiniteSet(U) /\ \A l \in U : g[l] \in Int
      BY <1>1, <1>3, <2>1
    <3> QED
      BY <3>1, SumTakes
  <2>7. SumFunctionOnSet(g, T) = SumFunctionOnSet(h, before)
    BY <2>2
  <2>8. SumFunctionOnSet(h, before) \in Int /\ SumFunctionOnSet(h, now) \in Int
    BY <2>4, SumType
  <2>9. g[k] = SumFunctionOnSet(h, now)
    BY <2>2
  <2>10. SumFunctionOnSet(g, U) = SumFunctionOnSet(h, both)
    BY <2>5, <2>6, <2>7, <2>8, <2>9
  <2> QED
    BY <2>1, <2>2, <2>10
<1>6. K \in Q
  <2>1. Q \in SUBSET (SUBSET K)
    OBVIOUS
  <2> HIDE DEF Q
  <2> QED
    BY <1>4, <1>5, <2>1, SubsetInduction
<1> QED
  BY <1>6

-----------------------------------------------------------------------------
(***************************************************************************)
(* Fractions: a field with an order, as far as the plan of a month needs   *)
(* one.                                                                    *)
(***************************************************************************)

-----------------------------------------------------------------------------
(***************************************************************************)
(* The common divisor.  What is proved of it is that it divides both       *)
(* numbers and is a combination of them, which makes it the greatest.      *)
(***************************************************************************)
Divides(g, n) == \E k \in Int : n = g * k

IsGcd(g, a, b) ==
    /\ Divides(g, a)
    /\ Divides(g, b)
    /\ \E u, v \in Int : g = u * a + v * b

\* A step of Euclid's algorithm: quotient and remainder.
LEMMA Remainders ==
    ASSUME NEW a \in Int, NEW b \in Nat, b # 0
    PROVE  /\ a % b \in 0 .. b - 1 /\ a \div b \in Int
           /\ a = (a \div b) * b + (a % b)
  OBVIOUS

\* The numbers of a step have the common divisor of the next one.
LEMMA DivisorOfStep ==
    ASSUME NEW a \in Int, NEW b \in Nat, b # 0, NEW g \in Nat, IsGcd(g, b, a % b)
    PROVE  IsGcd(g, a, b)
<1>1. PICK r \in 0 .. b - 1 : r = a % b
  BY Remainders
<1>2. PICK q \in Int : q = a \div b /\ a = q * b + r
  BY <1>1, Remainders
<1>3. PICK k \in Int, l \in Int : b = g * k /\ r = g * l
  BY <1>1 DEF IsGcd, Divides
<1>4. PICK u \in Int, v \in Int : g = u * b + v * r
  BY <1>1 DEF IsGcd
<1>5. Divides(g, a)
  <2>1. a = q * (g * k) + g * l
    BY <1>2, <1>3
  <2>2. PICK m \in Int : m = q * k + l
    OBVIOUS
  <2>3. q * (g * k) + g * l = g * m
    BY <2>2
  <2>4. a = g * m
    BY <2>1, <2>3
  <2> QED
    BY <2>4 DEF Divides
<1>6. \E s, t \in Int : g = s * a + t * b
  <2>1. r = a - q * b
    BY <1>2
  <2>2. g = u * b + v * (a - q * b)
    BY <1>4, <2>1
  <2>3. PICK t \in Int : t = u - v * q
    OBVIOUS
  <2>4. u * b + v * (a - q * b) = v * a + t * b
    BY <2>3
  <2>5. g = v * a + t * b
    BY <2>2, <2>4
  <2> QED
    BY <2>5
<1> QED
  BY <1>3, <1>5, <1>6 DEF IsGcd, Divides

\* Divisors of each other are the same natural.
LEMMA MutualDivisors ==
    ASSUME NEW g \in Nat, NEW h \in Nat, Divides(g, h), Divides(h, g)
    PROVE  g = h
<1>1. PICK k \in Int, l \in Int : h = g * k /\ g = h * l
  BY DEF Divides
<1>2. CASE g = 0 \/ h = 0
  BY <1>1, <1>2
<1>3. CASE g > 0 /\ h > 0
  <2>1. k > 0 /\ l > 0
    BY <1>1, <1>3
  <2>2. g * k >= g /\ h * l >= h
    BY <1>3, <2>1
  <2> QED
    BY <1>1, <2>2
<1> QED
  BY <1>2, <1>3

\* What divides two numbers divides their combinations.
LEMMA DividesCombination ==
    ASSUME NEW g \in Int, NEW a \in Int, NEW b \in Int, NEW u \in Int, NEW v \in Int,
           Divides(g, a), Divides(g, b)
    PROVE  Divides(g, u * a + v * b)
<1>1. PICK k \in Int, l \in Int : a = g * k /\ b = g * l
  BY DEF Divides
<1>2. PICK m \in Int : m = u * k + v * l
  OBVIOUS
<1>3. u * (g * k) + v * (g * l) = g * m
  BY <1>2
<1>4. u * a + v * b = g * m
  BY <1>1, <1>3
<1> QED
  BY <1>4 DEF Divides

\* There is one such divisor at most.
LEMMA GcdUnique ==
    ASSUME NEW a \in Int, NEW b \in Int, NEW g \in Nat, NEW h \in Nat, IsGcd(g, a, b), IsGcd(h, a, b)
    PROVE  g = h
<1>1. Divides(g, h)
  <2>1. PICK u \in Int, v \in Int : h = u * a + v * b
    BY DEF IsGcd
  <2>2. g \in Int /\ Divides(g, a) /\ Divides(g, b)
    BY DEF IsGcd
  <2>3. Divides(g, u * a + v * b)
    BY <2>2, DividesCombination
  <2> QED
    BY <2>1, <2>3
<1>2. Divides(h, g)
  <2>1. PICK u \in Int, v \in Int : g = u * a + v * b
    BY DEF IsGcd
  <2>2. h \in Int /\ Divides(h, a) /\ Divides(h, b)
    BY DEF IsGcd
  <2>3. Divides(h, u * a + v * b)
    BY <2>2, DividesCombination
  <2> QED
    BY <2>1, <2>3
<1> QED
  BY <1>1, <1>2, MutualDivisors

AbsoluteValue(a) == IF a < 0 THEN -a ELSE a

\* The end of the algorithm.
LEMMA DivisorOfLast == ASSUME NEW a \in Int PROVE AbsoluteValue(a) \in Nat /\ IsGcd(AbsoluteValue(a), a, 0)
<1>1. PICK s \in {1, -1} : AbsoluteValue(a) = s * a
  <2>1. CASE a < 0
    BY <2>1 DEF AbsoluteValue
  <2>2. CASE ~(a < 0)
    BY <2>2 DEF AbsoluteValue
  <2> QED
    BY <2>1, <2>2
<1>2. AbsoluteValue(a) \in Nat
  BY DEF AbsoluteValue
<1>3. a = AbsoluteValue(a) * s /\ 0 = AbsoluteValue(a) * 0 /\ AbsoluteValue(a) = s * a + 0 * 0
  BY <1>1, <1>2
<1>4. s \in Int /\ 0 \in Int
  BY <1>1
<1> QED
  BY <1>2, <1>3, <1>4 DEF IsGcd, Divides

\* Every two numbers have a common divisor of this kind.
LEMMA GcdExists ==
    ASSUME NEW a \in Int, NEW b \in Nat
    PROVE  \E g \in Nat : IsGcd(g, a, b)
<1> DEFINE Without == {n \in Nat : \E c \in Int : ~ \E g \in Nat : IsGcd(g, c, n)}
<1>1. SUFFICES ASSUME Without # {} PROVE FALSE
  OBVIOUS
<1>2. PICK n \in Without : \A m \in Without : n <= m
  BY <1>1, LeastNumber
<1>3. PICK c \in Int : ~ \E g \in Nat : IsGcd(g, c, n)
  OBVIOUS
<1>4. n \in Nat /\ n # 0
  BY <1>3, DivisorOfLast
<1>5. c % n \in Nat /\ c % n < n
  BY <1>4, Remainders
<1>6. PICK r \in Nat : r = c % n /\ r < n
  BY <1>5
<1>7. r \notin Without
  BY <1>2, <1>4, <1>6
<1>8. PICK g \in Nat : IsGcd(g, n, r)
  BY <1>4, <1>6, <1>7
<1> QED
  BY <1>3, <1>4, <1>6, <1>8, DivisorOfStep

\* The step of the algorithm, as an operator on functions.
EuclidStep(f) ==
    [p \in Int \X Nat |->
        IF p[2] # 0 THEN f[<<p[2], p[1] % p[2]>>]
        ELSE IF p[1] < 0 THEN -p[1]
        ELSE p[1]]

\* So the algorithm has a result, of which its definition is true.
LEMMA CommonDivisorUnfolds == CommonDivisor = EuclidStep(CommonDivisor)
<1> DEFINE G == [p \in Int \X Nat |-> CHOOSE g \in Nat : IsGcd(g, p[1], p[2])]
<1>1. ASSUME NEW a \in Int, NEW b \in Nat PROVE G[<<a, b>>] \in Nat /\ IsGcd(G[<<a, b>>], a, b)
  BY GcdExists
<1> HIDE DEF G
<1>2. ASSUME NEW a \in Int, NEW b \in Nat
      PROVE  G[<<a, b>>] = IF b # 0 THEN G[<<b, a % b>>] ELSE AbsoluteValue(a)
  <2>1. CASE b = 0
    BY <1>1, <2>1, DivisorOfLast, GcdUnique
  <2>2. CASE b # 0
    <3>1. a % b \in Nat
      BY <2>2, Remainders
    <3>2. G[<<b, a % b>>] \in Nat /\ IsGcd(G[<<b, a % b>>], b, a % b)
      BY <1>1, <3>1
    <3>3. IsGcd(G[<<b, a % b>>], a, b)
      BY <2>2, <3>2, DivisorOfStep
    <3>4. G[<<a, b>>] \in Nat /\ IsGcd(G[<<a, b>>], a, b)
      BY <1>1
    <3>5. PICK x \in Nat, y \in Nat : x = G[<<a, b>>] /\ y = G[<<b, a % b>>]
      BY <3>2, <3>4
    <3>6. x = y
      BY <3>3, <3>4, <3>5, GcdUnique
    <3> QED
      BY <2>2, <3>5, <3>6
  <2> QED
    BY <2>1, <2>2
<1>3. \A p \in Int \X Nat : G[p] = EuclidStep(G)[p]
  <2>1. SUFFICES ASSUME NEW a \in Int, NEW b \in Nat PROVE G[<<a, b>>] = EuclidStep(G)[<<a, b>>]
    OBVIOUS
  <2> QED
    BY <1>2 DEF EuclidStep, AbsoluteValue
<1>4. G = EuclidStep(G)
  <2>1. G = [p \in Int \X Nat |-> G[p]]
    BY DEF G
  <2> QED
    BY <1>3, <2>1 DEF EuclidStep
<1>5. CommonDivisor = CHOOSE f : f = EuclidStep(f)
  BY DEF CommonDivisor, EuclidStep
<1> QED
  BY <1>4, <1>5

\* What the algorithm returns.
LEMMA CommonDivisorIsGcd ==
    ASSUME NEW a \in Int, NEW b \in Nat
    PROVE  CommonDivisor[<<a, b>>] \in Nat /\ IsGcd(CommonDivisor[<<a, b>>], a, b)
<1> DEFINE Right(c, n) == CommonDivisor[<<c, n>>] \in Nat /\ IsGcd(CommonDivisor[<<c, n>>], c, n)
           Without == {n \in Nat : \E c \in Int : ~ Right(c, n)}
<1>1. SUFFICES ASSUME Without # {} PROVE FALSE
  OBVIOUS
<1>2. PICK n \in Without : \A m \in Without : n <= m
  BY <1>1, LeastNumber
<1>3. PICK c \in Int : ~ Right(c, n)
  OBVIOUS
<1>4. CommonDivisor[<<c, n>>] = IF n # 0 THEN CommonDivisor[<<n, c % n>>] ELSE AbsoluteValue(c)
  <2>1. CommonDivisor[<<c, n>>] = EuclidStep(CommonDivisor)[<<c, n>>]
    BY CommonDivisorUnfolds
  <2> QED
    BY <2>1 DEF EuclidStep, AbsoluteValue
<1>5. n \in Nat /\ n # 0
  BY <1>3, <1>4, DivisorOfLast
<1>6. PICK r \in Nat : r = c % n /\ r < n
  BY <1>5, Remainders
<1>7. Right(n, r)
  <2>1. ~(n <= r)
    BY <1>5, <1>6
  <2>2. r \notin Without
    BY <1>2, <2>1
  <2>3. n \in Int
    BY <1>5
  <2> HIDE DEF Right
  <2> QED
    BY <1>6, <2>2, <2>3
<1> QED
  BY <1>3, <1>4, <1>5, <1>6, <1>7, DivisorOfStep

-----------------------------------------------------------------------------
(***************************************************************************)
(* Lowest terms.  Numerator and denominator have a combination that is 1,  *)
(* and that makes the representation of a number unique.                   *)
(***************************************************************************)
Positive == Nat \ {0}

Coprime(x, e) == \E u, v \in Int : u * x + v * e = 1

\* The denominator of a number in lowest terms divides every other one.
LEMMA CoprimeDivides ==
    ASSUME NEW x \in Int, NEW y \in Int, NEW e \in Int, NEW f \in Int,
           Coprime(x, e), x * f = y * e
    PROVE  Divides(e, f)
<1>1. PICK u \in Int, v \in Int : u * x + v * e = 1
  BY DEF Coprime
<1>2. f = f * (u * x + v * e)
  BY <1>1
<1>3. f * (u * x + v * e) = u * (x * f) + e * (v * f)
  OBVIOUS
<1>4. u * (x * f) = u * (y * e)
  OBVIOUS
<1>5. PICK k \in Int : k = u * y + v * f
  OBVIOUS
<1>6. u * (y * e) + e * (v * f) = e * k
  BY <1>5
<1>7. f = e * k
  BY <1>2, <1>3, <1>4, <1>6
<1> QED
  BY <1>7 DEF Divides

\* Two numbers in lowest terms that are equal are the same pair.
LEMMA CoprimeUnique ==
    ASSUME NEW x \in Int, NEW y \in Int, NEW e \in Positive, NEW f \in Positive,
           Coprime(x, e), Coprime(y, f), x * f = y * e
    PROVE  x = y /\ e = f
<1>1. e \in Nat /\ f \in Nat /\ e \in Int /\ f \in Int /\ e > 0 /\ f > 0
  BY DEF Positive
<1>2. Divides(e, f)
  BY <1>1, CoprimeDivides
<1>3. Divides(f, e)
  BY <1>1, CoprimeDivides
<1>4. e = f
  BY <1>1, <1>2, <1>3, MutualDivisors
<1>5. x * e = y * e
  BY <1>4
<1>6. x = y
  BY <1>1, <1>5
<1> QED
  BY <1>4, <1>6

\* What Fraction returns: the number n / d, in lowest terms.
LEMMA FractionForm ==
    ASSUME NEW n \in Int, NEW d \in Positive
    PROVE  \E x \in Int, e \in Positive, g \in Positive :
               /\ Fraction(n, d) = <<x, e>>
               /\ n = g * x /\ d = g * e
               /\ Coprime(x, e)
<1>1. d \in Nat /\ d > 0
  BY DEF Positive
<1>2. PICK g \in Nat : g = CommonDivisor[<<n, d>>] /\ IsGcd(g, n, d)
  BY <1>1, CommonDivisorIsGcd
<1>3. PICK x \in Int, e \in Int, u \in Int, v \in Int :
          n = g * x /\ d = g * e /\ g = u * n + v * d
  BY <1>2 DEF IsGcd, Divides
<1>4. g > 0
  BY <1>1, <1>3
<1>5. e > 0
  <2>1. ASSUME e <= 0 PROVE g * e <= 0
    BY <1>4, <2>1
  <2> QED
    BY <1>1, <1>3, <2>1
<1>6. n \div g = x /\ d \div g = e
  <2>1. \A z \in Int : (g * z) \div g = z
    BY <1>4
  <2> QED
    BY <1>3, <2>1
<1>7. u * x + v * e = 1
  <2>1. g = u * (g * x) + v * (g * e)
    BY <1>3
  <2>2. u * (g * x) + v * (g * e) = g * (u * x + v * e)
    OBVIOUS
  <2>3. PICK w \in Int : w = u * x + v * e
    OBVIOUS
  <2>4. g * w = g
    BY <2>1, <2>2, <2>3
  <2>5. w = 1
    BY <1>4, <2>4
  <2> QED
    BY <2>3, <2>5
<1>8. Fraction(n, d) = <<x, e>>
  BY <1>2, <1>6 DEF Fraction, Lowered
<1>9. Coprime(x, e)
  BY <1>7 DEF Coprime
<1>10. e \in Positive /\ g \in Positive
  BY <1>4, <1>5 DEF Positive
<1> QED
  BY <1>3, <1>8, <1>9, <1>10

\* The parts of a fraction.
LEMMA FractionParts ==
    ASSUME NEW n \in Int, NEW d \in Positive
    PROVE  /\ Fraction(n, d)[1] \in Int /\ Fraction(n, d)[2] \in Positive
           /\ Fraction(n, d) = <<Fraction(n, d)[1], Fraction(n, d)[2]>>
           /\ Fraction(n, d)[1] * d = n * Fraction(n, d)[2]
           /\ Coprime(Fraction(n, d)[1], Fraction(n, d)[2])
<1>1. PICK x \in Int, e \in Positive, g \in Positive :
          /\ Fraction(n, d) = <<x, e>>
          /\ n = g * x /\ d = g * e
          /\ Coprime(x, e)
  BY FractionForm
<1>2. x * (g * e) = (g * x) * e
  BY DEF Positive
<1> QED
  BY <1>1, <1>2

\* A pair in lowest terms is left as it is.
LEMMA LowestTerms ==
    ASSUME NEW x \in Int, NEW e \in Positive, Coprime(x, e)
    PROVE  Fraction(x, e) = <<x, e>>
<1>1. PICK y \in Int, f \in Positive, g \in Positive :
          /\ Fraction(x, e) = <<y, f>>
          /\ x = g * y /\ e = g * f
          /\ Coprime(y, f)
  BY FractionForm
<1>2. (g * y) * f = y * (g * f)
  BY DEF Positive
<1>3. x * f = y * e
  BY <1>1, <1>2
<1>4. x = y /\ e = f
  BY <1>1, <1>3, CoprimeUnique
<1> QED
  BY <1>1, <1>4

\* Fractions of equal numbers are equal, and of other numbers they are not.
LEMMA SameFraction ==
    ASSUME NEW n \in Int, NEW d \in Positive, NEW m \in Int, NEW e \in Positive
    PROVE  Fraction(n, d) = Fraction(m, e) <=> n * e = m * d
<1>1. PICK x \in Int, a \in Positive, g \in Positive :
          /\ Fraction(n, d) = <<x, a>>
          /\ n = g * x /\ d = g * a
          /\ Coprime(x, a)
  BY FractionForm
<1>2. PICK y \in Int, b \in Positive, h \in Positive :
          /\ Fraction(m, e) = <<y, b>>
          /\ m = h * y /\ e = h * b
          /\ Coprime(y, b)
  BY FractionForm
<1>3. /\ a \in Int /\ b \in Int /\ g \in Int /\ h \in Int
      /\ g > 0 /\ h > 0
  BY DEF Positive
<1>4. n * e = (g * h) * (x * b) /\ m * d = (g * h) * (y * a)
  <2>1. (g * x) * (h * b) = (g * h) * (x * b) /\ (h * y) * (g * a) = (g * h) * (y * a)
    BY <1>3
  <2> QED
    BY <1>1, <1>2, <2>1
<1>5. PICK k \in Int : k = g * h /\ k > 0
  BY <1>3
<1>6. n * e = m * d <=> x * b = y * a
  <2>1. PICK s \in Int, t \in Int : s = x * b /\ t = y * a
    BY <1>3
  <2>2. k * s = k * t <=> s = t
    BY <1>5
  <2> QED
    BY <1>4, <1>5, <2>1, <2>2
<1>7. x * b = y * a => x = y /\ a = b
  BY <1>1, <1>2, CoprimeUnique
<1>8. <<x, a>> = <<y, b>> <=> x = y /\ a = b
  OBVIOUS
<1> QED
  BY <1>1, <1>2, <1>6, <1>7, <1>8

\* The rationals are what Fraction returns.
LEMMA FractionType ==
    ASSUME NEW n \in Int, NEW d \in Positive
    PROVE  Fraction(n, d) \in Rationals
<1>1. PICK x \in Int, e \in Positive : Fraction(n, d) = <<x, e>> /\ Coprime(x, e)
  BY FractionForm
<1>2. Fraction(x, e) = <<x, e>>
  BY <1>1, LowestTerms
<1> QED
  BY <1>1, <1>2 DEF Rationals, Positive

\* The parts of a rational.
LEMMA RationalParts ==
    ASSUME NEW q \in Rationals
    PROVE  /\ q[1] \in Int /\ q[2] \in Positive
           /\ q = Fraction(q[1], q[2])
           /\ Coprime(q[1], q[2])
<1>1. q[1] \in Int /\ q[2] \in Positive /\ q = Fraction(q[1], q[2])
  BY DEF Rationals, Positive
<1> QED
  BY <1>1, FractionParts

-----------------------------------------------------------------------------
(***************************************************************************)
(* What the operators compute.  Over a common denominator they do what the *)
(* integers do with the numerators.                                        *)
(***************************************************************************)

\* The product of positive numbers.
LEMMA PositiveProduct ==
    ASSUME NEW d \in Positive, NEW e \in Positive
    PROVE  d * e \in Positive /\ d * e >= d /\ d * e >= e /\ d \in Int /\ e \in Int
  BY DEF Positive

\* The sum of two pairs, whatever terms they are in.
LEMMA PlusOfPairs ==
    ASSUME NEW n \in Int, NEW c \in Positive, NEW m \in Int, NEW e \in Positive,
           NEW x \in Int, NEW y \in Int, NEW d \in Positive,
           n * d = x * c, m * d = y * e
    PROVE  Plus(<<n, c>>, <<m, e>>) = Fraction(x + y, d)
<1>1. c \in Nat /\ e \in Nat /\ d \in Nat /\ c > 0 /\ e > 0 /\ d > 0
  BY DEF Positive
<1>2. PICK g \in Nat : g = CommonDivisor[<<c, e>>] /\ IsGcd(g, c, e)
  BY <1>1, CommonDivisorIsGcd
<1>3. PICK a \in Int, b \in Int : c = g * a /\ e = g * b
  BY <1>2 DEF IsGcd, Divides
<1>4. g > 0
  BY <1>1, <1>3
<1>5. a > 0 /\ b > 0
  <2>1. ASSUME a <= 0 PROVE g * a <= 0
    BY <1>4, <2>1
  <2>2. ASSUME b <= 0 PROVE g * b <= 0
    BY <1>4, <2>2
  <2> QED
    BY <1>1, <1>3, <2>1, <2>2
<1>6. c \div g = a /\ e \div g = b
  <2>1. \A z \in Int : (g * z) \div g = z
    BY <1>4
  <2> QED
    BY <1>3, <2>1
<1>7. Plus(<<n, c>>, <<m, e>>) = Fraction(n * b + m * a, a * e)
  BY <1>2, <1>6 DEF Plus, SumOver
<1>8. n * b + m * a \in Int /\ a * e \in Positive
  BY <1>1, <1>5 DEF Positive
<1>9. (n * b + m * a) * d = (x + y) * (a * e)
  <2>1. (n * b + m * a) * d = (n * d) * b + (m * d) * a
    BY <1>1
  <2>2. (x * c) * b + (y * e) * a = (x * (g * a)) * b + (y * e) * a
    BY <1>3
  <2>3. (x * (g * a)) * b = x * (a * (g * b))
    BY <1>1
  <2>4. x * (a * (g * b)) = x * (a * e)
    BY <1>3
  <2>5. (y * e) * a = y * (a * e)
    BY <1>1
  <2>6. x * (a * e) + y * (a * e) = (x + y) * (a * e)
    BY <1>1
  <2> QED
    BY <2>1, <2>2, <2>3, <2>4, <2>5, <2>6
<1> QED
  BY <1>7, <1>8, <1>9, SameFraction

\* Addition.
LEMMA AddFractions ==
    ASSUME NEW x \in Int, NEW y \in Int, NEW d \in Positive
    PROVE  Plus(Fraction(x, d), Fraction(y, d)) = Fraction(x + y, d)
<1>1. PICK n \in Int, c \in Positive : Fraction(x, d) = <<n, c>> /\ n * d = x * c
  BY FractionParts
<1>2. PICK m \in Int, e \in Positive : Fraction(y, d) = <<m, e>> /\ m * d = y * e
  BY FractionParts
<1>3. Plus(<<n, c>>, <<m, e>>) = Fraction(x + y, d)
  BY <1>1, <1>2, PlusOfPairs
<1> QED
  BY <1>1, <1>2, <1>3

\* Subtraction.
LEMMA SubtractFractions ==
    ASSUME NEW x \in Int, NEW y \in Int, NEW d \in Positive
    PROVE  Minus(Fraction(x, d), Fraction(y, d)) = Fraction(x - y, d)
<1>1. PICK n \in Int, c \in Positive : Fraction(x, d) = <<n, c>> /\ n * d = x * c
  BY FractionParts
<1>2. PICK m \in Int, e \in Positive : Fraction(y, d) = <<m, e>> /\ m * d = y * e
  BY FractionParts
<1>3. PICK k \in Int, z \in Int : k = -m /\ z = -y
  OBVIOUS
<1>4. k * d = z * e
  <2>1. k * d = -(m * d) /\ z * e = -(y * e)
    BY <1>3 DEF Positive
  <2> QED
    BY <1>2, <2>1
<1>5. Plus(<<n, c>>, <<k, e>>) = Fraction(x + z, d)
  BY <1>1, <1>4, PlusOfPairs
<1>6. Minus(<<n, c>>, <<m, e>>) = Plus(<<n, c>>, <<k, e>>)
  BY <1>3 DEF Minus
<1>7. x + z = x - y
  BY <1>3
<1> QED
  BY <1>1, <1>2, <1>5, <1>6, <1>7

\* A fraction has the sign of its numerator.
LEMMA FractionSign ==
    ASSUME NEW x \in Int, NEW d \in Positive
    PROVE  Fraction(x, d)[1] < 0 <=> x < 0
<1>1. PICK n \in Int, c \in Positive : Fraction(x, d) = <<n, c>> /\ n * d = x * c
  BY FractionParts
<1>2. d \in Nat /\ d > 0 /\ c \in Nat /\ c > 0
  BY DEF Positive
<1>3. n < 0 <=> n * d < 0
  BY <1>2
<1>4. x < 0 <=> x * c < 0
  BY <1>2
<1> QED
  BY <1>1, <1>3, <1>4

\* The order.
LEMMA CompareFractions ==
    ASSUME NEW x \in Int, NEW y \in Int, NEW d \in Positive
    PROVE  Less(Fraction(x, d), Fraction(y, d)) <=> x < y
<1>1. Less(Fraction(x, d), Fraction(y, d)) <=> Fraction(x - y, d)[1] < 0
  BY SubtractFractions DEF Less
<1>2. x - y \in Int /\ (x - y < 0 <=> x < y)
  OBVIOUS
<1> QED
  BY <1>1, <1>2, FractionSign

\* Equality.
LEMMA EqualFractions ==
    ASSUME NEW x \in Int, NEW y \in Int, NEW d \in Positive
    PROVE  Fraction(x, d) = Fraction(y, d) <=> x = y
<1>1. Fraction(x, d) = Fraction(y, d) <=> x * d = y * d
  BY SameFraction
<1>2. x * d = y * d <=> x = y
  BY DEF Positive
<1> QED
  BY <1>1, <1>2

\* Zero over any denominator.
LEMMA ZeroFraction == ASSUME NEW d \in Positive PROVE Zero = Fraction(0, d)
<1>1. Coprime(0, 1)
  <2>1. 0 \in Int /\ 1 \in Int /\ 0 * 0 + 1 * 1 = 1
    OBVIOUS
  <2> QED
    BY <2>1 DEF Coprime
<1>2. 0 \in Int /\ 1 \in Positive
  BY DEF Positive
<1>3. Zero = Fraction(0, 1)
  BY <1>1, <1>2, LowestTerms DEF Zero
<1>4. 0 * d = 0 * 1
  BY DEF Positive
<1> QED
  BY <1>2, <1>3, <1>4, SameFraction

\* Whole numbers.
LEMMA WholeFraction == ASSUME NEW x \in Int PROVE <<x, 1>> = Fraction(x, 1) /\ <<x, 1>> \in Rationals
<1>1. Coprime(x, 1)
  <2>1. 0 * x + 1 * 1 = 1 /\ 0 \in Int /\ 1 \in Int
    OBVIOUS
  <2> QED
    BY <2>1 DEF Coprime
<1>2. 1 \in Positive
  BY DEF Positive
<1> QED
  BY <1>1, <1>2, LowestTerms, FractionType

-----------------------------------------------------------------------------
(***************************************************************************)
(* Products.  Cancelling crosswise leaves lowest terms.                    *)
(***************************************************************************)

\* The two numbers have no order.
LEMMA CoprimeSwaps ==
    ASSUME NEW x \in Int, NEW e \in Int, Coprime(x, e)
    PROVE  Coprime(e, x)
<1>1. PICK u \in Int, v \in Int : u * x + v * e = 1
  BY DEF Coprime
<1>2. v * e + u * x = 1
  BY <1>1
<1> QED
  BY <1>2 DEF Coprime

\* Two numbers without a factor in common with e have a product without one.
LEMMA CoprimeProduct ==
    ASSUME NEW x \in Int, NEW y \in Int, NEW e \in Int, Coprime(x, e), Coprime(y, e)
    PROVE  Coprime(x * y, e)
<1>1. PICK u \in Int, v \in Int : u * x + v * e = 1
  BY DEF Coprime
<1>2. PICK s \in Int, t \in Int : s * y + t * e = 1
  BY DEF Coprime
<1>3. (u * x + v * e) * (s * y + t * e) = 1
  BY <1>1, <1>2
<1>4. PICK k \in Int, l \in Int : k = u * s /\ l = u * x * t + v * (s * y) + v * (t * e)
  OBVIOUS
<1>5. (u * x + v * e) * (s * y + t * e) =
          (u * s) * (x * y) + (u * x * t + v * (s * y) + v * (t * e)) * e
  OBVIOUS
<1>6. k * (x * y) + l * e = 1
  BY <1>3, <1>4, <1>5
<1> QED
  BY <1>6 DEF Coprime

\* The product of two pairs in lowest terms.
LEMMA TimesOfPairs ==
    ASSUME NEW n \in Int, NEW c \in Positive, NEW m \in Int, NEW e \in Positive,
           Coprime(n, c), Coprime(m, e)
    PROVE  Times(<<n, c>>, <<m, e>>) = Fraction(n * m, c * e)
<1>1. PICK p \in Int, q \in Positive, g \in Positive :
          /\ Fraction(n, e) = <<p, q>>
          /\ n = g * p /\ e = g * q
          /\ Coprime(p, q)
  BY FractionForm
<1>2. PICK r \in Int, s \in Positive, h \in Positive :
          /\ Fraction(m, c) = <<r, s>>
          /\ m = h * r /\ c = h * s
          /\ Coprime(r, s)
  BY FractionForm
<1>3. /\ c \in Int /\ e \in Int /\ q \in Int /\ g \in Int /\ s \in Int /\ h \in Int
  BY DEF Positive
<1>4. Coprime(p, s)
  <2>1. PICK u \in Int, v \in Int : u * n + v * c = 1
    BY DEF Coprime
  <2>2. u * (g * p) + v * (h * s) = (u * g) * p + (v * h) * s
    BY <1>3
  <2>3. PICK k \in Int, l \in Int : k = u * g /\ l = v * h
    BY <1>3
  <2>4. k * p + l * s = 1
    BY <1>1, <1>2, <2>1, <2>2, <2>3
  <2> QED
    BY <2>4 DEF Coprime
<1>5. Coprime(r, q)
  <2>1. PICK u \in Int, v \in Int : u * m + v * e = 1
    BY DEF Coprime
  <2>2. u * (h * r) + v * (g * q) = (u * h) * r + (v * g) * q
    BY <1>3
  <2>3. PICK k \in Int, l \in Int : k = u * h /\ l = v * g
    BY <1>3
  <2>4. k * r + l * q = 1
    BY <1>1, <1>2, <2>1, <2>2, <2>3
  <2> QED
    BY <2>4 DEF Coprime
<1>6. PICK x \in Int, y \in Positive : x = p * r /\ y = q * s
  BY PositiveProduct
<1>7. Coprime(x, q) /\ Coprime(x, s)
  BY <1>1, <1>2, <1>3, <1>4, <1>5, <1>6, CoprimeProduct
<1>8. Coprime(q, x) /\ Coprime(s, x)
  BY <1>3, <1>6, <1>7, CoprimeSwaps
<1>9. Coprime(q * s, x)
  BY <1>3, <1>6, <1>8, CoprimeProduct
<1>10. Coprime(x, y)
  <2>1. y \in Int
    BY DEF Positive
  <2> QED
    BY <1>6, <1>9, <2>1, CoprimeSwaps
<1>11. Times(<<n, c>>, <<m, e>>) = <<x, y>>
  BY <1>1, <1>2, <1>6 DEF Times, Product
<1>12. Fraction(x, y) = <<x, y>>
  BY <1>6, <1>10, LowestTerms
<1>13. x * (c * e) = (n * m) * y
  <2>1. (p * r) * ((h * s) * (g * q)) = ((g * p) * (h * r)) * (q * s)
    BY <1>3
  <2> QED
    BY <1>1, <1>2, <1>6, <2>1
<1>14. n * m \in Int /\ c * e \in Positive
  BY <1>3, PositiveProduct
<1>15. Fraction(x, y) = Fraction(n * m, c * e)
  BY <1>13, <1>14, SameFraction
<1> QED
  BY <1>11, <1>12, <1>15

\* Multiplication.
LEMMA MultiplyFractions ==
    ASSUME NEW x \in Int, NEW d \in Positive, NEW y \in Int, NEW f \in Positive
    PROVE  Times(Fraction(x, d), Fraction(y, f)) = Fraction(x * y, d * f)
<1>1. PICK n \in Int, c \in Positive :
          Fraction(x, d) = <<n, c>> /\ n * d = x * c /\ Coprime(n, c)
  BY FractionParts
<1>2. PICK m \in Int, e \in Positive :
          Fraction(y, f) = <<m, e>> /\ m * f = y * e /\ Coprime(m, e)
  BY FractionParts
<1>3. c \in Int /\ d \in Int /\ e \in Int /\ f \in Int
  BY DEF Positive
<1>4. Times(<<n, c>>, <<m, e>>) = Fraction(n * m, c * e)
  BY <1>1, <1>2, TimesOfPairs
<1>5. (n * m) * (d * f) = (x * y) * (c * e)
  <2>1. (n * m) * (d * f) = (n * d) * (m * f) /\ (x * y) * (c * e) = (x * c) * (y * e)
    BY <1>3
  <2> QED
    BY <1>1, <1>2, <2>1
<1>6. n * m \in Int /\ x * y \in Int /\ c * e \in Positive /\ d * f \in Positive
  BY PositiveProduct
<1>7. Fraction(n * m, c * e) = Fraction(x * y, d * f)
  BY <1>5, <1>6, SameFraction
<1> QED
  BY <1>1, <1>2, <1>4, <1>7

\* Division by a positive number.
LEMMA DivideFractions ==
    ASSUME NEW x \in Int, NEW d \in Positive, NEW y \in Positive, NEW f \in Positive
    PROVE  Over(Fraction(x, d), Fraction(y, f)) = Fraction(x * f, d * y)
<1>1. PICK n \in Int, c \in Positive :
          Fraction(x, d) = <<n, c>> /\ n * d = x * c /\ Coprime(n, c)
  BY FractionParts
<1>2. /\ c \in Int /\ d \in Int /\ y \in Int /\ f \in Int
      /\ c > 0 /\ d > 0 /\ y > 0 /\ f > 0
  BY DEF Positive
<1>3. PICK m \in Int, e \in Positive :
          Fraction(y, f) = <<m, e>> /\ m * f = y * e /\ Coprime(m, e)
  BY <1>2, FractionParts
<1>4. e \in Int /\ e > 0
  BY DEF Positive
<1>5. m > 0
  <2>1. y * e > 0
    BY <1>2, <1>4
  <2>2. ASSUME m <= 0 PROVE m * f <= 0
    BY <1>2, <2>2
  <2>3. PICK w \in Int : w = m * f /\ w = y * e
    BY <1>2, <1>3, <1>4
  <2> QED
    BY <2>1, <2>2, <2>3
<1>6. m \in Positive /\ Coprime(e, m)
  BY <1>3, <1>4, <1>5, CoprimeSwaps DEF Positive
<1>7. Times(<<n, c>>, <<e, m>>) = Fraction(n * e, c * m)
  BY <1>1, <1>4, <1>6, TimesOfPairs
<1>8. Over(Fraction(x, d), Fraction(y, f)) = Times(<<n, c>>, <<e, m>>)
  BY <1>1, <1>3 DEF Over
<1>9. (n * e) * (d * y) = (x * f) * (c * m)
  <2>1. (n * e) * (d * y) = (n * d) * (y * e) /\ (x * f) * (c * m) = (x * c) * (m * f)
    BY <1>2, <1>4
  <2> QED
    BY <1>1, <1>3, <2>1
<1>10. n * e \in Int /\ x * f \in Int /\ c * m \in Positive /\ d * y \in Positive
  BY <1>2, <1>4, <1>6, PositiveProduct
<1>11. Fraction(n * e, c * m) = Fraction(x * f, d * y)
  BY <1>9, <1>10, SameFraction
<1> QED
  BY <1>7, <1>8, <1>11

-----------------------------------------------------------------------------
(***************************************************************************)
(* Common denominators.                                                    *)
(***************************************************************************)

\* A fraction over a multiple of its denominator.
LEMMA Rescaled ==
    ASSUME NEW x \in Int, NEW d \in Positive, NEW k \in Positive
    PROVE  Fraction(x, d) = Fraction(x * k, d * k)
<1>1. d \in Int /\ k \in Int
  BY DEF Positive
<1>2. x * (d * k) = (x * k) * d
  BY <1>1
<1>3. x * k \in Int /\ d * k \in Positive
  BY <1>1, PositiveProduct
<1> QED
  BY <1>2, <1>3, SameFraction

\* A rational over some multiple of any denominator.
LEMMA CommonStep ==
    ASSUME NEW q \in Rationals, NEW d \in Positive
    PROVE  \E k \in Positive, x \in Int : d * k \in Positive /\ q = Fraction(x, d * k)
<1>1. q[1] \in Int /\ q[2] \in Positive /\ q = Fraction(q[1], q[2])
  BY RationalParts
<1>2. PICK n \in Int, k \in Positive : n = q[1] /\ k = q[2] /\ q = Fraction(n, k)
  BY <1>1
<1>3. q = Fraction(n * d, k * d)
  BY <1>2, Rescaled
<1>4. k * d = d * k /\ n * d \in Int
  BY DEF Positive
<1>5. d * k \in Positive
  BY PositiveProduct
<1> QED
  BY <1>3, <1>4, <1>5

\* Finitely many rationals have a common denominator.
LEMMA CommonDenominator ==
    ASSUME NEW S \in SUBSET Rationals, IsFiniteSet(S)
    PROVE  \E d \in Positive : \A q \in S : \E x \in Int : q = Fraction(x, d)
<1> DEFINE Common(T, d) == \A q \in T : \E x \in Int : q = Fraction(x, d)
           Q == {T \in SUBSET S : \E d \in Positive : Common(T, d)}
<1>1. {} \in Q
  <2>1. 1 \in Positive
    BY DEF Positive
  <2> QED
    BY <2>1
<1>2. ASSUME NEW T \in Q, NEW p \in S \ T PROVE T \cup {p} \in Q
  <2>1. PICK d \in Positive : Common(T, d)
    OBVIOUS
  <2>2. p \in Rationals
    OBVIOUS
  <2>3. PICK k \in Positive, z \in Int : d * k \in Positive /\ p = Fraction(z, d * k)
    BY <2>2, CommonStep
  <2>4. ASSUME NEW q \in T PROVE \E x \in Int : q = Fraction(x, d * k)
    <3>1. PICK x \in Int : q = Fraction(x, d)
      BY <2>1
    <3>2. q = Fraction(x * k, d * k)
      BY <3>1, Rescaled
    <3>3. x * k \in Int
      BY DEF Positive
    <3> QED
      BY <3>2, <3>3
  <2>5. Common(T \cup {p}, d * k)
    BY <2>3, <2>4
  <2> QED
    BY <2>3, <2>5
<1>3. S \in Q
  <2>1. Q \in SUBSET (SUBSET S)
    OBVIOUS
  <2> HIDE DEF Q
  <2> QED
    BY <1>1, <1>2, <2>1, SubsetInduction
<1> QED
  BY <1>3

\* So have the values of a function on a finite set.
LEMMA CommonNumerators ==
    ASSUME NEW S, IsFiniteSet(S), NEW f, \A i \in S : f[i] \in Rationals
    PROVE  \E d \in Positive, n \in [S -> Int] : \A i \in S : f[i] = Fraction(n[i], d)
<1>1. PICK V : V = {f[i] : i \in S}
  OBVIOUS
<1>2. IsFiniteSet(V)
  <2>1. PICK g : g = [i \in S |-> f[i]]
    OBVIOUS
  <2>2. V = {g[i] : i \in S} /\ g \in [S -> V] /\ S = DOMAIN g
    BY <1>1, <2>1
  <2>3. g \in Surjection(S, V)
    BY <2>2 DEF Surjection
  <2> QED
    BY <2>3, FS_Surjection
<1>3. V \in SUBSET Rationals
  BY <1>1
<1>4. PICK d \in Positive : \A q \in V : \E x \in Int : q = Fraction(x, d)
  BY <1>2, <1>3, CommonDenominator
<1>5. PICK n : n = [i \in S |-> CHOOSE x \in Int : f[i] = Fraction(x, d)]
  OBVIOUS
<1>6. \A i \in S : n[i] \in Int /\ f[i] = Fraction(n[i], d)
  BY <1>1, <1>4, <1>5
<1>7. n \in [S -> Int]
  BY <1>5, <1>6
<1> QED
  BY <1>6, <1>7

\* And so have up to four of them.
LEMMA CommonForFour ==
    ASSUME NEW a \in Rationals, NEW b \in Rationals, NEW c \in Rationals, NEW e \in Rationals
    PROVE  \E d \in Positive, x, y, z, u \in Int :
               a = Fraction(x, d) /\ b = Fraction(y, d) /\ c = Fraction(z, d) /\ e = Fraction(u, d)
<1>1. PICK S : S = {a, b, c, e}
  OBVIOUS
<1>2. IsFiniteSet(S)
  <2>1. IsFiniteSet({a}) /\ IsFiniteSet({b}) /\ IsFiniteSet({c}) /\ IsFiniteSet({e})
    BY FS_Singleton
  <2>2. S = {a} \cup ({b} \cup ({c} \cup {e}))
    BY <1>1
  <2> QED
    BY <2>1, <2>2, FS_Union
<1>3. S \in SUBSET Rationals
  BY <1>1
<1>4. PICK d \in Positive : \A q \in S : \E x \in Int : q = Fraction(x, d)
  BY <1>2, <1>3, CommonDenominator
<1> QED
  BY <1>1, <1>4

\* Three of them.
LEMMA CommonForThree ==
    ASSUME NEW a \in Rationals, NEW b \in Rationals, NEW c \in Rationals
    PROVE  \E d \in Positive, x, y, z \in Int :
               a = Fraction(x, d) /\ b = Fraction(y, d) /\ c = Fraction(z, d)
<1>1. PICK S : S = {a, b, c}
  OBVIOUS
<1>2. IsFiniteSet(S)
  <2>1. IsFiniteSet({a}) /\ IsFiniteSet({b}) /\ IsFiniteSet({c})
    BY FS_Singleton
  <2>2. S = {a} \cup ({b} \cup {c})
    BY <1>1
  <2> QED
    BY <2>1, <2>2, FS_Union
<1>3. S \in SUBSET Rationals
  BY <1>1
<1>4. PICK d \in Positive : \A q \in S : \E x \in Int : q = Fraction(x, d)
  BY <1>2, <1>3, CommonDenominator
<1> QED
  BY <1>1, <1>4

\* Two of them.
LEMMA CommonForTwo ==
    ASSUME NEW a \in Rationals, NEW b \in Rationals
    PROVE  \E d \in Positive, x, y \in Int : a = Fraction(x, d) /\ b = Fraction(y, d)
<1>1. \E d \in Positive, x, y, z \in Int :
          a = Fraction(x, d) /\ b = Fraction(y, d) /\ b = Fraction(z, d)
  BY CommonForThree
<1> QED
  BY <1>1

-----------------------------------------------------------------------------
(***************************************************************************)
(* The operators stay among the rationals.                                 *)
(***************************************************************************)

\* Zero and one.
LEMMA ConstantTypes == Zero \in Rationals /\ One \in Rationals
  BY WholeFraction DEF Zero, One

\* Sums and differences.
LEMMA PlusType ==
    ASSUME NEW a \in Rationals, NEW b \in Rationals
    PROVE  Plus(a, b) \in Rationals /\ Minus(a, b) \in Rationals
<1>1. PICK d \in Positive, x \in Int, y \in Int : a = Fraction(x, d) /\ b = Fraction(y, d)
  BY CommonForTwo
<1>2. Plus(a, b) = Fraction(x + y, d) /\ Minus(a, b) = Fraction(x - y, d)
  BY <1>1, AddFractions, SubtractFractions
<1>3. x + y \in Int /\ x - y \in Int
  OBVIOUS
<1> QED
  BY <1>2, <1>3, FractionType

\* Products, and their sign.
LEMMA TimesType ==
    ASSUME NEW a \in Rationals, NEW b \in Rationals
    PROVE  /\ Times(a, b) \in Rationals
           /\ ~ Less(a, Zero) /\ ~ Less(b, Zero) => ~ Less(Times(a, b), Zero)
           /\ Less(Zero, a) /\ Less(Zero, b) => Less(Zero, Times(a, b))
           /\ (a = Zero \/ b = Zero) => Times(a, b) = Zero
<1>1. PICK d \in Positive, x \in Int, y \in Int : a = Fraction(x, d) /\ b = Fraction(y, d)
  BY CommonForTwo
<1>2. Times(a, b) = Fraction(x * y, d * d)
  BY <1>1, MultiplyFractions
<1>3. d * d \in Positive /\ x * y \in Int /\ 0 \in Int
  BY PositiveProduct
<1>4. Zero = Fraction(0, d) /\ Zero = Fraction(0, d * d)
  BY <1>3, ZeroFraction
<1>5. /\ Less(a, Zero) <=> x < 0
      /\ Less(b, Zero) <=> y < 0
      /\ Less(Zero, a) <=> 0 < x
      /\ Less(Zero, b) <=> 0 < y
      /\ a = Zero <=> x = 0
      /\ b = Zero <=> y = 0
  BY <1>1, <1>3, <1>4, CompareFractions, EqualFractions
<1>6. /\ Less(Times(a, b), Zero) <=> x * y < 0
      /\ Less(Zero, Times(a, b)) <=> 0 < x * y
      /\ Times(a, b) = Zero <=> x * y = 0
  BY <1>2, <1>3, <1>4, CompareFractions, EqualFractions
<1>7. ~(x < 0) /\ ~(y < 0) => ~(x * y < 0)
  OBVIOUS
<1>8. 0 < x /\ 0 < y => 0 < x * y
  OBVIOUS
<1>9. x = 0 \/ y = 0 => x * y = 0
  OBVIOUS
<1> QED
  BY <1>2, <1>3, <1>5, <1>6, <1>7, <1>8, <1>9, FractionType

\* Quotients, and their sign.
LEMMA OverType ==
    ASSUME NEW a \in Rationals, NEW b \in Rationals, Less(Zero, b)
    PROVE  /\ Over(a, b) \in Rationals
           /\ ~ Less(a, Zero) => ~ Less(Over(a, b), Zero)
           /\ Less(Zero, a) => Less(Zero, Over(a, b))
           /\ a = Zero => Over(a, b) = Zero
<1>1. PICK d \in Positive, x \in Int, y \in Int : a = Fraction(x, d) /\ b = Fraction(y, d)
  BY CommonForTwo
<1>2. Zero = Fraction(0, d) /\ 0 \in Int
  BY ZeroFraction
<1>3. 0 < y
  BY <1>1, <1>2, CompareFractions
<1>4. y \in Positive /\ d \in Int /\ d > 0
  BY <1>3 DEF Positive
<1>5. Over(a, b) = Fraction(x * d, d * y)
  BY <1>1, <1>4, DivideFractions
<1>6. d * y \in Positive /\ x * d \in Int
  BY <1>4, PositiveProduct
<1>7. Zero = Fraction(0, d * y)
  BY <1>6, ZeroFraction
<1>8. /\ Less(a, Zero) <=> x < 0
      /\ Less(Zero, a) <=> 0 < x
      /\ a = Zero <=> x = 0
  BY <1>1, <1>2, CompareFractions, EqualFractions
<1>9. /\ Less(Over(a, b), Zero) <=> x * d < 0
      /\ Less(Zero, Over(a, b)) <=> 0 < x * d
      /\ Over(a, b) = Zero <=> x * d = 0
  BY <1>2, <1>5, <1>6, <1>7, CompareFractions, EqualFractions
<1>10. (x * d < 0 <=> x < 0) /\ (0 < x * d <=> 0 < x) /\ (x = 0 => x * d = 0)
  BY <1>4
<1> QED
  BY <1>5, <1>6, <1>8, <1>9, <1>10, FractionType

\* The order is a strict total order.
LEMMA LessIsOrder ==
    ASSUME NEW a \in Rationals, NEW b \in Rationals, NEW c \in Rationals
    PROVE  /\ ~ Less(a, a)
           /\ Less(a, b) => ~ Less(b, a)
           /\ Less(a, b) /\ Less(b, c) => Less(a, c)
           /\ a # b => Less(a, b) \/ Less(b, a)
<1>1. PICK d \in Positive, x \in Int, y \in Int, z \in Int :
          a = Fraction(x, d) /\ b = Fraction(y, d) /\ c = Fraction(z, d)
  BY CommonForThree
<1>2. /\ Less(a, a) <=> x < x
      /\ Less(a, b) <=> x < y
      /\ Less(b, a) <=> y < x
      /\ Less(b, c) <=> y < z
      /\ Less(a, c) <=> x < z
      /\ a = b <=> x = y
  BY <1>1, CompareFractions, EqualFractions
<1> QED
  BY <1>2

-----------------------------------------------------------------------------
(***************************************************************************)
(* Sums of fractions.  Over a common denominator they are sums of integers. *)
(***************************************************************************)

\* The recursion behind the sum, on the sets of D.
Totals(g, f, D) ==
    g = [s \in D |-> IF s = {} THEN Zero ELSE Plus(f[FirstOf(s)], g[s \ {FirstOf(s)}])]

\* The sum is the value of the recursion on the subsets of S.
LEMMA TotalUnfolds ==
    ASSUME NEW f, NEW S
    PROVE  Sum(f, S) = (CHOOSE g : Totals(g, f, SUBSET S))[S]
  BY DEF Sum, FoldFunctionOnSet, MapThenFoldSet, Totals, FirstOf

\* The recursion has a solution.
LEMMA TotalsExist ==
    ASSUME NEW f, NEW S, IsFiniteSet(S)
    PROVE  \E g : Totals(g, f, SUBSET S)
<1> DEFINE Upto(n) == {s \in SUBSET S : Cardinality(s) <= n}
           N == {n \in Nat : \E g : Totals(g, f, Upto(n))}
<1>1. \A s \in SUBSET S : IsFiniteSet(s) /\ Cardinality(s) \in Nat
  BY FS_Subset, FS_CardinalityType
<1>2. \A s \in SUBSET S : s # {} => /\ FirstOf(s) \in s /\ s \ {FirstOf(s)} \in SUBSET S
                                    /\ Cardinality(s \ {FirstOf(s)}) = Cardinality(s) - 1
  BY <1>1, FS_RemoveElement DEF FirstOf
<1>3. 0 \in N
  <2>1. \A s \in Upto(0) : s = {}
    BY <1>1, FS_EmptySet
  <2>2. Totals([s \in Upto(0) |-> Zero], f, Upto(0))
    BY <2>1 DEF Totals
  <2>3. QED
    BY <2>2
<1>4. ASSUME NEW n \in N PROVE n + 1 \in N
  <2>1. PICK g : Totals(g, f, Upto(n))
    OBVIOUS
  <2>2. PICK h : h = [s \in Upto(n + 1) |-> IF s = {} THEN Zero ELSE Plus(f[FirstOf(s)], g[s \ {FirstOf(s)}])]
    OBVIOUS
  <2>3. ASSUME NEW s \in Upto(n) PROVE s \in Upto(n + 1) /\ h[s] = g[s]
    <3>1. s \in Upto(n + 1)
      BY <1>1
    <3>2. QED
      BY <2>1, <2>2, <3>1 DEF Totals
  <2>4. ASSUME NEW s \in Upto(n + 1), s # {} PROVE s \ {FirstOf(s)} \in Upto(n)
    BY <1>1, <1>2, <2>4
  <2>5. ASSUME NEW s \in Upto(n + 1), s # {} PROVE h[s \ {FirstOf(s)}] = g[s \ {FirstOf(s)}]
    BY <2>3, <2>4, <2>5
  <2>6. Totals(h, f, Upto(n + 1))
    BY <2>2, <2>5 DEF Totals
  <2>7. n + 1 \in Nat
    OBVIOUS
  <2>8. QED
    BY <2>6, <2>7
<1>5. N = Nat
  <2>1. N \in SUBSET Nat
    OBVIOUS
  <2>2. QED
    BY <1>3, <1>4, <2>1, SetInduction
<1>6. Cardinality(S) \in N
  BY <1>1, <1>5
<1>7. Upto(Cardinality(S)) = SUBSET S
  BY FS_Subset, <1>1
<1>8. QED
  BY <1>6, <1>7

\* The recursions of two sets agree where both are defined.
LEMMA TotalsAgree ==
    ASSUME NEW f, NEW S, NEW T, IsFiniteSet(T), T \subseteq S,
           NEW g, NEW h, Totals(g, f, SUBSET S), Totals(h, f, SUBSET T)
    PROVE  g[T] = h[T]
<1> DEFINE N == {n \in Nat : \A s \in SUBSET T : Cardinality(s) = n => g[s] = h[s]}
<1>1. \A s \in SUBSET T : IsFiniteSet(s) /\ Cardinality(s) \in Nat
  BY FS_Subset, FS_CardinalityType
<1>2. 0 \in N
  BY <1>1, FS_EmptySet DEF Totals
<1>3. ASSUME NEW n \in N PROVE n + 1 \in N
  <2>1. SUFFICES ASSUME NEW s \in SUBSET T, Cardinality(s) = n + 1 PROVE g[s] = h[s]
    OBVIOUS
  <2>2. s # {} /\ FirstOf(s) \in s
    <3>1. n + 1 # 0 /\ Cardinality({}) = 0
      BY FS_EmptySet
    <3>2. s # {}
      BY <2>1, <3>1
    <3>3. QED
      BY <3>2 DEF FirstOf
  <2>3. s \ {FirstOf(s)} \in SUBSET T /\ Cardinality(s \ {FirstOf(s)}) = n
    BY <1>1, <2>1, <2>2, FS_RemoveElement
  <2>4. g[s \ {FirstOf(s)}] = h[s \ {FirstOf(s)}]
    BY <2>3
  <2>5. QED
    BY <2>2, <2>4 DEF Totals
<1>4. N = Nat
  <2>1. N \in SUBSET Nat
    OBVIOUS
  <2>2. QED
    BY <1>2, <1>3, <2>1, SetInduction
<1>5. QED
  BY <1>1, <1>4

-----------------------------------------------------------------------------
\* Nothing sums to zero, and a sum is what is taken first and the sum of the rest.
LEMMA TotalStep ==
    ASSUME NEW f, NEW S, IsFiniteSet(S)
    PROVE  Sum(f, S) =
               IF S = {} THEN Zero ELSE Plus(f[FirstOf(S)], Sum(f, S \ {FirstOf(S)}))
<1>1. PICK g : g = CHOOSE x : Totals(x, f, SUBSET S)
  OBVIOUS
<1>2. Totals(g, f, SUBSET S) /\ Sum(f, S) = g[S]
  BY <1>1, TotalsExist, TotalUnfolds
<1>3. CASE S = {}
  BY <1>2, <1>3 DEF Totals
<1>4. CASE S # {}
  <2>1. PICK T : T = S \ {FirstOf(S)}
    OBVIOUS
  <2>2. IsFiniteSet(T) /\ T \subseteq S
    BY <2>1, FS_Subset
  <2>3. PICK h : h = CHOOSE x : Totals(x, f, SUBSET T)
    OBVIOUS
  <2>4. Totals(h, f, SUBSET T) /\ Sum(f, T) = h[T]
    BY <2>2, <2>3, TotalsExist, TotalUnfolds
  <2>5. g[T] = h[T]
    BY <1>2, <2>2, <2>4, TotalsAgree, SMTT(20)
  <2>6. g[S] = Plus(f[FirstOf(S)], g[T])
    BY <1>2, <1>4, <2>1 DEF Totals
  <2>7. QED
    BY <1>2, <1>4, <2>1, <2>4, <2>5, <2>6
<1>5. QED
  BY <1>3, <1>4

\* The sum over a common denominator.
LEMMA SumOfNumerators ==
    ASSUME NEW S, IsFiniteSet(S), NEW f, NEW n, NEW d \in Positive,
           \A x \in S : n[x] \in Int /\ f[x] = Fraction(n[x], d)
    PROVE  Sum(f, S) = Fraction(SumFunctionOnSet(n, S), d) /\ SumFunctionOnSet(n, S) \in Int
<1> DEFINE Agrees(s) == Sum(f, s) = Fraction(SumFunctionOnSet(n, s), d)
           N == {k \in Nat : \A s \in SUBSET S : Cardinality(s) = k => Agrees(s)}
<1>1. \A s \in SUBSET S : /\ IsFiniteSet(s) /\ Cardinality(s) \in Nat
                           /\ SumFunctionOnSet(n, s) \in Int
  BY FS_Subset, FS_CardinalityType, SumType
<1>2. 0 \in N
  <2>1. ASSUME NEW s \in SUBSET S, Cardinality(s) = 0 PROVE Agrees(s)
    <3>1. s = {}
      BY <1>1, <2>1, FS_EmptySet
    <3>2. SumFunctionOnSet(n, s) = 0 /\ Sum(f, s) = Zero
      BY <1>1, <3>1, SumStep, TotalStep
    <3> QED
      BY <3>2, ZeroFraction
  <2> QED
    BY <2>1
<1>3. ASSUME NEW k \in N PROVE k + 1 \in N
  <2>1. k \in Nat /\ k + 1 \in Nat /\ k + 1 # 0
    OBVIOUS
  <2>2. ASSUME NEW s \in SUBSET S, Cardinality(s) = k + 1 PROVE Agrees(s)
    <3>1. s # {} /\ FirstOf(s) \in s
      BY <2>1, <2>2, FS_EmptySet DEF FirstOf
    <3>2. PICK c \in s, t \in SUBSET S : c = FirstOf(s) /\ t = s \ {c}
      BY <3>1
    <3>3. Cardinality(t) = Cardinality(s) - 1
      BY <1>1, <3>2, FS_RemoveElement
    <3>4. Agrees(t)
      BY <2>1, <2>2, <3>3
    <3>5. SumFunctionOnSet(n, s) = n[c] + SumFunctionOnSet(n, t)
      BY <1>1, <3>1, <3>2, SumStep
    <3>6. Sum(f, s) = Plus(f[c], Sum(f, t))
      BY <1>1, <3>1, <3>2, TotalStep
    <3>7. PICK x \in Int, y \in Int : x = n[c] /\ y = SumFunctionOnSet(n, t)
      BY <1>1
    <3>8. f[c] = Fraction(x, d) /\ Sum(f, t) = Fraction(y, d)
      BY <3>4, <3>7
    <3>9. Plus(Fraction(x, d), Fraction(y, d)) = Fraction(x + y, d)
      BY AddFractions
    <3> QED
      BY <3>5, <3>6, <3>7, <3>8, <3>9
  <2> QED
    BY <2>1, <2>2
<1>4. N = Nat
  <2>1. N \in SUBSET Nat
    OBVIOUS
  <2> HIDE DEF N
  <2> QED
    BY <1>2, <1>3, <2>1, SetInduction
<1>5. Agrees(S)
  BY <1>1, <1>4
<1> QED
  BY <1>1, <1>5

\* The values of f on S, over the denominator d.
Numerators(f, S, n, d) == \A i \in S : f[i] = Fraction(n[i], d)

\* The values of two functions have a common denominator.
LEMMA CommonForFunctions ==
    ASSUME NEW S, IsFiniteSet(S), NEW f, NEW g,
           \A i \in S : f[i] \in Rationals /\ g[i] \in Rationals
    PROVE  \E d \in Positive, n, m \in [S -> Int] :
               Numerators(f, S, n, d) /\ Numerators(g, S, m, d)
<1>1. PICK a \in Positive, n \in [S -> Int] : \A i \in S : f[i] = Fraction(n[i], a)
  BY CommonNumerators
<1>2. PICK b \in Positive, m \in [S -> Int] : \A i \in S : g[i] = Fraction(m[i], b)
  BY CommonNumerators
<1>3. a \in Int /\ b \in Int /\ a * b \in Positive /\ b * a = a * b
  BY PositiveProduct DEF Positive
<1>4. PICK k, l : k = [i \in S |-> n[i] * b] /\ l = [i \in S |-> m[i] * a]
  OBVIOUS
<1>5. ASSUME NEW i \in S PROVE f[i] = Fraction(k[i], a * b) /\ g[i] = Fraction(l[i], a * b)
  <2>1. PICK x \in Int, y \in Int : x = n[i] /\ y = m[i]
    OBVIOUS
  <2>2. Fraction(x, a) = Fraction(x * b, a * b) /\ Fraction(y, b) = Fraction(y * a, b * a)
    BY Rescaled
  <2>3. k[i] = x * b /\ l[i] = y * a
    BY <1>4, <2>1
  <2> QED
    BY <1>1, <1>2, <1>3, <2>1, <2>2, <2>3
<1>6. k \in [S -> Int] /\ l \in [S -> Int]
  <2>1. \A i \in S : k[i] \in Int /\ l[i] \in Int
    BY <1>3, <1>4
  <2> QED
    BY <1>4, <2>1
<1>7. Numerators(f, S, k, a * b) /\ Numerators(g, S, l, a * b)
  BY <1>5 DEF Numerators
<1> QED
  BY <1>3, <1>6, <1>7

\* A sum of rationals is one.
LEMMA SumRational ==
    ASSUME NEW S, IsFiniteSet(S), NEW f, \A x \in S : f[x] \in Rationals
    PROVE  Sum(f, S) \in Rationals
<1>1. PICK d \in Positive, n \in [S -> Int] : \A i \in S : f[i] = Fraction(n[i], d)
  BY CommonNumerators
<1>2. \A i \in S : n[i] \in Int /\ f[i] = Fraction(n[i], d)
  BY <1>1
<1>3. Sum(f, S) = Fraction(SumFunctionOnSet(n, S), d) /\ SumFunctionOnSet(n, S) \in Int
  BY <1>2, SumOfNumerators
<1> QED
  BY <1>3, FractionType

\* Functions that agree on a set have the same sum over it.
LEMMA SumSame ==
    ASSUME NEW S, IsFiniteSet(S), NEW f, NEW g, \A x \in S : f[x] \in Rationals /\ f[x] = g[x]
    PROVE  Sum(f, S) = Sum(g, S)
<1>1. PICK d \in Positive, n \in [S -> Int] : \A i \in S : f[i] = Fraction(n[i], d)
  BY CommonNumerators
<1>2. \A i \in S : n[i] \in Int /\ f[i] = Fraction(n[i], d) /\ g[i] = Fraction(n[i], d)
  BY <1>1
<1>3. Sum(f, S) = Fraction(SumFunctionOnSet(n, S), d)
  BY <1>2, SumOfNumerators
<1>4. Sum(g, S) = Fraction(SumFunctionOnSet(n, S), d)
  BY <1>2, SumOfNumerators
<1> QED
  BY <1>3, <1>4

\* The sum of a sum.
LEMMA SumPlus ==
    ASSUME NEW S, IsFiniteSet(S), NEW f, NEW g, NEW h,
           \A x \in S : f[x] \in Rationals /\ g[x] \in Rationals /\ h[x] = Plus(f[x], g[x])
    PROVE  Sum(h, S) = Plus(Sum(f, S), Sum(g, S))
<1>0. \A i \in S : f[i] \in Rationals /\ g[i] \in Rationals
  OBVIOUS
<1>1. PICK d \in Positive, n \in [S -> Int], m \in [S -> Int] :
          Numerators(f, S, n, d) /\ Numerators(g, S, m, d)
  BY <1>0, CommonForFunctions
<1>2. PICK k : k = [i \in S |-> 1 * n[i] + m[i]]
  OBVIOUS
<1>3. \A i \in S : n[i] \in Int /\ f[i] = Fraction(n[i], d)
  BY <1>1 DEF Numerators
<1>4. \A i \in S : m[i] \in Int /\ g[i] = Fraction(m[i], d)
  BY <1>1 DEF Numerators
<1>5. ASSUME NEW i \in S PROVE k[i] \in Int /\ h[i] = Fraction(k[i], d)
  <2>1. PICK x \in Int, y \in Int : x = n[i] /\ y = m[i]
    OBVIOUS
  <2>2. Plus(Fraction(x, d), Fraction(y, d)) = Fraction(x + y, d)
    BY AddFractions
  <2>3. k[i] = x + y
    BY <1>2, <2>1
  <2>4. h[i] = Plus(f[i], g[i])
    OBVIOUS
  <2> QED
    BY <1>3, <1>4, <2>1, <2>2, <2>3, <2>4
<1>6. Sum(f, S) = Fraction(SumFunctionOnSet(n, S), d) /\ SumFunctionOnSet(n, S) \in Int
  BY <1>3, SumOfNumerators
<1>7. Sum(g, S) = Fraction(SumFunctionOnSet(m, S), d) /\ SumFunctionOnSet(m, S) \in Int
  BY <1>4, SumOfNumerators
<1>8. Sum(h, S) = Fraction(SumFunctionOnSet(k, S), d)
  BY <1>5, SumOfNumerators
<1>9. SumFunctionOnSet(k, S) = 1 * SumFunctionOnSet(n, S) + SumFunctionOnSet(m, S)
  <2>1. 1 \in Int /\ \A i \in S : n[i] \in Int /\ m[i] \in Int /\ k[i] = 1 * n[i] + m[i]
    BY <1>2
  <2> QED
    BY <2>1, SumCombines
<1>10. PICK x \in Int, y \in Int : x = SumFunctionOnSet(n, S) /\ y = SumFunctionOnSet(m, S)
  BY <1>6, <1>7
<1>11. SumFunctionOnSet(k, S) = x + y
  BY <1>9, <1>10
<1> QED
  BY <1>6, <1>7, <1>8, <1>10, <1>11, AddFractions

\* A factor of all summands is one of the sum.
LEMMA SumTimes ==
    ASSUME NEW S, IsFiniteSet(S), NEW f, NEW h, NEW c \in Rationals,
           \A x \in S : f[x] \in Rationals /\ h[x] = Times(c, f[x])
    PROVE  Sum(h, S) = Times(c, Sum(f, S))
<1>1. PICK d \in Positive, n \in [S -> Int] : \A i \in S : f[i] = Fraction(n[i], d)
  BY CommonNumerators
<1>2. PICK z \in Int, e \in Positive : c = Fraction(z, e)
  BY RationalParts
<1>3. e * d \in Positive
  BY PositiveProduct
<1>4. PICK k, o : k = [i \in S |-> z * n[i] + 0] /\ o = [i \in S |-> 0]
  OBVIOUS
<1>5. \A i \in S : n[i] \in Int /\ f[i] = Fraction(n[i], d)
  BY <1>1
<1>6. ASSUME NEW i \in S PROVE k[i] \in Int /\ h[i] = Fraction(k[i], e * d)
  <2>1. PICK x \in Int : x = n[i]
    OBVIOUS
  <2>2. Times(Fraction(z, e), Fraction(x, d)) = Fraction(z * x, e * d)
    BY MultiplyFractions
  <2>3. k[i] = z * x
    BY <1>4, <2>1
  <2>4. h[i] = Times(c, f[i])
    OBVIOUS
  <2> QED
    BY <1>2, <1>5, <2>1, <2>2, <2>3, <2>4
<1>7. Sum(f, S) = Fraction(SumFunctionOnSet(n, S), d) /\ SumFunctionOnSet(n, S) \in Int
  BY <1>5, SumOfNumerators
<1>8. Sum(h, S) = Fraction(SumFunctionOnSet(k, S), e * d)
  BY <1>3, <1>6, SumOfNumerators
<1>9. SumFunctionOnSet(k, S) = z * SumFunctionOnSet(n, S) + SumFunctionOnSet(o, S)
  <2>1. \A i \in S : n[i] \in Int /\ o[i] \in Int /\ k[i] = z * n[i] + o[i]
    BY <1>4
  <2> QED
    BY <2>1, SumCombines
<1>10. SumFunctionOnSet(o, S) = 0
  BY <1>4, SumOfZeros
<1>11. PICK x \in Int : x = SumFunctionOnSet(n, S)
  BY <1>7
<1>12. SumFunctionOnSet(k, S) = z * x
  BY <1>9, <1>10, <1>11
<1> QED
  BY <1>2, <1>7, <1>8, <1>11, <1>12, MultiplyFractions

\* Any element may be taken first.
LEMMA SumTakesRational ==
    ASSUME NEW S, IsFiniteSet(S), NEW f, \A y \in S : f[y] \in Rationals, NEW x \in S
    PROVE  Sum(f, S) = Plus(f[x], Sum(f, S \ {x}))
<1>1. PICK d \in Positive, n \in [S -> Int] : \A i \in S : f[i] = Fraction(n[i], d)
  BY CommonNumerators
<1>2. \A i \in S : n[i] \in Int /\ f[i] = Fraction(n[i], d)
  BY <1>1
<1>3. PICK T : T = S \ {x}
  OBVIOUS
<1>4. IsFiniteSet(T) /\ \A i \in T : n[i] \in Int /\ f[i] = Fraction(n[i], d)
  BY <1>2, <1>3, FS_Subset
<1>5. Sum(f, S) = Fraction(SumFunctionOnSet(n, S), d)
  BY <1>2, SumOfNumerators
<1>6. Sum(f, T) = Fraction(SumFunctionOnSet(n, T), d) /\ SumFunctionOnSet(n, T) \in Int
  BY <1>4, SumOfNumerators
<1>7. SumFunctionOnSet(n, S) = n[x] + SumFunctionOnSet(n, T)
  BY <1>2, <1>3, SumTakes
<1>8. PICK a \in Int, b \in Int : a = n[x] /\ b = SumFunctionOnSet(n, T)
  BY <1>6
<1>9. Plus(Fraction(a, d), Fraction(b, d)) = Fraction(a + b, d)
  BY AddFractions
<1>10. f[x] = Fraction(a, d)
  BY <1>2, <1>8
<1> QED
  BY <1>3, <1>5, <1>6, <1>7, <1>8, <1>9, <1>10

\* A sum of nothing but zeros.
LEMMA SumZero ==
    ASSUME NEW S, IsFiniteSet(S), NEW f, \A x \in S : f[x] = Zero
    PROVE  Sum(f, S) = Zero
<1>1. PICK n : n = [x \in S |-> 0]
  OBVIOUS
<1>2. 1 \in Positive
  BY DEF Positive
<1>3. \A x \in S : n[x] \in Int /\ f[x] = Fraction(n[x], 1)
  BY <1>1, <1>2, ZeroFraction
<1>4. Sum(f, S) = Fraction(SumFunctionOnSet(n, S), 1)
  BY <1>2, <1>3, SumOfNumerators
<1>5. SumFunctionOnSet(n, S) = 0
  BY <1>1, SumOfZeros
<1> QED
  BY <1>2, <1>4, <1>5, ZeroFraction

\* Summands that are not negative: no sum is, none of them is greater than
\* the sum, and a sum of zero has no other summands.
LEMMA SumSigns ==
    ASSUME NEW S, IsFiniteSet(S), NEW f, \A x \in S : f[x] \in Rationals /\ ~ Less(f[x], Zero)
    PROVE  /\ ~ Less(Sum(f, S), Zero)
           /\ \A x \in S : ~ Less(Sum(f, S), f[x])
           /\ Sum(f, S) = Zero => \A x \in S : f[x] = Zero
<1>1. PICK d \in Positive, n \in [S -> Int] : \A i \in S : f[i] = Fraction(n[i], d)
  BY CommonNumerators
<1>2. \A i \in S : n[i] \in Int /\ f[i] = Fraction(n[i], d)
  BY <1>1
<1>3. Sum(f, S) = Fraction(SumFunctionOnSet(n, S), d) /\ SumFunctionOnSet(n, S) \in Int
  BY <1>2, SumOfNumerators
<1>4. PICK s \in Int : s = SumFunctionOnSet(n, S) /\ Sum(f, S) = Fraction(s, d)
  BY <1>3
<1>5. Zero = Fraction(0, d) /\ 0 \in Int
  BY ZeroFraction
<1>6. \A i \in S : n[i] \in Nat
  <2>1. SUFFICES ASSUME NEW i \in S PROVE n[i] \in Nat
    OBVIOUS
  <2>2. n[i] \in Int /\ ~ Less(Fraction(n[i], d), Fraction(0, d))
    BY <1>2, <1>5
  <2>3. ~(n[i] < 0)
    BY <1>5, <2>2, CompareFractions
  <2> QED
    BY <2>2, <2>3
<1>7. s \in Nat /\ \A i \in S : s >= n[i]
  BY <1>4, <1>6, SumIsNat, SumCovers
<1>8. ~ Less(Sum(f, S), Zero)
  BY <1>4, <1>5, <1>7, CompareFractions
<1>9. ASSUME NEW x \in S PROVE ~ Less(Sum(f, S), f[x]) /\ (Sum(f, S) = Zero => f[x] = Zero)
  <2>1. PICK k \in Nat : k = n[x] /\ f[x] = Fraction(k, d) /\ k <= s
    BY <1>2, <1>6, <1>7
  <2>2. k \in Int
    OBVIOUS
  <2>3. ~ Less(Fraction(s, d), Fraction(k, d))
    BY <2>1, <2>2, CompareFractions
  <2>4. Fraction(s, d) = Fraction(0, d) => s = 0
    BY <1>5, EqualFractions
  <2>5. s = 0 => k = 0
    BY <1>7, <2>1
  <2> QED
    BY <1>4, <1>5, <2>1, <2>3, <2>4, <2>5
<1> QED
  BY <1>8, <1>9

-----------------------------------------------------------------------------
(***************************************************************************)
(* The laws of the operators.                                              *)
(***************************************************************************)

\* Addition and subtraction.
LEMMA PlusLaws ==
    ASSUME NEW a \in Rationals, NEW b \in Rationals, NEW c \in Rationals
    PROVE  /\ Plus(a, b) = Plus(b, a)
           /\ Plus(a, Plus(b, c)) = Plus(Plus(a, b), c)
           /\ Plus(a, Zero) = a /\ Plus(Zero, a) = a /\ Minus(a, Zero) = a
           /\ Minus(a, a) = Zero
           /\ Plus(Plus(a, b), Minus(c, b)) = Plus(a, c)
           /\ Plus(b, Minus(a, b)) = a
           /\ Minus(a, Plus(b, c)) = Minus(Minus(a, b), c)
<1>1. PICK d \in Positive, x \in Int, y \in Int, z \in Int :
          a = Fraction(x, d) /\ b = Fraction(y, d) /\ c = Fraction(z, d)
  BY CommonForThree
<1>2. Zero = Fraction(0, d) /\ 0 \in Int
  BY ZeroFraction
<1>3. /\ x + y \in Int /\ y + z \in Int /\ x - y \in Int /\ z - y \in Int /\ y + x \in Int
      /\ x + (y + z) = (x + y) + z /\ y + x = x + y /\ x + 0 = x /\ 0 + x = x /\ x - 0 = x
      /\ x - x = 0 /\ (x + y) + (z - y) = x + z /\ y + (x - y) = x /\ x - (y + z) = (x - y) - z
  OBVIOUS
<1>4. \A i, j \in Int : /\ Plus(Fraction(i, d), Fraction(j, d)) = Fraction(i + j, d)
                       /\ Minus(Fraction(i, d), Fraction(j, d)) = Fraction(i - j, d)
  BY AddFractions, SubtractFractions
<1>5. Plus(a, b) = Fraction(x + y, d) /\ Plus(b, a) = Fraction(x + y, d)
  BY <1>1, <1>3, <1>4
<1>6. Plus(b, c) = Fraction(y + z, d) /\ Minus(a, b) = Fraction(x - y, d) /\ Minus(c, b) = Fraction(z - y, d)
  BY <1>1, <1>4
<1>7. Plus(a, Plus(b, c)) = Fraction(x + (y + z), d) /\ Plus(Plus(a, b), c) = Fraction((x + y) + z, d)
  BY <1>1, <1>3, <1>4, <1>5, <1>6
<1>8. Plus(a, Zero) = Fraction(x + 0, d) /\ Plus(Zero, a) = Fraction(0 + x, d) /\ Minus(a, Zero) = Fraction(x - 0, d)
  BY <1>1, <1>2, <1>4
<1>9. Minus(a, a) = Fraction(x - x, d)
  BY <1>1, <1>4
<1>10. Plus(Plus(a, b), Minus(c, b)) = Fraction((x + y) + (z - y), d) /\ Plus(a, c) = Fraction(x + z, d)
  BY <1>1, <1>3, <1>4, <1>5, <1>6
<1>11. Plus(b, Minus(a, b)) = Fraction(y + (x - y), d)
  BY <1>1, <1>3, <1>4, <1>6
<1>12. Minus(a, Plus(b, c)) = Fraction(x - (y + z), d) /\ Minus(Minus(a, b), c) = Fraction((x - y) - z, d)
  BY <1>1, <1>3, <1>4, <1>6
<1> QED
  BY <1>1, <1>2, <1>3, <1>5, <1>7, <1>8, <1>9, <1>10, <1>11, <1>12

\* Addition, subtraction and the order.
LEMMA OrderLaws ==
    ASSUME NEW a \in Rationals, NEW b \in Rationals, NEW c \in Rationals
    PROVE  /\ Less(Zero, Minus(a, b)) <=> Less(b, a)
           /\ Less(Minus(a, b), Zero) <=> Less(a, b)
           /\ Minus(a, b) = Zero <=> a = b
           /\ ~ Less(b, Zero) => ~ Less(Plus(a, b), a) /\ ~ Less(a, Minus(a, b))
           /\ ~ Less(a, Zero) /\ ~ Less(b, Zero) => ~ Less(Plus(a, b), Zero)
           /\ Less(Zero, a) /\ ~ Less(b, Zero) => Less(Zero, Plus(a, b)) /\ Less(Zero, Plus(b, a))
           /\ ~ Less(a, Zero) /\ a # Zero => Less(Zero, a)
<1>1. PICK d \in Positive, x \in Int, y \in Int, z \in Int :
          a = Fraction(x, d) /\ b = Fraction(y, d) /\ c = Fraction(z, d)
  BY CommonForThree
<1>2. Zero = Fraction(0, d) /\ 0 \in Int
  BY ZeroFraction
<1>3. Plus(a, b) = Fraction(x + y, d) /\ Plus(b, a) = Fraction(y + x, d) /\ Minus(a, b) = Fraction(x - y, d)
  BY <1>1, AddFractions, SubtractFractions
<1>4. PICK s \in Int, t \in Int : s = x + y /\ s = y + x /\ t = x - y
  OBVIOUS
<1>5. (Less(a, b) <=> x < y) /\ (Less(b, a) <=> y < x) /\ (a = b <=> x = y)
  BY <1>1, CompareFractions, EqualFractions
<1>6. (Less(a, Zero) <=> x < 0) /\ (Less(Zero, a) <=> 0 < x) /\ (a = Zero <=> x = 0)
  BY <1>1, <1>2, CompareFractions, EqualFractions
<1>7. Less(b, Zero) <=> y < 0
  BY <1>1, <1>2, CompareFractions
<1>8. Minus(a, b) = Fraction(t, d) /\ Plus(a, b) = Fraction(s, d) /\ Plus(b, a) = Fraction(s, d)
  BY <1>3, <1>4
<1>9. /\ Less(Zero, Minus(a, b)) <=> 0 < t
      /\ Less(Minus(a, b), Zero) <=> t < 0
      /\ Minus(a, b) = Zero <=> t = 0
      /\ Less(a, Minus(a, b)) <=> x < t
  BY <1>1, <1>2, <1>8, CompareFractions, EqualFractions
<1>10. /\ Less(Plus(a, b), a) <=> s < x
       /\ Less(Plus(a, b), Zero) <=> s < 0
       /\ Less(Zero, Plus(a, b)) <=> 0 < s
       /\ Less(Zero, Plus(b, a)) <=> 0 < s
  BY <1>1, <1>2, <1>8, CompareFractions
<1> QED
  BY <1>4, <1>5, <1>6, <1>7, <1>9, <1>10

\* Multiplication and division.
LEMMA TimesLaws ==
    ASSUME NEW a \in Rationals, NEW b \in Rationals, NEW c \in Rationals
    PROVE  /\ Times(a, b) = Times(b, a)
           /\ Times(a, Times(b, c)) = Times(Times(a, b), c)
           /\ Times(a, One) = a
           /\ Times(a, Plus(b, c)) = Plus(Times(a, b), Times(a, c))
<1>1. PICK d \in Positive, x \in Int, y \in Int, z \in Int :
          a = Fraction(x, d) /\ b = Fraction(y, d) /\ c = Fraction(z, d)
  BY CommonForThree
<1>2. PICK e \in Positive : e = d * d /\ d * e \in Positive /\ e * d = d * e /\ d \in Int
  BY PositiveProduct DEF Positive
<1>3. PICK p \in Int, q \in Int, r \in Int, s \in Int :
          p = x * y /\ q = y * z /\ r = x * z /\ s = y + z
  OBVIOUS
<1>4. Times(a, b) = Fraction(p, e) /\ Times(b, a) = Fraction(p, e)
  <2>1. y * x = p
    BY <1>3
  <2> QED
    BY <1>1, <1>2, <1>3, <2>1, MultiplyFractions
<1>5. Times(b, c) = Fraction(q, e) /\ Times(a, c) = Fraction(r, e)
  BY <1>1, <1>2, <1>3, MultiplyFractions
<1>6. Times(a, Times(b, c)) = Fraction(x * q, d * e)
  BY <1>1, <1>5, MultiplyFractions
<1>7. Times(Times(a, b), c) = Fraction(p * z, e * d)
  BY <1>1, <1>4, MultiplyFractions
<1>8. x * q = p * z
  BY <1>3
<1>9. Times(a, One) = a
  <2>1. 1 \in Positive /\ 1 \in Int
    BY DEF Positive
  <2>a. One = Fraction(1, 1)
    BY <2>1, WholeFraction DEF One
  <2>2. Times(a, One) = Fraction(x * 1, d * 1)
    BY <1>1, <2>1, <2>a, MultiplyFractions
  <2>3. x * 1 = x /\ d * 1 = d
    BY <1>2
  <2> QED
    BY <1>1, <2>2, <2>3
<1>10. Times(a, Plus(b, c)) = Plus(Times(a, b), Times(a, c))
  <2>1. Plus(b, c) = Fraction(s, d)
    BY <1>1, <1>3, AddFractions
  <2>2. Times(a, Plus(b, c)) = Fraction(x * s, e)
    BY <1>1, <1>2, <2>1, MultiplyFractions
  <2>3. Plus(Times(a, b), Times(a, c)) = Fraction(p + r, e)
    BY <1>4, <1>5, AddFractions
  <2>4. x * s = p + r
    BY <1>3
  <2> QED
    BY <2>2, <2>3, <2>4
<1> QED
  BY <1>2, <1>4, <1>6, <1>7, <1>8, <1>9, <1>10

\* Division is multiplication by the inverse.
LEMMA OverLaws ==
    ASSUME NEW a \in Rationals, NEW b \in Rationals, Less(Zero, b)
    PROVE  /\ Over(a, b) = Times(Over(One, b), a)
           /\ Times(Over(One, b), b) = One
           /\ Over(b, b) = One
           /\ Over(Times(a, b), b) = a
<1>1. PICK d \in Positive, x \in Int, y \in Int : a = Fraction(x, d) /\ b = Fraction(y, d)
  BY CommonForTwo
<1>2. Zero = Fraction(0, d) /\ 0 \in Int
  BY ZeroFraction
<1>3. 0 < y
  BY <1>1, <1>2, CompareFractions
<1>4. y \in Positive /\ d \in Int /\ d > 0 /\ 1 \in Positive /\ 1 \in Int
  BY <1>3 DEF Positive
<1>5. One = Fraction(1, 1)
  BY <1>4, WholeFraction DEF One
<1>6. /\ 1 * y \in Positive /\ 1 * y = y /\ 1 * d = d /\ d * d \in Positive /\ d * y \in Positive
      /\ y * d = d * y /\ x * d \in Int /\ y * d \in Int /\ d * x = x * d
  BY <1>4, PositiveProduct
<1>7. Over(One, b) = Fraction(d, y)
  <2>1. Over(Fraction(1, 1), Fraction(y, d)) = Fraction(1 * d, 1 * y)
    BY <1>4, DivideFractions
  <2> QED
    BY <1>1, <1>5, <1>6, <2>1
<1>8. Over(a, b) = Fraction(x * d, d * y)
  BY <1>1, <1>4, DivideFractions
<1>9. Times(Over(One, b), a) = Fraction(d * x, y * d)
  BY <1>1, <1>4, <1>7, MultiplyFractions
<1>10. Times(Over(One, b), b) = Fraction(d * y, y * d)
  BY <1>1, <1>4, <1>7, MultiplyFractions
<1>11. Fraction(d * y, d * y) = One
  <2>1. PICK k \in Positive : k = d * y /\ k \in Int
    BY <1>6 DEF Positive
  <2>2. k * 1 = 1 * k
    BY <2>1
  <2>3. Fraction(k, k) = Fraction(1, 1)
    BY <1>4, <2>1, <2>2, SameFraction
  <2> QED
    BY <1>5, <2>1, <2>3
<1>12. Over(a, b) = Times(Over(One, b), a)
  BY <1>6, <1>8, <1>9
<1>13. Times(Over(One, b), b) = One
  BY <1>6, <1>10, <1>11
<1>14. Over(b, b) = One
  <2>1. Over(b, b) = Fraction(y * d, d * y)
    BY <1>1, <1>4, DivideFractions
  <2> QED
    BY <1>6, <1>11, <2>1
<1>15. Over(Times(a, b), b) = a
  <2>1. x * y \in Int
    BY <1>4
  <2>2. Times(a, b) = Fraction(x * y, d * d)
    BY <1>1, MultiplyFractions
  <2>3. Over(Times(a, b), b) = Fraction((x * y) * d, (d * d) * y)
    BY <1>1, <1>4, <1>6, <2>1, <2>2, DivideFractions
  <2>4. ((x * y) * d) * d = x * ((d * d) * y)
    BY <1>4
  <2>5. (x * y) * d \in Int /\ (d * d) * y \in Positive
    BY <1>4, <1>6, <2>1, PositiveProduct
  <2>6. Fraction((x * y) * d, (d * d) * y) = Fraction(x, d)
    BY <2>4, <2>5, SameFraction
  <2> QED
    BY <1>1, <2>3, <2>6
<1> QED
  BY <1>12, <1>13, <1>14, <1>15

\* The smaller and the larger of two numbers.
LEMMA ExtremeLaws ==
    ASSUME NEW a \in Rationals, NEW b \in Rationals
    PROVE  /\ Smaller(a, b) \in {a, b} /\ Larger(a, b) \in {a, b}
           /\ ~ Less(a, Smaller(a, b)) /\ ~ Less(b, Smaller(a, b))
           /\ ~ Less(Larger(a, b), a) /\ ~ Less(Larger(a, b), b)
  BY LessIsOrder DEF Smaller, Larger

\* A greater summand makes no smaller sum.
LEMMA SumMonotone ==
    ASSUME NEW S, IsFiniteSet(S), NEW f, NEW g,
           \A x \in S : f[x] \in Rationals /\ g[x] \in Rationals /\ ~ Less(g[x], f[x])
    PROVE  ~ Less(Sum(g, S), Sum(f, S))
<1>1. PICK h : h = [x \in S |-> Minus(g[x], f[x])]
  OBVIOUS
<1>2. ASSUME NEW x \in S PROVE h[x] \in Rationals /\ ~ Less(h[x], Zero) /\ g[x] = Plus(f[x], h[x])
  <2>1. PICK a \in Rationals, b \in Rationals : a = g[x] /\ b = f[x] /\ ~ Less(a, b) /\ h[x] = Minus(a, b)
    BY <1>1
  <2>2. Minus(a, b) \in Rationals /\ ~ Less(Minus(a, b), Zero) /\ Plus(b, Minus(a, b)) = a
    BY <2>1, PlusType, PlusLaws, OrderLaws
  <2> QED
    BY <2>1, <2>2
<1>3. Sum(g, S) = Plus(Sum(f, S), Sum(h, S))
  <2>1. \A x \in S : f[x] \in Rationals /\ h[x] \in Rationals /\ g[x] = Plus(f[x], h[x])
    BY <1>2
  <2> QED
    BY <2>1, SumPlus
<1>4. ~ Less(Sum(h, S), Zero) /\ Sum(h, S) \in Rationals
  BY <1>2, SumSigns, SumRational
<1>5. PICK a \in Rationals, b \in Rationals : a = Sum(f, S) /\ b = Sum(h, S) /\ ~ Less(b, Zero)
  BY <1>4, SumRational
<1>6. ~ Less(Plus(a, b), a)
  BY <1>5, OrderLaws
<1> QED
  BY <1>3, <1>5, <1>6

\* A divisor of all summands is one of the sum.
LEMMA SumDivided ==
    ASSUME NEW S, IsFiniteSet(S), NEW f, NEW h, NEW c \in Rationals, Less(Zero, c),
           \A x \in S : f[x] \in Rationals /\ h[x] = Over(f[x], c)
    PROVE  Sum(h, S) = Over(Sum(f, S), c)
<1>1. PICK r \in Rationals : r = Over(One, c)
  BY OverType, ConstantTypes
<1>2. \A x \in S : f[x] \in Rationals /\ h[x] = Times(r, f[x])
  BY <1>1, OverLaws
<1>3. Sum(h, S) = Times(r, Sum(f, S))
  BY <1>2, SumTimes
<1>4. Sum(f, S) \in Rationals
  BY SumRational
<1> QED
  BY <1>1, <1>3, <1>4, OverLaws

=============================================================================
