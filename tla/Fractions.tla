------------------------------- MODULE Fractions -------------------------------
(***************************************************************************)
(* Exact fractions, in the place of Go's float64: <<n, d>> is n / d with    *)
(* d > 0, in lowest terms, so that equal numbers are equal values.  What   *)
(* the code compares with a tolerance of 1e-9 is compared exactly here.    *)
(* Factors are cancelled before numbers are multiplied, because the        *)
(* integers of TLC have 32 bits.                                           *)
(***************************************************************************)

EXTENDS Integers, Functions

CommonDivisor[p \in Int \X Nat] ==
    IF p[2] # 0 THEN CommonDivisor[<<p[2], p[1] % p[2]>>]
    ELSE IF p[1] < 0 THEN -p[1]
    ELSE p[1]

Lowered(n, d, g) == <<n \div g, d \div g>>
Fraction(n, d) == Lowered(n, d, CommonDivisor[<<n, d>>])

Rationals == {q \in Int \X (Nat \ {0}) : q = Fraction(q[1], q[2])}

Zero == <<0, 1>>
One == <<1, 1>>

SumOver(a, b, g) == Fraction(a[1] * (b[2] \div g) + b[1] * (a[2] \div g), (a[2] \div g) * b[2])
Plus(a, b) == SumOver(a, b, CommonDivisor[<<a[2], b[2]>>])
Minus(a, b) == Plus(a, <<-b[1], b[2]>>)

Product(a, b) == <<a[1] * b[1], a[2] * b[2]>>
Times(a, b) == Product(Fraction(a[1], b[2]), Fraction(b[1], a[2]))

\* b > 0.
Over(a, b) == Times(a, <<b[2], b[1]>>)

Less(a, b) == Minus(a, b)[1] < 0
Smaller(a, b) == IF Less(b, a) THEN b ELSE a
Larger(a, b) == IF Less(a, b) THEN b ELSE a

\* The sum of the values of f on S, and the largest of them.
Sum(f, S) == FoldFunctionOnSet(Plus, Zero, f, S)
Peak(f, S) == CHOOSE a \in {f[x] : x \in S} : \A x \in S : ~ Less(a, f[x])

=============================================================================
