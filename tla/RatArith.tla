------------------------------ MODULE RatArith ------------------------------
(***************************************************************************)
(* Exact rationals for the means of perfcompare.py.  The code computes     *)
(* float(sum(values)) / len(values) (Mean, lines 47-50); on the small      *)
(* integer samples of the models that quotient is a rational, kept here as *)
(* an unnormalised pair <<numerator, denominator>> with denominator > 0,   *)
(* so that equal means compare equal whatever the order of the sums.      *)
(***************************************************************************)
EXTENDS Integers, Sequences

Rat == Int \X (Nat \ {0})

RatAdd(x, y) == <<x[1] * y[2] + y[1] * x[2], x[2] * y[2]>>

RatEq(x, y) == x[1] * y[2] = y[1] * x[2]

RatLt(x, y) == x[1] * y[2] < y[1] * x[2]

\* The sum of a sequence of rationals, as a recursive function over 0..Len(s).
RatSum(s) ==
    LET f[i \in 0..Len(s)] == IF i = 0 THEN <<0, 1>> ELSE RatAdd(f[i - 1], s[i])
    IN  f[Len(s)]

\* Mean (lines 47-50) of a non-empty sequence of rationals.
RatMean(s) == <<RatSum(s)[1], RatSum(s)[2] * Len(s)>>

\* An integer as a rational.
IntRat(n) == <<n, 1>>

\* Mean of a non-empty sequence of integers.
IntMean(s) == RatMean([i \in DOMAIN s |-> IntRat(s[i])])

\* All elements of a sequence of rationals are equal (stddev = 0).
AllEqual(s) == \A i, j \in DOMAIN s : RatEq(s[i], s[j])
=============================================================================
