----------------------------- MODULE Rationals -----------------------------
(***************************************************************************)
(* Rational numbers in lowest terms, with a positive denominator: what the *)
(* doubles of the statistics stand for, without their rounding.            *)
(***************************************************************************)
EXTENDS Integers, FiniteSetsExt

\* The least denominator for which the numerator is a whole number.
Lowest(num, den) ==
  LET least == Min({k \in 1 .. den : (num * k) % den = 0})
  IN  [num |-> (num * least) \div den, den |-> least]

Rational(n) == [num |-> n, den |-> 1]
Nought == Rational(0)

Plus(a, b) == Lowest(a.num * b.den + b.num * a.den, a.den * b.den)
Minus(a, b) == Plus(a, [b EXCEPT !.num = -@])
Times(a, b) == Lowest(a.num * b.num, a.den * b.den)
Over(a, n) == Lowest(a.num, a.den * n)
=============================================================================
