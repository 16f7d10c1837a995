-------------------------- MODULE MonteCarloProofs --------------------------
(***************************************************************************)
(* The statistics kept by Welford's recurrence are exact, and a pricer     *)
(* returns the discounted mean of what its draws are worth, for any draws, *)
(* numbers of paths and steps, and parameters of the model.                *)
(*                                                                         *)
(* Two quotients are the same number exactly if their cross products are   *)
(* equal, so equations between rationals become polynomial identities over *)
(* a common denominator.  The library has no sums of rationals, and its    *)
(* induction cannot be used, so a sum is split here, and a recursive       *)
(* definition met, by the least natural number for which it fails.         *)
(***************************************************************************)
EXTENDS MonteCarlo, FiniteSetTheorems, SequenceTheorems, TLAPS
-----------------------------------------------------------------------------
(* Integers.                                                               *)

Denominators == Nat \ {0}

\* A factor other than 0 may be left out of an equation.
LEMMA Cancel ==
  ASSUME NEW a \in Int, NEW b \in Int, NEW c \in Int, c # 0, a * c = b * c
  PROVE  a = b
  BY SMT

\* Without remainder, a quotient is exact.
LEMMA Divides ==
  ASSUME NEW a \in Int, NEW d \in Denominators, a % d = 0
  PROVE  a \div d \in Int /\ a = (a \div d) * d
  BY SMT DEF Denominators

\* A multiple has no remainder.
LEMMA Multiple ==
  ASSUME NEW a \in Int, NEW d \in Denominators
  PROVE  (a * d) % d = 0
  BY SMT DEF Denominators

\* The product of denominators is one.
LEMMA ProductPositive ==
  ASSUME NEW p \in Denominators, NEW q \in Denominators
  PROVE  p * q \in Denominators
  BY SMT DEF Denominators

\* A nonempty set of natural numbers has a least member.
LEMMA LeastNatural ==
  ASSUME NEW T, T \subseteq Nat, T # {}
  PROVE  \E m \in T : \A k \in T : m <= k
<1> DEFINE R == {ss \in Nat \X Nat : ss[1] < ss[2]}
<1>1. IsWellFoundedOn(R, Nat)
  BY NatLessThanWellFounded, Zenon DEF OpToRel
<1> HIDE DEF R
<1>2. PICK x \in T : \A y \in T : ~(<<y, x>> \in R)
  BY <1>1, WFMin
<1>3. ASSUME NEW k \in T PROVE x <= k
  <2>1. x \in Nat /\ k \in Nat /\ ~(<<k, x>> \in R)
    BY <1>2
  <2>2. ~(k < x)
    BY <2>1 DEF R
  <2> QED BY <2>1, <2>2
<1> QED BY <1>3

-----------------------------------------------------------------------------
(* Rationals: two quotients are the same number exactly if their cross     *)
(* products are equal.                                                     *)

\* What Lowest returns: the same quotient, with the least denominator.
LEMMA LowestIs ==
  ASSUME NEW a \in Int, NEW p \in Denominators
  PROVE  \E r : /\ r = Lowest(a, p)
                /\ r.num \in Int /\ r.den \in 1 .. p /\ r.den \in Denominators
                /\ r = [num |-> r.num, den |-> r.den]
                /\ r.num * p = a * r.den
                /\ \A k \in 1 .. p : (a * k) % p = 0 => r.den <= k
<1> DEFINE K == {k \in 1 .. p : (a * k) % p = 0}
<1>1. p \in K
  BY Multiple DEF Denominators
<1>2. PICK m \in K : \A k \in K : m <= k
  <2>1. K \subseteq Nat /\ K # {}
    BY <1>1 DEF Denominators
  <2> HIDE DEF K
  <2> QED BY <2>1, LeastNatural
<1>3. Min(K) \in K /\ \A k \in K : Min(K) <= k
  BY <1>2 DEF Min
<1> DEFINE d == Min(K)
           r == Lowest(a, p)
<1>4. r = [num |-> (a * d) \div p, den |-> d]
  BY DEF Lowest
<1>5. d \in 1 .. p /\ (a * d) % p = 0
  BY <1>3
<1>6. d \in Int /\ d \in Denominators
  BY <1>5 DEF Denominators
<1>7. \A k \in 1 .. p : (a * k) % p = 0 => d <= k
  BY <1>3
<1> HIDE DEF d, r, K
<1>8. a * d \in Int
  BY <1>6
<1>9. (a * d) \div p \in Int /\ a * d = ((a * d) \div p) * p
  BY <1>5, <1>8, Divides
<1>10. r.num = (a * d) \div p /\ r.den = d
  BY <1>4
<1>11. r.num * p = a * r.den
  BY <1>9, <1>10
<1> QED BY <1>4, <1>5, <1>6, <1>7, <1>9, <1>10, <1>11 DEF r

\* Equal cross products give the same denominator, or a lower one.
LEMMA LowestAtMost ==
  ASSUME NEW a \in Int, NEW p \in Denominators,
         NEW b \in Int, NEW q \in Denominators, a * q = b * p
  PROVE  Lowest(b, q).den <= Lowest(a, p).den
<1>1. PICK r : /\ r = Lowest(a, p)
               /\ r.num \in Int /\ r.den \in 1 .. p /\ r.den \in Denominators
               /\ r.num * p = a * r.den
  BY LowestIs
<1>2. PICK s : /\ s = Lowest(b, q)
               /\ s.den \in 1 .. q
               /\ \A k \in 1 .. q : (b * k) % q = 0 => s.den <= k
  BY LowestIs
<1>3. PICK k \in Denominators : k = r.den
  BY <1>1
<1>4. PICK m \in Int : m = r.num
  BY <1>1
<1>5. m * p = a * k
  BY <1>1, <1>3, <1>4
<1>6. (b * k) = m * q
  <2>1. (b * k) * p = (b * p) * k
    BY DEF Denominators
  <2>2. (b * p) * k = (a * k) * q
    BY DEF Denominators
  <2>3. (m * p) * q = (m * q) * p
    BY DEF Denominators
  <2>4. (b * k) * p = (m * q) * p
    BY <1>5, <2>1, <2>2, <2>3
  <2>5. b * k \in Int /\ m * q \in Int /\ p \in Int /\ p # 0
    BY DEF Denominators
  <2> QED BY <2>4, <2>5, Cancel
<1>7. (b * k) % q = 0
  BY <1>6, Multiple
<1>8. CASE k <= q
  <2>1. k \in 1 .. q
    BY <1>8 DEF Denominators
  <2> QED BY <1>1, <1>2, <1>3, <1>7, <2>1
<1>9. CASE ~(k <= q)
  BY <1>1, <1>2, <1>3, <1>9 DEF Denominators
<1> QED BY <1>8, <1>9

\* Equal cross products give the same number.
LEMMA SameQuotient ==
  ASSUME NEW a \in Int, NEW p \in Denominators,
         NEW b \in Int, NEW q \in Denominators, a * q = b * p
  PROVE  Lowest(a, p) = Lowest(b, q)
<1>1. PICK r : /\ r = Lowest(a, p)
               /\ r.num \in Int /\ r.den \in Denominators
               /\ r = [num |-> r.num, den |-> r.den]
               /\ r.num * p = a * r.den
  BY LowestIs
<1>2. PICK s : /\ s = Lowest(b, q)
               /\ s.num \in Int /\ s.den \in Denominators
               /\ s = [num |-> s.num, den |-> s.den]
               /\ s.num * q = b * s.den
  BY LowestIs
<1>3. r.den = s.den
  <2>1. s.den <= r.den
    BY <1>1, <1>2, LowestAtMost
  <2>2. b * p = a * q
    OBVIOUS
  <2>3. r.den <= s.den
    BY <1>1, <1>2, <2>2, LowestAtMost
  <2> QED BY <1>1, <1>2, <2>1, <2>3 DEF Denominators
<1>4. PICK k \in Denominators : k = r.den
  BY <1>1
<1>5. PICK m \in Int : m = r.num
  BY <1>1
<1>6. PICK n \in Int : n = s.num
  BY <1>2
<1>7. m * p = a * k /\ n * q = b * k
  BY <1>1, <1>2, <1>3, <1>4, <1>5, <1>6
<1>8. m * (p * q) = n * (p * q)
  <2>1. m * (p * q) = (a * q) * k
    <3>1. m * (p * q) = (m * p) * q
      BY DEF Denominators
    <3>2. (a * k) * q = (a * q) * k
      BY DEF Denominators
    <3> QED BY <1>7, <3>1, <3>2
  <2>2. n * (p * q) = (b * p) * k
    <3>1. n * (p * q) = (n * q) * p
      BY DEF Denominators
    <3>2. (b * k) * p = (b * p) * k
      BY DEF Denominators
    <3> QED BY <1>7, <3>1, <3>2
  <2> QED BY <2>1, <2>2
<1>9. m = n
  <2>1. p * q \in Int /\ p * q # 0
    BY ProductPositive DEF Denominators
  <2> QED BY <1>8, <2>1, Cancel
<1> QED BY <1>1, <1>2, <1>3, <1>5, <1>6, <1>9

\* Numerator and denominator may be multiplied by the same number.
LEMMA Widened ==
  ASSUME NEW a \in Int, NEW p \in Denominators, NEW k \in Denominators
  PROVE  Lowest(a, p) = Lowest(a * k, p * k)
<1>1. a * k \in Int /\ p * k \in Denominators
  BY ProductPositive DEF Denominators
<1>2. a * (p * k) = (a * k) * p
  BY DEF Denominators
<1> QED BY <1>1, <1>2, SameQuotient

\* Over a common denominator numerators are added.
LEMMA PlusQuotients ==
  ASSUME NEW a \in Int, NEW b \in Int, NEW p \in Denominators
  PROVE  Plus(Lowest(a, p), Lowest(b, p)) = Lowest(a + b, p)
<1>1. PICK r : /\ r = Lowest(a, p)
               /\ r.num \in Int /\ r.den \in Denominators /\ r.num * p = a * r.den
  BY LowestIs
<1>2. PICK s : /\ s = Lowest(b, p)
               /\ s.num \in Int /\ s.den \in Denominators /\ s.num * p = b * s.den
  BY LowestIs
<1>3. PICK m \in Int, k \in Denominators : m = r.num /\ k = r.den
  BY <1>1
<1>4. PICK n \in Int, l \in Denominators : n = s.num /\ l = s.den
  BY <1>2
<1>5. Plus(r, s) = Lowest(m * l + n * k, k * l)
  BY <1>3, <1>4 DEF Plus
<1>6. m * p = a * k /\ n * p = b * l
  BY <1>1, <1>2, <1>3, <1>4
<1>7. (m * l + n * k) * p = (a + b) * (k * l)
  <2>1. (m * l + n * k) * p = (m * p) * l + (n * p) * k
    BY DEF Denominators
  <2>2. (a * k) * l + (b * l) * k = (a + b) * (k * l)
    BY DEF Denominators
  <2> QED BY <1>6, <2>1, <2>2
<1>8. m * l + n * k \in Int /\ a + b \in Int /\ k * l \in Denominators
  BY ProductPositive DEF Denominators
<1>9. Lowest(m * l + n * k, k * l) = Lowest(a + b, p)
  BY <1>7, <1>8, SameQuotient
<1> QED BY <1>1, <1>2, <1>5, <1>9

\* Over a common denominator numerators are subtracted.
LEMMA MinusQuotients ==
  ASSUME NEW a \in Int, NEW b \in Int, NEW p \in Denominators
  PROVE  Minus(Lowest(a, p), Lowest(b, p)) = Lowest(a - b, p)
<1>1. PICK r : /\ r = Lowest(a, p)
               /\ r.num \in Int /\ r.den \in Denominators /\ r.num * p = a * r.den
  BY LowestIs
<1>2. PICK s : /\ s = Lowest(b, p) /\ s = [num |-> s.num, den |-> s.den]
               /\ s.num \in Int /\ s.den \in Denominators /\ s.num * p = b * s.den
  BY LowestIs
<1>3. PICK m \in Int, k \in Denominators : m = r.num /\ k = r.den
  BY <1>1
<1>4. PICK n \in Int, l \in Denominators : n = s.num /\ l = s.den
  BY <1>2
<1>5. Minus(r, s) = Lowest(m * l + (-n) * k, k * l)
  <2>1. [s EXCEPT !.num = -@] = [num |-> -n, den |-> l]
    BY <1>2, <1>4
  <2> QED BY <1>3, <2>1 DEF Minus, Plus
<1>6. m * p = a * k /\ n * p = b * l
  BY <1>1, <1>2, <1>3, <1>4
<1>7. (m * l + (-n) * k) * p = (a - b) * (k * l)
  <2>1. (m * l + (-n) * k) * p = (m * p) * l - (n * p) * k
    BY DEF Denominators
  <2>2. (a * k) * l - (b * l) * k = (a - b) * (k * l)
    BY DEF Denominators
  <2> QED BY <1>6, <2>1, <2>2
<1>8. m * l + (-n) * k \in Int /\ a - b \in Int /\ k * l \in Denominators
  BY ProductPositive DEF Denominators
<1>9. Lowest(m * l + (-n) * k, k * l) = Lowest(a - b, p)
  BY <1>7, <1>8, SameQuotient
<1> QED BY <1>1, <1>2, <1>5, <1>9

\* Numerators and denominators are multiplied.
LEMMA TimesQuotients ==
  ASSUME NEW a \in Int, NEW p \in Denominators,
         NEW b \in Int, NEW q \in Denominators
  PROVE  Times(Lowest(a, p), Lowest(b, q)) = Lowest(a * b, p * q)
<1>1. PICK r : /\ r = Lowest(a, p)
               /\ r.num \in Int /\ r.den \in Denominators /\ r.num * p = a * r.den
  BY LowestIs
<1>2. PICK s : /\ s = Lowest(b, q)
               /\ s.num \in Int /\ s.den \in Denominators /\ s.num * q = b * s.den
  BY LowestIs
<1>3. PICK m \in Int, k \in Denominators : m = r.num /\ k = r.den
  BY <1>1
<1>4. PICK n \in Int, l \in Denominators : n = s.num /\ l = s.den
  BY <1>2
<1>5. Times(r, s) = Lowest(m * n, k * l)
  BY <1>3, <1>4 DEF Times
<1>6. m * p = a * k /\ n * q = b * l
  BY <1>1, <1>2, <1>3, <1>4
<1>7. (m * n) * (p * q) = (a * b) * (k * l)
  <2>1. (m * n) * (p * q) = (m * p) * (n * q)
    BY DEF Denominators
  <2>2. (a * k) * (b * l) = (a * b) * (k * l)
    BY DEF Denominators
  <2> QED BY <1>6, <2>1, <2>2
<1>8. /\ m * n \in Int /\ a * b \in Int
      /\ k * l \in Denominators /\ p * q \in Denominators
  BY ProductPositive DEF Denominators
<1>9. Lowest(m * n, k * l) = Lowest(a * b, p * q)
  BY <1>7, <1>8, SameQuotient
<1> QED BY <1>1, <1>2, <1>5, <1>9

\* To divide is to multiply the denominator.
LEMMA OverQuotient ==
  ASSUME NEW a \in Int, NEW p \in Denominators, NEW n \in Denominators
  PROVE  Over(Lowest(a, p), n) = Lowest(a, p * n)
<1>1. PICK r : /\ r = Lowest(a, p)
               /\ r.num \in Int /\ r.den \in Denominators /\ r.num * p = a * r.den
  BY LowestIs
<1>2. PICK m \in Int, k \in Denominators : m = r.num /\ k = r.den
  BY <1>1
<1>3. m * p = a * k
  BY <1>1, <1>2
<1>4. m * (p * n) = a * (k * n)
  <2>1. m * (p * n) = (m * p) * n /\ a * (k * n) = (a * k) * n
    BY DEF Denominators
  <2> QED BY <1>3, <2>1
<1>5. k * n \in Denominators /\ p * n \in Denominators
  BY ProductPositive
<1>6. Lowest(m, k * n) = Lowest(a, p * n)
  BY <1>4, <1>5, SameQuotient
<1> QED BY <1>1, <1>2, <1>6 DEF Over

\* A whole number has the denominator 1.
LEMMA WholeQuotient ==
  ASSUME NEW n \in Int
  PROVE  Rational(n) = Lowest(n, 1)
<1>1. 1 \in Denominators
  BY DEF Denominators
<1>2. PICK r : /\ r = Lowest(n, 1)
               /\ r.num \in Int /\ r.den \in 1 .. 1
               /\ r = [num |-> r.num, den |-> r.den]
               /\ r.num * 1 = n * r.den
  BY <1>1, LowestIs
<1>3. r.den = 1
  BY <1>2
<1>4. r.num = n
  BY <1>2, <1>3
<1> QED BY <1>2, <1>3, <1>4 DEF Rational

-----------------------------------------------------------------------------
(* The numbers of the statistics.                                          *)

Quotients == {Lowest(a, p) : a \in Int, p \in Denominators}

\* What Lowest returns is a number.
LEMMA QuotientIn ==
  ASSUME NEW a \in Int, NEW p \in Denominators
  PROVE  Lowest(a, p) \in Quotients
BY DEF Quotients

\* Two numbers have a common denominator.
LEMMA CommonDenominator ==
  ASSUME NEW r \in Quotients, NEW s \in Quotients
  PROVE  \E p \in Denominators : \E a, b \in Int :
           r = Lowest(a, p) /\ s = Lowest(b, p)
<1>1. PICK a \in Int, p \in Denominators : r = Lowest(a, p)
  BY DEF Quotients
<1>2. PICK b \in Int, q \in Denominators : s = Lowest(b, q)
  BY DEF Quotients
<1>3. r = Lowest(a * q, p * q)
  BY <1>1, Widened
<1>4. s = Lowest(b * p, q * p)
  BY <1>2, Widened
<1>5. q * p = p * q
  BY DEF Denominators
<1>6. p * q \in Denominators /\ a * q \in Int /\ b * p \in Int
  BY ProductPositive DEF Denominators
<1> QED BY <1>3, <1>4, <1>5, <1>6

\* And so have three.
LEMMA CommonDenominatorOf3 ==
  ASSUME NEW r \in Quotients, NEW s \in Quotients, NEW t \in Quotients
  PROVE  \E p \in Denominators : \E a, b, c \in Int :
           r = Lowest(a, p) /\ s = Lowest(b, p) /\ t = Lowest(c, p)
<1>1. PICK p \in Denominators, a \in Int, b \in Int :
         r = Lowest(a, p) /\ s = Lowest(b, p)
  BY CommonDenominator
<1>2. PICK c \in Int, q \in Denominators : t = Lowest(c, q)
  BY DEF Quotients
<1>3. r = Lowest(a * q, p * q) /\ s = Lowest(b * q, p * q)
  BY <1>1, Widened
<1>4. t = Lowest(c * p, q * p)
  BY <1>2, Widened
<1>5. q * p = p * q
  BY DEF Denominators
<1>6. p * q \in Denominators /\ a * q \in Int /\ b * q \in Int /\ c * p \in Int
  BY ProductPositive DEF Denominators
<1> QED BY <1>3, <1>4, <1>5, <1>6

\* A whole number is a number.
LEMMA WholeIn ==
  ASSUME NEW n \in Int
  PROVE  Rational(n) \in Quotients
<1>1. 1 \in Denominators
  BY DEF Denominators
<1> QED BY <1>1, WholeQuotient, QuotientIn

\* Nought is a number.
LEMMA NoughtIn == Nought \in Quotients
BY WholeIn DEF Nought

\* The operations stay within the numbers.
LEMMA OperationsIn ==
  ASSUME NEW r \in Quotients, NEW s \in Quotients
  PROVE  /\ Plus(r, s) \in Quotients /\ Minus(r, s) \in Quotients
         /\ Times(r, s) \in Quotients
<1>1. PICK p \in Denominators, a \in Int, b \in Int :
         r = Lowest(a, p) /\ s = Lowest(b, p)
  BY CommonDenominator
<1>2. a + b \in Int /\ a - b \in Int /\ a * b \in Int /\ p * p \in Denominators
  BY ProductPositive
<1>3. Plus(r, s) = Lowest(a + b, p) /\ Minus(r, s) = Lowest(a - b, p)
  BY <1>1, PlusQuotients, MinusQuotients
<1>4. Times(r, s) = Lowest(a * b, p * p)
  BY <1>1, TimesQuotients
<1> QED BY <1>2, <1>3, <1>4, QuotientIn

\* So does division.
LEMMA OverIn ==
  ASSUME NEW r \in Quotients, NEW n \in Denominators
  PROVE  Over(r, n) \in Quotients
<1>1. PICK a \in Int, p \in Denominators : r = Lowest(a, p)
  BY DEF Quotients
<1>2. p * n \in Denominators
  BY ProductPositive
<1> QED BY <1>1, <1>2, OverQuotient, QuotientIn

\* Addition commutes.
LEMMA PlusCommutes ==
  ASSUME NEW r \in Quotients, NEW s \in Quotients
  PROVE  Plus(r, s) = Plus(s, r)
<1>1. PICK p \in Denominators, a \in Int, b \in Int :
         r = Lowest(a, p) /\ s = Lowest(b, p)
  BY CommonDenominator
<1>2. a + b = b + a
  OBVIOUS
<1> QED BY <1>1, <1>2, PlusQuotients

\* Of three numbers, the first two may change places.
LEMMA PlusSwaps ==
  ASSUME NEW r \in Quotients, NEW s \in Quotients, NEW t \in Quotients
  PROVE  Plus(r, Plus(s, t)) = Plus(s, Plus(r, t))
<1>1. PICK p \in Denominators, a \in Int, b \in Int, c \in Int :
         r = Lowest(a, p) /\ s = Lowest(b, p) /\ t = Lowest(c, p)
  BY CommonDenominatorOf3
<1>2. Plus(s, t) = Lowest(b + c, p) /\ Plus(r, t) = Lowest(a + c, p)
  BY <1>1, PlusQuotients
<1>3. b + c \in Int /\ a + c \in Int /\ a + (b + c) = b + (a + c)
  OBVIOUS
<1> QED BY <1>1, <1>2, <1>3, PlusQuotients

\* Nought over any denominator.
LEMMA NoughtIs ==
  ASSUME NEW p \in Denominators
  PROVE  Nought = Lowest(0, p)
<1>1. 1 \in Denominators /\ 0 * p = 0 * 1
  BY DEF Denominators
<1>2. Lowest(0, 1) = Lowest(0, p)
  BY <1>1, SameQuotient
<1> QED BY <1>2, WholeQuotient DEF Nought

\* Nought adds nothing.
LEMMA NoughtAdds ==
  ASSUME NEW r \in Quotients
  PROVE  Plus(Nought, r) = r /\ Plus(r, Nought) = r /\ Minus(r, Nought) = r
<1>1. PICK a \in Int, p \in Denominators : r = Lowest(a, p)
  BY DEF Quotients
<1>2. Nought = Lowest(0, p)
  BY NoughtIs
<1>3. 0 + a = a /\ a + 0 = a /\ a - 0 = a
  OBVIOUS
<1> QED BY <1>1, <1>2, <1>3, PlusQuotients, MinusQuotients

-----------------------------------------------------------------------------
(* Sums.                                                                   *)

\* The sum of the values of a function over a set, as the fold of the
\* community modules computes it, in the order of Chosen.
TotalOver(f, S) == FoldFunctionOnSet(Plus, Nought, f, S)

Chosen(s) == CHOOSE x \in s : TRUE

\* g sums f over the subsets of S.
Sums(g, f, S) ==
  g = [s \in SUBSET S |-> IF s = {} THEN Nought
                          ELSE Plus(f[Chosen(s)], g[s \ {Chosen(s)}])]

\* What is chosen from a set is in it, and leaves a smaller one.
LEMMA ChosenIn ==
  ASSUME NEW s, s # {}, IsFiniteSet(s)
  PROVE  /\ Chosen(s) \in s
         /\ IsFiniteSet(s \ {Chosen(s)})
         /\ Cardinality(s) \in Nat
         /\ Cardinality(s \ {Chosen(s)}) = Cardinality(s) - 1
         /\ Cardinality(s) - 1 \in Nat
<1>1. Chosen(s) \in s
  BY DEF Chosen
<1>2. /\ IsFiniteSet(s \ {Chosen(s)})
      /\ Cardinality(s \ {Chosen(s)}) = Cardinality(s) - 1
      /\ Cardinality(s) \in Nat /\ Cardinality(s \ {Chosen(s)}) \in Nat
  BY <1>1, FS_RemoveElement, FS_CardinalityType
<1> QED BY <1>1, <1>2

\* There is a function that sums over the subsets of up to n elements.
SumsUpTo(g, f, S, n) ==
  \A s \in SUBSET S : Cardinality(s) <= n =>
    g[s] = IF s = {} THEN Nought ELSE Plus(f[Chosen(s)], g[s \ {Chosen(s)}])

\* It exists for every n: no n is the least for which it does not.
LEMMA SumsUpToExist ==
  ASSUME NEW f, NEW S, IsFiniteSet(S)
  PROVE  \A n \in Nat : \E g : SumsUpTo(g, f, S, n)
<1> DEFINE T == {n \in Nat : ~\E g : SumsUpTo(g, f, S, n)}
<1> SUFFICES ASSUME T # {} PROVE FALSE
  OBVIOUS
<1>1. PICK m \in T : \A k \in T : m <= k
  BY LeastNatural
<1>2. m \in Nat /\ \A g : ~SumsUpTo(g, f, S, m)
  OBVIOUS
<1>3. \A s \in SUBSET S : IsFiniteSet(s) /\ Cardinality(s) \in Nat
  BY FS_Subset, FS_CardinalityType
<1>4. CASE m = 0
  <2> DEFINE g == [s \in SUBSET S |-> Nought]
  <2>1. SumsUpTo(g, f, S, 0)
    <3> SUFFICES ASSUME NEW s \in SUBSET S, Cardinality(s) <= 0
                 PROVE  g[s] = IF s = {} THEN Nought
                               ELSE Plus(f[Chosen(s)], g[s \ {Chosen(s)}])
      BY DEF SumsUpTo
    <3>1. s = {}
      BY <1>3, FS_EmptySet
    <3> QED BY <3>1
  <2> QED BY <1>2, <1>4, <2>1
<1>5. CASE m # 0
  <2>1. m - 1 \in Nat /\ m - 1 \notin T
    BY <1>1, <1>2, <1>5
  <2>2. PICK g : SumsUpTo(g, f, S, m - 1)
    BY <2>1
  <2> DEFINE h == [s \in SUBSET S |->
                     IF s # {} /\ Cardinality(s) = m
                     THEN Plus(f[Chosen(s)], g[s \ {Chosen(s)}]) ELSE g[s]]
  <2> HIDE DEF T
  <2>3. SumsUpTo(h, f, S, m)
    <3> SUFFICES ASSUME NEW s \in SUBSET S, Cardinality(s) <= m
                 PROVE  h[s] = IF s = {} THEN Nought
                               ELSE Plus(f[Chosen(s)], h[s \ {Chosen(s)}])
      BY DEF SumsUpTo
    <3>1. CASE s = {}
      <4>1. Cardinality(s) <= m - 1
        BY <2>1, <3>1, FS_EmptySet
      <4> QED BY <2>2, <3>1, <4>1 DEF SumsUpTo
    <3>2. CASE s # {}
      <4> DEFINE r == s \ {Chosen(s)}
      <4>1. Cardinality(r) = Cardinality(s) - 1 /\ r \in SUBSET S
        BY <1>3, <3>2, ChosenIn
      <4>2. Cardinality(r) # m
        BY <1>2, <1>3, <4>1
      <4>3. h[r] = g[r]
        BY <4>1, <4>2
      <4>4. CASE Cardinality(s) = m
        BY <3>2, <4>3, <4>4
      <4>5. CASE Cardinality(s) # m
        <5>1. Cardinality(s) <= m - 1
          BY <1>2, <1>3, <4>5
        <5>2. g[s] = Plus(f[Chosen(s)], g[r])
          BY <2>2, <3>2, <5>1 DEF SumsUpTo
        <5> QED BY <3>2, <4>3, <4>5, <5>2
      <4> QED BY <4>4, <4>5
    <3> QED BY <3>1, <3>2
  <2> QED BY <1>2, <2>3
<1> QED BY <1>4, <1>5

\* The fold of the community modules is one that sums over every subset.
LEMMA TotalIsSum ==
  ASSUME NEW f, NEW S, IsFiniteSet(S)
  PROVE  \E g : Sums(g, f, S) /\ TotalOver(f, S) = g[S]
<1>1. \E g : Sums(g, f, S)
  <2>1. PICK h : SumsUpTo(h, f, S, Cardinality(S))
    BY SumsUpToExist, FS_CardinalityType
  <2> DEFINE g == [s \in SUBSET S |-> h[s]]
  <2>2. \A s \in SUBSET S :
          h[s] = IF s = {} THEN Nought ELSE Plus(f[Chosen(s)], h[s \ {Chosen(s)}])
    BY <2>1, FS_Subset DEF SumsUpTo
  <2>3. \A s \in SUBSET S : s \ {Chosen(s)} \in SUBSET S
    OBVIOUS
  <2>4. Sums(g, f, S)
    BY <2>2, <2>3 DEF Sums
  <2> QED BY <2>4
<1> DEFINE it == CHOOSE g : g = [s \in SUBSET S |-> IF s = {} THEN Nought
                                 ELSE Plus(f[Chosen(s)], g[s \ {Chosen(s)}])]
<1>2. TotalOver(f, S) = it[S]
  BY DEF TotalOver, FoldFunctionOnSet, MapThenFoldSet, Chosen
<1>3. Sums(it, f, S)
  BY <1>1 DEF Sums
<1> QED BY <1>2, <1>3

\* Two such functions agree where the functions summed do.
LEMMA SumsAgree ==
  ASSUME NEW f, NEW g, NEW S, IsFiniteSet(S), Sums(g, f, S),
         NEW e, NEW h, NEW R, IsFiniteSet(R), Sums(h, e, R),
         NEW U \in SUBSET S, U \in SUBSET R, \A x \in U : e[x] = f[x]
  PROVE  g[U] = h[U]
<1> DEFINE T == {n \in Nat : \E s \in SUBSET U : Cardinality(s) = n /\ g[s] # h[s]}
<1>1. \A s \in SUBSET U : IsFiniteSet(s) /\ Cardinality(s) \in Nat
  BY FS_Subset, FS_CardinalityType
<1>2. ASSUME T # {} PROVE FALSE
  <2>1. PICK m \in T : \A k \in T : m <= k
    <3>1. T \subseteq Nat
      OBVIOUS
    <3> QED BY <1>2, <3>1, LeastNatural
  <2>2. PICK s \in SUBSET U : Cardinality(s) = m /\ g[s] # h[s]
    OBVIOUS
  <2>3. s \in SUBSET S /\ s \in SUBSET R
    OBVIOUS
  <2>4. s # {}
    BY <2>2, <2>3 DEF Sums
  <2> DEFINE r == s \ {Chosen(s)}
  <2>5. /\ Chosen(s) \in U /\ r \in SUBSET U
        /\ Cardinality(r) = m - 1 /\ m - 1 \in Nat
    BY <1>1, <2>2, <2>4, ChosenIn
  <2>6. g[r] = h[r]
    BY <2>1, <2>5
  <2>7. g[s] = Plus(f[Chosen(s)], g[r]) /\ h[s] = Plus(e[Chosen(s)], h[r])
    BY <2>3, <2>4 DEF Sums
  <2>8. e[Chosen(s)] = f[Chosen(s)]
    BY <2>5
  <2> QED BY <2>2, <2>6, <2>7, <2>8
<1>3. Cardinality(U) \in Nat /\ U \in SUBSET U
  BY <1>1
<1> QED BY <1>2, <1>3

\* The sum over nothing.
LEMMA TotalEmpty == ASSUME NEW f PROVE TotalOver(f, {}) = Nought
<1>1. PICK g : Sums(g, f, {}) /\ TotalOver(f, {}) = g[{}]
  BY TotalIsSum, FS_EmptySet
<1> QED BY <1>1 DEF Sums

\* The sum over a set of which one element is chosen.
LEMMA TotalChosen ==
  ASSUME NEW f, NEW S, IsFiniteSet(S), S # {}
  PROVE  TotalOver(f, S) = Plus(f[Chosen(S)], TotalOver(f, S \ {Chosen(S)}))
<1> DEFINE R == S \ {Chosen(S)}
<1>1. PICK g : Sums(g, f, S) /\ TotalOver(f, S) = g[S]
  BY TotalIsSum
<1>2. IsFiniteSet(R) /\ R \in SUBSET S /\ R \in SUBSET R
  BY ChosenIn
<1>3. PICK h : Sums(h, f, R) /\ TotalOver(f, R) = h[R]
  BY <1>2, TotalIsSum
<1>4. g[S] = Plus(f[Chosen(S)], g[R])
  BY <1>1 DEF Sums
<1> HIDE DEF R
<1>5. g[R] = h[R]
  BY <1>1, <1>2, <1>3, SumsAgree
<1> QED BY <1>1, <1>3, <1>4, <1>5 DEF R

\* A sum of numbers is a number.
LEMMA TotalIn ==
  ASSUME NEW S, IsFiniteSet(S), NEW f, \A x \in S : f[x] \in Quotients
  PROVE  TotalOver(f, S) \in Quotients
<1> DEFINE T == {n \in Nat : \E s \in SUBSET S :
                   Cardinality(s) = n /\ TotalOver(f, s) \notin Quotients}
<1>1. \A s \in SUBSET S : IsFiniteSet(s) /\ Cardinality(s) \in Nat
  BY FS_Subset, FS_CardinalityType
<1>2. ASSUME T # {} PROVE FALSE
  <2>1. PICK m \in T : \A k \in T : m <= k
    <3>1. T \subseteq Nat
      OBVIOUS
    <3> HIDE DEF T
    <3> QED BY <1>2, <3>1, LeastNatural
  <2>2. PICK s \in SUBSET S : Cardinality(s) = m /\ TotalOver(f, s) \notin Quotients
    OBVIOUS
  <2>3. s # {}
    BY <2>2, TotalEmpty, NoughtIn
  <2>4. /\ Chosen(s) \in S /\ s \ {Chosen(s)} \in SUBSET S
        /\ Cardinality(s \ {Chosen(s)}) = m - 1 /\ m - 1 \in Nat
    BY <1>1, <2>2, <2>3, ChosenIn
  <2>5. TotalOver(f, s \ {Chosen(s)}) \in Quotients
    BY <2>1, <2>4
  <2>6. TotalOver(f, s) = Plus(f[Chosen(s)], TotalOver(f, s \ {Chosen(s)}))
    BY <1>1, <2>3, TotalChosen
  <2>7. TotalOver(f, s) \in Quotients
    BY <2>4, <2>5, <2>6, OperationsIn
  <2> QED BY <2>2, <2>7
<1>3. Cardinality(S) \in Nat /\ S \in SUBSET S
  BY <1>1
<1> QED BY <1>2, <1>3

\* Each element counts once, in whatever order they are added up.
LEMMA TotalSplits ==
  ASSUME NEW S, IsFiniteSet(S), NEW f, \A x \in S : f[x] \in Quotients
  PROVE  \A x \in S : TotalOver(f, S) = Plus(f[x], TotalOver(f, S \ {x}))
<1> DEFINE Splits(s) ==
             \A x \in s : TotalOver(f, s) = Plus(f[x], TotalOver(f, s \ {x}))
           T == {n \in Nat : \E s \in SUBSET S : Cardinality(s) = n /\ ~Splits(s)}
<1>1. \A s \in SUBSET S :
        IsFiniteSet(s) /\ Cardinality(s) \in Nat /\ TotalOver(f, s) \in Quotients
  BY FS_Subset, FS_CardinalityType, TotalIn
<1>2. ASSUME T # {} PROVE FALSE
  <2>1. PICK m \in T : \A k \in T : m <= k
    <3>1. T \subseteq Nat
      OBVIOUS
    <3> HIDE DEF T
    <3> QED BY <1>2, <3>1, LeastNatural
  <2>2. PICK s \in SUBSET S : Cardinality(s) = m /\ ~Splits(s)
    OBVIOUS
  <2>3. \A r \in SUBSET S : Cardinality(r) = m - 1 => Splits(r)
    BY <1>1, <2>1, <2>2
  <2>4. PICK x \in s : TotalOver(f, s) # Plus(f[x], TotalOver(f, s \ {x}))
    BY <2>2
  <2> HIDE DEF T
  <2> DEFINE y == Chosen(s)
  <2>5. /\ y \in s /\ y \in S /\ s \ {y} \in SUBSET S
        /\ Cardinality(s \ {y}) = m - 1
    BY <1>1, <2>2, <2>4, ChosenIn
  <2>6. TotalOver(f, s) = Plus(f[y], TotalOver(f, s \ {y}))
    BY <1>1, <2>4, TotalChosen
  <2> HIDE DEF y
  <2>7. x \in s \ {y} /\ y \in s \ {x} /\ x \in S
    BY <2>4, <2>5, <2>6
  <2>8. s \ {x} \in SUBSET S /\ Cardinality(s \ {x}) = m - 1
    BY <1>1, <2>2, <2>7, FS_RemoveElement
  <2> DEFINE rest == (s \ {x}) \ {y}
  <2>9. TotalOver(f, s \ {x}) = Plus(f[y], TotalOver(f, rest))
    BY <2>3, <2>7, <2>8
  <2>10. TotalOver(f, s \ {y}) = Plus(f[x], TotalOver(f, rest))
    <3>1. rest = (s \ {y}) \ {x}
      OBVIOUS
    <3> HIDE DEF rest
    <3> QED BY <2>3, <2>5, <2>7, <3>1
  <2>11. rest \in SUBSET S
    OBVIOUS
  <2> HIDE DEF rest
  <2>12. /\ f[x] \in Quotients /\ f[y] \in Quotients
         /\ TotalOver(f, rest) \in Quotients
    BY <1>1, <2>5, <2>7, <2>11
  <2>13. Plus(f[y], Plus(f[x], TotalOver(f, rest)))
           = Plus(f[x], Plus(f[y], TotalOver(f, rest)))
    BY <2>12, PlusSwaps
  <2> QED BY <2>4, <2>6, <2>9, <2>10, <2>13
<1>3. Cardinality(S) \in Nat /\ S \in SUBSET S
  BY <1>1
<1>4. Splits(S)
  BY <1>2, <1>3
<1> QED BY <1>4

-----------------------------------------------------------------------------
(* Sums over sequences.                                                    *)

\* A sum depends on the values only.
LEMMA TotalsAgree ==
  ASSUME NEW S, IsFiniteSet(S), NEW f, NEW g, \A x \in S : f[x] = g[x]
  PROVE  TotalOver(f, S) = TotalOver(g, S)
<1>1. PICK h : Sums(h, f, S) /\ TotalOver(f, S) = h[S]
  BY TotalIsSum
<1>2. PICK e : Sums(e, g, S) /\ TotalOver(g, S) = e[S]
  BY TotalIsSum
<1>3. S \in SUBSET S
  OBVIOUS
<1>4. h[S] = e[S]
  BY <1>1, <1>2, <1>3, SumsAgree
<1> QED BY <1>1, <1>2, <1>4

\* The sum of one value more.
LEMMA TotalOfNext ==
  ASSUME NEW n \in Nat, NEW f, \A k \in 1 .. n + 1 : f[k] \in Quotients
  PROVE  /\ TotalOver(f, 1 .. n) \in Quotients
         /\ TotalOver(f, 1 .. n + 1) = Plus(f[n + 1], TotalOver(f, 1 .. n))
<1>1. IsFiniteSet(1 .. n) /\ IsFiniteSet(1 .. n + 1)
  BY FS_Interval
<1>2. \A k \in 1 .. n : f[k] \in Quotients
  OBVIOUS
<1>3. n + 1 \in 1 .. n + 1 /\ (1 .. n + 1) \ {n + 1} = 1 .. n
  OBVIOUS
<1>4. TotalOver(f, 1 .. n) \in Quotients
  BY <1>1, <1>2, TotalIn
<1>5. PICK S : S = 1 .. n + 1
  OBVIOUS
<1>6. \A x \in S : TotalOver(f, S) = Plus(f[x], TotalOver(f, S \ {x}))
  <2>1. IsFiniteSet(S) /\ \A x \in S : f[x] \in Quotients
    BY <1>1, <1>5
  <2> QED BY <2>1, TotalSplits
<1>7. n + 1 \in S /\ S \ {n + 1} = 1 .. n
  BY <1>3, <1>5
<1>8. TotalOver(f, S) = Plus(f[n + 1], TotalOver(f, 1 .. n))
  BY <1>6, <1>7
<1> QED BY <1>4, <1>5, <1>8

\* The sum of a sequence is a sum over its indices.
LEMMA TotalOfSeq ==
  ASSUME NEW n \in Nat, NEW f, DOMAIN f = 1 .. n
  PROVE  Total(f) = TotalOver(f, 1 .. n)
BY DEF Total, TotalOver, FoldFunction

\* The sum of a sequence that is appended to.
LEMMA TotalOfAppend ==
  ASSUME NEW s \in Seq(Quotients), NEW x \in Quotients
  PROVE  /\ Total(s) \in Quotients
         /\ Total(Append(s, x)) = Plus(x, Total(s))
<1>1. PICK n \in Nat : n = Len(s)
  OBVIOUS
<1>2. PICK t : t = Append(s, x)
  OBVIOUS
<1>3. /\ t \in Seq(Quotients) /\ Len(t) = n + 1
      /\ \A k \in 1 .. n : t[k] = s[k]
      /\ t[n + 1] = x
  BY <1>1, <1>2, AppendProperties
<1>4. DOMAIN s = 1 .. n /\ DOMAIN t = 1 .. n + 1
  BY <1>1, <1>3
<1>5. \A k \in 1 .. n + 1 : t[k] \in Quotients
  BY <1>3
<1>6. n + 1 \in Nat
  OBVIOUS
<1>7. Total(t) = TotalOver(t, 1 .. n + 1) /\ Total(s) = TotalOver(s, 1 .. n)
  BY <1>4, <1>6, TotalOfSeq
<1>8. /\ TotalOver(t, 1 .. n) \in Quotients
      /\ TotalOver(t, 1 .. n + 1) = Plus(t[n + 1], TotalOver(t, 1 .. n))
  BY <1>5, TotalOfNext
<1>9. TotalOver(t, 1 .. n) = TotalOver(s, 1 .. n)
  <2>1. IsFiniteSet(1 .. n)
    BY FS_Interval
  <2> QED BY <1>3, <2>1, TotalsAgree
<1> QED BY <1>2, <1>3, <1>7, <1>8, <1>9

-----------------------------------------------------------------------------
(* Welford's recurrence.                                                   *)

SquareAbout(v, c) == Times(Minus(v, c), Minus(v, c))

\* The squared distances from c of j values, from the sum of their squares e
\* and their sum t.
Expanded(e, t, c, j) ==
  Plus(Minus(e, Times(Rational(2), Times(c, t))), Times(Rational(j), Times(c, c)))

\* A whole multiple.
LEMMA Multiplied ==
  ASSUME NEW n \in Int, NEW a \in Int, NEW p \in Denominators
  PROVE  Times(Rational(n), Lowest(a, p)) = Lowest(n * a, p)
<1>1. Rational(n) = Lowest(n, 1) /\ 1 \in Denominators
  BY WholeQuotient DEF Denominators
<1>2. 1 * p = p
  BY DEF Denominators
<1> QED BY <1>1, <1>2, TimesQuotients

\* A squared distance over a common denominator.
LEMMA SquareIs ==
  ASSUME NEW b \in Int, NEW g \in Int, NEW p \in Denominators
  PROVE  SquareAbout(Lowest(b, p), Lowest(g, p)) = Lowest((b - g) * (b - g), p * p)
<1>1. b - g \in Int
  OBVIOUS
<1> QED BY <1>1, MinusQuotients, TimesQuotients DEF SquareAbout

\* Over a common denominator.
LEMMA ExpandedIs ==
  ASSUME NEW e \in Int, NEW t \in Int, NEW g \in Int, NEW p \in Denominators,
         NEW j \in Int
  PROVE  Expanded(Lowest(e, p * p), Lowest(t, p), Lowest(g, p), j)
           = Lowest((e - 2 * (g * t)) + j * (g * g), p * p)
<1>1. PICK q \in Denominators : q = p * p
  BY ProductPositive
<1>2. /\ g * t \in Int /\ g * g \in Int /\ 2 * (g * t) \in Int
      /\ j * (g * g) \in Int /\ e - 2 * (g * t) \in Int
  OBVIOUS
<1>3. /\ Times(Lowest(g, p), Lowest(t, p)) = Lowest(g * t, q)
      /\ Times(Lowest(g, p), Lowest(g, p)) = Lowest(g * g, q)
  <2>1. Times(Lowest(g, p), Lowest(t, p)) = Lowest(g * t, p * p)
    BY TimesQuotients
  <2>2. Times(Lowest(g, p), Lowest(g, p)) = Lowest(g * g, p * p)
    BY TimesQuotients
  <2> QED BY <1>1, <2>1, <2>2
<1>4. /\ Times(Rational(2), Lowest(g * t, q)) = Lowest(2 * (g * t), q)
      /\ Times(Rational(j), Lowest(g * g, q)) = Lowest(j * (g * g), q)
  BY <1>2, Multiplied
<1>5. Minus(Lowest(e, q), Lowest(2 * (g * t), q)) = Lowest(e - 2 * (g * t), q)
  BY <1>2, MinusQuotients
<1>6. Plus(Lowest(e - 2 * (g * t), q), Lowest(j * (g * g), q))
        = Lowest((e - 2 * (g * t)) + j * (g * g), q)
  BY <1>2, PlusQuotients
<1> QED BY <1>1, <1>3, <1>4, <1>5, <1>6 DEF Expanded

\* One value more.
LEMMA ExpandedStep ==
  ASSUME NEW e \in Quotients, NEW t \in Quotients, NEW c \in Quotients,
         NEW v \in Quotients, NEW j \in Int
  PROVE  Plus(SquareAbout(v, c), Expanded(e, t, c, j))
           = Expanded(Plus(SquareAbout(v, Nought), e), Plus(v, t), c, j + 1)
<1>1. PICK p0 \in Denominators, t0 \in Int, g0 \in Int, b0 \in Int :
        t = Lowest(t0, p0) /\ c = Lowest(g0, p0) /\ v = Lowest(b0, p0)
  BY CommonDenominatorOf3
<1>2. PICK e0 \in Int, q0 \in Denominators : e = Lowest(e0, q0)
  BY DEF Quotients
<1>3. PICK p \in Denominators : p = p0 * q0
  BY ProductPositive
<1>4. PICK t1 \in Int, g \in Int, b \in Int :
        t = Lowest(t1, p) /\ c = Lowest(g, p) /\ v = Lowest(b, p)
  <2>1. /\ t = Lowest(t0 * q0, p0 * q0) /\ c = Lowest(g0 * q0, p0 * q0)
        /\ v = Lowest(b0 * q0, p0 * q0)
    BY <1>1, Widened
  <2>2. t0 * q0 \in Int /\ g0 * q0 \in Int /\ b0 * q0 \in Int
    BY DEF Denominators
  <2> QED BY <1>3, <2>1, <2>2
<1>5. PICK e1 \in Int : e = Lowest(e1, p * p)
  <2>1. p0 * p \in Denominators
    BY ProductPositive
  <2>2. e = Lowest(e0 * (p0 * p), q0 * (p0 * p))
    BY <1>2, <2>1, Widened
  <2>3. q0 * (p0 * p) = p * p
    <3>1. q0 * (p0 * p) = (p0 * q0) * p
      BY DEF Denominators
    <3> QED BY <1>3, <3>1
  <2>4. e0 * (p0 * p) \in Int
    BY <2>1 DEF Denominators
  <2> QED BY <2>2, <2>3, <2>4
<1>6. p * p \in Denominators /\ (b - g) * (b - g) \in Int /\ b * b \in Int
  BY ProductPositive
<1>7. SquareAbout(v, c) = Lowest((b - g) * (b - g), p * p)
  BY <1>4, SquareIs
<1>8. SquareAbout(v, Nought) = Lowest(b * b, p * p)
  <2>1. Minus(v, Nought) = v
    BY NoughtAdds
  <2> QED BY <1>4, <2>1, TimesQuotients DEF SquareAbout
<1>9. Expanded(e, t, c, j) = Lowest((e1 - 2 * (g * t1)) + j * (g * g), p * p)
  BY <1>4, <1>5, ExpandedIs
<1>10. Plus(SquareAbout(v, Nought), e) = Lowest(b * b + e1, p * p)
  BY <1>5, <1>6, <1>8, PlusQuotients
<1>11. Plus(v, t) = Lowest(b + t1, p)
  BY <1>4, PlusQuotients
<1>12. Expanded(Plus(SquareAbout(v, Nought), e), Plus(v, t), c, j + 1)
         = Lowest(((b * b + e1) - 2 * (g * (b + t1))) + (j + 1) * (g * g), p * p)
  <2>1. b * b + e1 \in Int /\ b + t1 \in Int /\ j + 1 \in Int
    OBVIOUS
  <2> QED BY <1>4, <1>10, <1>11, <2>1, ExpandedIs
<1>13. Plus(SquareAbout(v, c), Expanded(e, t, c, j))
         = Lowest((b - g) * (b - g) + ((e1 - 2 * (g * t1)) + j * (g * g)), p * p)
  <2>1. (e1 - 2 * (g * t1)) + j * (g * g) \in Int
    OBVIOUS
  <2> QED BY <1>6, <1>7, <1>9, <2>1, PlusQuotients
<1>14. (b - g) * (b - g) + ((e1 - 2 * (g * t1)) + j * (g * g))
         = ((b * b + e1) - 2 * (g * (b + t1))) + (j + 1) * (g * g)
  BY SMT
<1> QED BY <1>12, <1>13, <1>14

\* The new mean, times the new number, is the new sum.
LEMMA MeanStep ==
  ASSUME NEW m \in Quotients, NEW x \in Quotients, NEW n \in Nat
  PROVE  /\ Plus(m, Over(Minus(x, m), n + 1)) \in Quotients
         /\ Times(Rational(n + 1), Plus(m, Over(Minus(x, m), n + 1)))
              = Plus(x, Times(Rational(n), m))
<1>1. PICK p \in Denominators, g \in Int, b \in Int :
        m = Lowest(g, p) /\ x = Lowest(b, p)
  BY CommonDenominator
<1>2. PICK l \in Denominators : l = n + 1
  BY DEF Denominators
<1>3. /\ b - g \in Int /\ g * l \in Int /\ p * l \in Denominators
      /\ g * l + (b - g) \in Int /\ l \in Int /\ n * g \in Int
  BY ProductPositive DEF Denominators
<1>4. Over(Minus(x, m), l) = Lowest(b - g, p * l)
  BY <1>1, <1>3, MinusQuotients, OverQuotient
<1>5. m = Lowest(g * l, p * l)
  BY <1>1, Widened
<1>6. PICK k : k = Plus(m, Over(Minus(x, m), l))
  OBVIOUS
<1>7. k = Lowest(g * l + (b - g), p * l)
  BY <1>3, <1>4, <1>5, <1>6, PlusQuotients
<1>8. k \in Quotients
  BY <1>3, <1>7, QuotientIn
<1>9. Times(Rational(l), k) = Lowest(l * (g * l + (b - g)), p * l)
  BY <1>3, <1>7, Multiplied
<1>10. Times(Rational(n), m) = Lowest(n * g, p)
  BY <1>1, Multiplied
<1>11. Plus(x, Times(Rational(n), m)) = Lowest(b + n * g, p)
  BY <1>1, <1>3, <1>10, PlusQuotients
<1>12. Lowest(l * (g * l + (b - g)), p * l) = Lowest(b + n * g, p)
  <2>1. l = n + 1 /\ p \in Int
    BY <1>2 DEF Denominators
  <2>2. (l * (g * l + (b - g))) * p = (b + n * g) * (p * l)
    <3>1. ((n + 1) * (g * (n + 1) + (b - g))) * p = (b + n * g) * (p * (n + 1))
      BY <2>1
    <3> QED BY <2>1, <3>1
  <2>3. l * (g * l + (b - g)) \in Int /\ b + n * g \in Int
    BY <1>3
  <2> QED BY <1>3, <2>2, <2>3, SameQuotient
<1> QED BY <1>2, <1>6, <1>8, <1>9, <1>11, <1>12

\* A sum divided by the number of values, when it is that multiple of m.
LEMMA MeanOfMultiple ==
  ASSUME NEW m \in Quotients, NEW n \in Denominators
  PROVE  Over(Times(Rational(n), m), n) = m
<1>1. PICK g \in Int, p \in Denominators : m = Lowest(g, p)
  BY DEF Quotients
<1>2. n \in Int /\ n * g \in Int
  BY DEF Denominators
<1>3. Over(Times(Rational(n), m), n) = Lowest(n * g, p * n)
  BY <1>1, <1>2, Multiplied, OverQuotient
<1>4. m = Lowest(g * n, p * n)
  BY <1>1, Widened
<1>5. g * n = n * g
  BY <1>2
<1> QED BY <1>3, <1>4, <1>5

\* What is added to m2_ is what the squared distances, from the old mean and
\* from the new one, differ by.
LEMMA SquaresStep ==
  ASSUME NEW e \in Quotients, NEW m \in Quotients, NEW k \in Quotients,
         NEW x \in Quotients, NEW n \in Nat,
         Times(Rational(n + 1), k) = Plus(x, Times(Rational(n), m))
  PROVE  Expanded(Plus(SquareAbout(x, Nought), e),
                  Plus(x, Times(Rational(n), m)), k, n + 1)
           = Plus(Expanded(e, Times(Rational(n), m), m, n),
                  Times(Minus(x, m), Minus(x, k)))
<1>1. PICK p0 \in Denominators, g0 \in Int, h0 \in Int :
        m = Lowest(g0, p0) /\ k = Lowest(h0, p0)
  BY CommonDenominator
<1>2. PICK e0 \in Int, q0 \in Denominators : e = Lowest(e0, q0)
  BY DEF Quotients
<1>3. PICK p \in Denominators : p = p0 * q0
  BY ProductPositive
<1>4. PICK g \in Int, h \in Int : m = Lowest(g, p) /\ k = Lowest(h, p)
  <2>1. m = Lowest(g0 * q0, p0 * q0) /\ k = Lowest(h0 * q0, p0 * q0)
    BY <1>1, Widened
  <2>2. g0 * q0 \in Int /\ h0 * q0 \in Int
    BY DEF Denominators
  <2> QED BY <1>3, <2>1, <2>2
<1>5. PICK e1 \in Int : e = Lowest(e1, p * p)
  <2>1. p0 * p \in Denominators
    BY ProductPositive
  <2>2. e = Lowest(e0 * (p0 * p), q0 * (p0 * p))
    BY <1>2, <2>1, Widened
  <2>3. q0 * (p0 * p) = p * p
    <3>1. q0 * (p0 * p) = (p0 * q0) * p
      BY DEF Denominators
    <3> QED BY <1>3, <3>1
  <2>4. e0 * (p0 * p) \in Int
    BY <2>1 DEF Denominators
  <2> QED BY <2>2, <2>3, <2>4
<1>6. PICK a \in Int : a = n * g
  OBVIOUS
<1>7. PICK b \in Int : b = (n + 1) * h - a
  OBVIOUS
<1>8. Times(Rational(n), m) = Lowest(a, p)
  BY <1>4, <1>6, Multiplied
<1>9. Plus(x, Times(Rational(n), m)) = Lowest(a + b, p)
  <2>1. n + 1 \in Int /\ (n + 1) * h = a + b
    BY <1>7
  <2>2. Times(Rational(n + 1), k) = Lowest((n + 1) * h, p)
    BY <1>4, <2>1, Multiplied
  <2> QED BY <2>1, <2>2
<1>10. x = Lowest(b, p)
  <2>1. Minus(Lowest(a + b, p), Lowest(a, p)) = Lowest((a + b) - a, p)
    <3>1. a + b \in Int
      OBVIOUS
    <3> QED BY <3>1, MinusQuotients
  <2>2. (a + b) - a = b
    OBVIOUS
  <2>3. Minus(Plus(x, Lowest(a, p)), Lowest(a, p)) = x
    <3>1. Lowest(a, p) \in Quotients
      BY QuotientIn
    <3>2. PICK q \in Denominators, y \in Int, z \in Int :
            x = Lowest(y, q) /\ Lowest(a, p) = Lowest(z, q)
      BY <3>1, CommonDenominator
    <3>3. y + z \in Int /\ (y + z) - z = y
      OBVIOUS
    <3>4. Minus(Lowest(y + z, q), Lowest(z, q)) = Lowest(y, q)
      BY <3>3, MinusQuotients
    <3> QED BY <3>2, <3>4, PlusQuotients
  <2> QED BY <1>8, <1>9, <2>1, <2>2, <2>3
<1>11. /\ p * p \in Denominators
       /\ b * b \in Int /\ b * b + e1 \in Int /\ a + b \in Int
  BY ProductPositive
<1>12. SquareAbout(x, Nought) = Lowest(b * b, p * p)
  <2>1. Minus(x, Nought) = x
    BY NoughtAdds
  <2> QED BY <1>10, <2>1, TimesQuotients DEF SquareAbout
<1>13. Plus(SquareAbout(x, Nought), e) = Lowest(b * b + e1, p * p)
  BY <1>5, <1>11, <1>12, PlusQuotients
<1>14. Expanded(Plus(SquareAbout(x, Nought), e),
                Plus(x, Times(Rational(n), m)), k, n + 1)
         = Lowest(((b * b + e1) - 2 * (h * (a + b))) + (n + 1) * (h * h), p * p)
  <2>1. n + 1 \in Int
    OBVIOUS
  <2> QED BY <1>4, <1>9, <1>11, <1>13, <2>1, ExpandedIs
<1>15. Expanded(e, Times(Rational(n), m), m, n)
         = Lowest((e1 - 2 * (g * a)) + n * (g * g), p * p)
  BY <1>4, <1>5, <1>8, ExpandedIs
<1>16. Times(Minus(x, m), Minus(x, k)) = Lowest((b - g) * (b - h), p * p)
  <2>1. Minus(x, m) = Lowest(b - g, p) /\ Minus(x, k) = Lowest(b - h, p)
    BY <1>4, <1>10, MinusQuotients
  <2>2. b - g \in Int /\ b - h \in Int
    OBVIOUS
  <2> QED BY <2>1, <2>2, TimesQuotients
<1>17. ((b * b + e1) - 2 * (h * (a + b))) + (n + 1) * (h * h)
         = ((e1 - 2 * (g * a)) + n * (g * g)) + (b - g) * (b - h)
  <2> DEFINE A == n * g
             B == (n + 1) * h - n * g
  <2>1. ((B * B + e1) - 2 * (h * (A + B))) + (n + 1) * (h * h)
          = ((e1 - 2 * (g * A)) + n * (g * g)) + (B - g) * (B - h)
    BY SMT
  <2>2. a = A /\ b = B
    BY <1>6, <1>7
  <2> HIDE DEF A, B
  <2> QED BY <2>1, <2>2
<1>18. Plus(Lowest((e1 - 2 * (g * a)) + n * (g * g), p * p),
            Lowest((b - g) * (b - h), p * p))
         = Lowest(((e1 - 2 * (g * a)) + n * (g * g)) + (b - g) * (b - h), p * p)
  <2>1. (e1 - 2 * (g * a)) + n * (g * g) \in Int /\ (b - g) * (b - h) \in Int
    OBVIOUS
  <2> QED BY <1>11, <2>1, PlusQuotients
<1> QED BY <1>14, <1>15, <1>16, <1>17, <1>18

\* The squared distances of a sequence's values from c.
Distances(s, c) == [k \in 1 .. Len(s) |-> SquareAbout(s[k], c)]

\* A squared distance is a number.
LEMMA SquareIn ==
  ASSUME NEW v \in Quotients, NEW c \in Quotients
  PROVE  SquareAbout(v, c) \in Quotients
BY OperationsIn DEF SquareAbout

\* Without a value there is nothing.
LEMMA ExpandedNone ==
  ASSUME NEW c \in Quotients
  PROVE  Expanded(Nought, Nought, c, 0) = Nought
<1>1. PICK g \in Int, p \in Denominators : c = Lowest(g, p)
  BY DEF Quotients
<1>2. p * p \in Denominators
  BY ProductPositive
<1>3. Nought = Lowest(0, p) /\ Nought = Lowest(0, p * p)
  BY <1>2, NoughtIs
<1>4. Expanded(Lowest(0, p * p), Lowest(0, p), Lowest(g, p), 0)
        = Lowest((0 - 2 * (g * 0)) + 0 * (g * g), p * p)
  BY ExpandedIs
<1>5. (0 - 2 * (g * 0)) + 0 * (g * g) = 0
  BY SMT
<1> QED BY <1>1, <1>3, <1>4, <1>5

\* The squared distances from c add up to what Expanded says.
LEMMA SquaresExpand ==
  ASSUME NEW s \in Seq(Quotients), NEW c \in Quotients
  PROVE  Total(Distances(s, c))
           = Expanded(Total(Distances(s, Nought)), Total(s), c, Len(s))
<1>1. PICK n \in Nat : n = Len(s)
  OBVIOUS
<1>2. PICK f : f = Distances(s, c)
  OBVIOUS
<1>3. PICK g : g = Distances(s, Nought)
  OBVIOUS
<1>4. \A k \in 1 .. n : s[k] \in Quotients
  BY <1>1
<1>5. /\ DOMAIN f = 1 .. n /\ DOMAIN g = 1 .. n /\ DOMAIN s = 1 .. n
      /\ \A k \in 1 .. n : /\ f[k] = SquareAbout(s[k], c)
                           /\ g[k] = SquareAbout(s[k], Nought)
  BY <1>1, <1>2, <1>3 DEF Distances
<1>6. \A k \in 1 .. n : f[k] \in Quotients /\ g[k] \in Quotients
  BY <1>4, <1>5, SquareIn, NoughtIn
<1> DEFINE Right(j) ==
             TotalOver(f, 1 .. j)
               = Expanded(TotalOver(g, 1 .. j), TotalOver(s, 1 .. j), c, j)
           T == {j \in Nat : j <= n /\ ~Right(j)}
<1>7. ASSUME T # {} PROVE FALSE
  <2>1. PICK m \in T : \A k \in T : m <= k
    <3>1. T \subseteq Nat
      OBVIOUS
    <3> HIDE DEF T
    <3> QED BY <1>7, <3>1, LeastNatural
  <2>2. m \in Nat /\ m <= n /\ ~Right(m)
    OBVIOUS
  <2>3. m # 0
    <3> SUFFICES ASSUME m = 0 PROVE FALSE
      OBVIOUS
    <3>1. 1 .. m = {}
      BY <2>2
    <3>2. TotalOver(f, 1 .. m) = Nought /\ TotalOver(g, 1 .. m) = Nought
          /\ TotalOver(s, 1 .. m) = Nought
      BY <3>1, TotalEmpty
    <3> QED BY <2>2, <3>2, ExpandedNone
  <2>4. PICK j \in Nat : m = j + 1
    <3>1. m - 1 \in Nat /\ m = (m - 1) + 1
      BY <2>2, <2>3
    <3> QED BY <3>1
  <2>5. Right(j)
    <3>1. j \in Nat /\ j <= n /\ ~(m <= j)
      BY <2>2, <2>4
    <3>2. j \notin T
      <4> HIDE DEF T
      <4> QED BY <2>1, <3>1
    <3> QED BY <3>1, <3>2
  <2>6. j + 1 \in 1 .. n /\ \A k \in 1 .. j + 1 : k \in 1 .. n
    BY <1>1, <2>2, <2>4
  <2>7. /\ TotalOver(f, 1 .. j + 1) = Plus(f[j + 1], TotalOver(f, 1 .. j))
        /\ TotalOver(g, 1 .. j + 1) = Plus(g[j + 1], TotalOver(g, 1 .. j))
        /\ TotalOver(s, 1 .. j + 1) = Plus(s[j + 1], TotalOver(s, 1 .. j))
        /\ TotalOver(g, 1 .. j) \in Quotients /\ TotalOver(s, 1 .. j) \in Quotients
    <3>1. /\ \A k \in 1 .. j + 1 : f[k] \in Quotients
          /\ \A k \in 1 .. j + 1 : g[k] \in Quotients
          /\ \A k \in 1 .. j + 1 : s[k] \in Quotients
      BY <1>4, <1>6, <2>6
    <3> QED BY <3>1, TotalOfNext
  <2>8. Plus(SquareAbout(s[j + 1], c),
             Expanded(TotalOver(g, 1 .. j), TotalOver(s, 1 .. j), c, j))
          = Expanded(Plus(SquareAbout(s[j + 1], Nought), TotalOver(g, 1 .. j)),
                     Plus(s[j + 1], TotalOver(s, 1 .. j)), c, j + 1)
    <3>1. s[j + 1] \in Quotients /\ j \in Int
      BY <1>4, <2>6
    <3>2. PICK v \in Quotients, e \in Quotients, t \in Quotients :
            /\ v = s[j + 1]
            /\ e = TotalOver(g, 1 .. j) /\ t = TotalOver(s, 1 .. j)
      BY <2>7, <3>1
    <3>3. Plus(SquareAbout(v, c), Expanded(e, t, c, j))
            = Expanded(Plus(SquareAbout(v, Nought), e), Plus(v, t), c, j + 1)
      BY <3>1, ExpandedStep
    <3> QED BY <3>2, <3>3
  <2>9. /\ f[j + 1] = SquareAbout(s[j + 1], c)
        /\ g[j + 1] = SquareAbout(s[j + 1], Nought)
    BY <1>5, <2>6
  <2>10. Right(j + 1)
    BY <2>5, <2>7, <2>8, <2>9
  <2> QED BY <2>2, <2>4, <2>10
<1>8. Right(n)
  BY <1>7
<1>9. /\ Total(f) = TotalOver(f, 1 .. n) /\ Total(g) = TotalOver(g, 1 .. n)
      /\ Total(s) = TotalOver(s, 1 .. n)
  BY <1>5, TotalOfSeq
<1> HIDE DEF Right, T
<1> QED BY <1>1, <1>2, <1>3, <1>8, <1>9 DEF Right

\* The squared distances of a sequence that is appended to.
LEMMA DistancesOfAppend ==
  ASSUME NEW s \in Seq(Quotients), NEW x \in Quotients
  PROVE  /\ Distances(s, Nought) \in Seq(Quotients)
         /\ Distances(Append(s, x), Nought)
              = Append(Distances(s, Nought), SquareAbout(x, Nought))
<1>1. PICK n \in Nat : n = Len(s)
  OBVIOUS
<1>2. PICK t : t = Append(s, x)
  OBVIOUS
<1>3. /\ t \in Seq(Quotients) /\ Len(t) = n + 1
      /\ \A k \in 1 .. n : t[k] = s[k]
      /\ t[n + 1] = x
  BY <1>1, <1>2, AppendProperties
<1>4. \A k \in 1 .. n : SquareAbout(s[k], Nought) \in Quotients
  BY <1>1, SquareIn, NoughtIn
<1>5. PICK d : d = Distances(s, Nought)
  OBVIOUS
<1>6. /\ d \in Seq(Quotients) /\ Len(d) = n
      /\ \A k \in 1 .. n : d[k] = SquareAbout(s[k], Nought)
  <2>1. d = [k \in 1 .. n |-> SquareAbout(s[k], Nought)]
    BY <1>1, <1>5 DEF Distances
  <2> QED BY <1>4, <2>1
<1>7. PICK y \in Quotients : y = SquareAbout(x, Nought)
  BY SquareIn, NoughtIn
<1>8. PICK u : u = Append(d, y)
  OBVIOUS
<1>9. /\ u \in Seq(Quotients) /\ Len(u) = n + 1
      /\ \A k \in 1 .. n : u[k] = d[k]
      /\ u[n + 1] = y
  BY <1>6, <1>8, AppendProperties
<1>10. PICK w : w = Distances(t, Nought)
  OBVIOUS
<1>11. w = [k \in 1 .. n + 1 |-> SquareAbout(t[k], Nought)]
  BY <1>3, <1>10 DEF Distances
<1>12. \A k \in 1 .. n + 1 : u[k] = SquareAbout(t[k], Nought)
  <2> SUFFICES ASSUME NEW k \in 1 .. n + 1 PROVE u[k] = SquareAbout(t[k], Nought)
    OBVIOUS
  <2>1. CASE k = n + 1
    BY <1>3, <1>7, <1>9, <2>1
  <2>2. CASE k # n + 1
    <3>1. k \in 1 .. n
      BY <2>2
    <3> QED BY <1>3, <1>6, <1>9, <3>1
  <2> QED BY <2>1, <2>2
<1>13. u = [k \in 1 .. n + 1 |-> u[k]]
  BY <1>9
<1>14. u = w
  BY <1>11, <1>12, <1>13
<1> QED BY <1>2, <1>5, <1>6, <1>7, <1>8, <1>10, <1>14

-----------------------------------------------------------------------------
(* The invariant of the statistics: the sum of the samples is count_ times *)
(* the mean, and m2_ is what the squared distances from it add up to.      *)

StatsInv ==
  /\ samples \in Seq(Quotients)
  /\ count_ = Len(samples)
  /\ mean_ \in Quotients
  /\ count_ = 0 => mean_ = Nought
  /\ Total(samples) = Times(Rational(count_), mean_)
  /\ m2_ = Expanded(Total(Distances(samples, Nought)), Total(samples),
                    mean_, count_)

\* Without a sample all is Nought.
LEMMA StatsInitially == StatsInit => StatsInv
<1> SUFFICES ASSUME StatsInit PROVE StatsInv
  OBVIOUS
<1>1. /\ count_ = 0 /\ mean_ = Nought /\ m2_ = Nought /\ samples = <<>>
  BY DEF StatsInit
<1>2. samples \in Seq(Quotients) /\ Len(samples) = 0 /\ DOMAIN samples = 1 .. 0
  BY <1>1
<1>3. Distances(samples, Nought)
        = [k \in 1 .. 0 |-> SquareAbout(samples[k], Nought)]
  BY <1>2 DEF Distances
<1>4. DOMAIN Distances(samples, Nought) = 1 .. 0
  BY <1>3
<1>5. 1 .. 0 = {} /\ 0 \in Nat
  OBVIOUS
<1>6. Total(samples) = Nought
  BY <1>2, <1>5, TotalOfSeq, TotalEmpty
<1>7. Total(Distances(samples, Nought)) = Nought
  BY <1>4, <1>5, TotalOfSeq, TotalEmpty
<1>8. Times(Rational(0), Nought) = Nought
  <2>1. 1 \in Denominators
    BY DEF Denominators
  <2>2. Nought = Lowest(0, 1)
    BY <2>1, NoughtIs
  <2>3. Times(Rational(0), Lowest(0, 1)) = Lowest(0 * 0, 1)
    BY <2>1, Multiplied
  <2> QED BY <2>2, <2>3
<1>9. Expanded(Nought, Nought, Nought, 0) = Nought
  BY ExpandedNone, NoughtIn
<1> QED BY <1>1, <1>2, <1>6, <1>7, <1>8, <1>9, NoughtIn DEF StatsInv

\* Adding any value keeps it.
LEMMA AddKeeps ==
  ASSUME StatsInv, NEW x \in Quotients, Add(x)
  PROVE  StatsInv'
<1>1. /\ samples \in Seq(Quotients) /\ count_ = Len(samples)
      /\ mean_ \in Quotients
      /\ Total(samples) = Times(Rational(count_), mean_)
      /\ m2_ = Expanded(Total(Distances(samples, Nought)), Total(samples),
                        mean_, count_)
  BY DEF StatsInv
<1>2. PICK n \in Nat : n = count_
  BY <1>1
<1>3. /\ count_' = n + 1
      /\ mean_' = Plus(mean_, Over(Minus(x, mean_), n + 1))
      /\ m2_' = Plus(m2_, Times(Minus(x, mean_), Minus(x, mean_')))
      /\ samples' = Append(samples, x)
  BY <1>2 DEF Add, Distance
<1>4. samples' \in Seq(Quotients) /\ Len(samples') = n + 1
  BY <1>1, <1>2, <1>3, AppendProperties
<1>5. /\ mean_' \in Quotients
      /\ Times(Rational(n + 1), mean_') = Plus(x, Times(Rational(n), mean_))
  BY <1>1, <1>3, MeanStep
<1>6. Total(samples) \in Quotients /\ Total(samples') = Plus(x, Total(samples))
  BY <1>1, <1>3, TotalOfAppend
<1>7. PICK e : e = Total(Distances(samples, Nought))
  OBVIOUS
<1>8. e \in Quotients
      /\ Total(Distances(samples', Nought)) = Plus(SquareAbout(x, Nought), e)
  <2>1. /\ Distances(samples, Nought) \in Seq(Quotients)
        /\ Distances(samples', Nought)
             = Append(Distances(samples, Nought), SquareAbout(x, Nought))
    BY <1>1, <1>3, DistancesOfAppend
  <2>2. SquareAbout(x, Nought) \in Quotients
    BY SquareIn, NoughtIn
  <2> QED BY <1>7, <2>1, <2>2, TotalOfAppend
<1>9. Expanded(Plus(SquareAbout(x, Nought), e),
               Plus(x, Times(Rational(n), mean_)), mean_', n + 1)
        = Plus(Expanded(e, Times(Rational(n), mean_), mean_, n),
               Times(Minus(x, mean_), Minus(x, mean_')))
  BY <1>1, <1>5, <1>8, SquaresStep
<1>10. m2_' = Expanded(Total(Distances(samples', Nought)), Total(samples'),
                       mean_', n + 1)
  BY <1>1, <1>2, <1>3, <1>6, <1>7, <1>8, <1>9
<1>11. Total(samples') = Times(Rational(n + 1), mean_')
  BY <1>1, <1>2, <1>5, <1>6
<1>12. n + 1 # 0
  OBVIOUS
<1> QED BY <1>3, <1>4, <1>5, <1>10, <1>11, <1>12 DEF StatsInv

\* It says that the recurrence agrees with the definitions.
LEMMA InvExact == StatsInv => StatsAreExact
<1> SUFFICES ASSUME StatsInv PROVE StatsAreExact
  OBVIOUS
<1>1. /\ samples \in Seq(Quotients) /\ count_ = Len(samples)
      /\ mean_ \in Quotients
      /\ count_ = 0 => mean_ = Nought
      /\ Total(samples) = Times(Rational(count_), mean_)
      /\ m2_ = Expanded(Total(Distances(samples, Nought)), Total(samples),
                        mean_, count_)
  BY DEF StatsInv
<1>2. PICK n \in Nat : n = count_
  BY <1>1
<1>3. n > 0 => mean_ = MeanOf(samples)
  <2> SUFFICES ASSUME n > 0 PROVE mean_ = MeanOf(samples)
    OBVIOUS
  <2>1. n \in Denominators
    BY DEF Denominators
  <2>2. Over(Times(Rational(n), mean_), n) = mean_
    BY <1>1, <2>1, MeanOfMultiple
  <2> QED BY <1>1, <1>2, <2>2 DEF MeanOf
<1>4. n > 0 => m2_ = Squares(samples)
  <2> SUFFICES ASSUME n > 0 PROVE m2_ = Squares(samples)
    OBVIOUS
  <2>1. Total(Distances(samples, mean_)) = m2_
    BY <1>1, SquaresExpand
  <2>2. Squares(samples) = Total(Distances(samples, MeanOf(samples)))
    BY DEF Squares, Distances, SquareAbout
  <2> QED BY <1>3, <2>1, <2>2
<1>5. n = 0 => Variance = Nought
  BY <1>2 DEF Variance
<1>6. n > 0 => Variance = Over(Squares(samples), n)
  BY <1>2, <1>4 DEF Variance
<1>7. SampleVariance = IF n > 1 THEN Over(Squares(samples), n - 1) ELSE Nought
  BY <1>2, <1>4 DEF SampleVariance
<1> QED BY <1>1, <1>2, <1>3, <1>5, <1>6, <1>7 DEF StatsAreExact

-----------------------------------------------------------------------------
(* Powers of two.                                                          *)

Doubles(g) == g = [n \in Nat |-> IF n = 0 THEN 1 ELSE 2 * g[n - 1]]

\* g doubles for the first n numbers.
DoublesUpTo(g, n) ==
  \A k \in 0 .. n : g[k] = IF k = 0 THEN 1 ELSE 2 * g[k - 1]

\* Such a function exists for every n: no n is the least for which it does not.
LEMMA DoublesUpToExist == \A n \in Nat : \E g : DoublesUpTo(g, n)
<1> DEFINE T == {n \in Nat : ~\E g : DoublesUpTo(g, n)}
<1> SUFFICES ASSUME T # {} PROVE FALSE
  OBVIOUS
<1>1. PICK m \in T : \A k \in T : m <= k
  BY LeastNatural
<1>2. m \in Nat /\ \A g : ~DoublesUpTo(g, m)
  OBVIOUS
<1>3. CASE m = 0
  <2>1. DoublesUpTo([k \in Nat |-> 1], 0)
    BY DEF DoublesUpTo
  <2> QED BY <1>2, <1>3, <2>1
<1>4. CASE m # 0
  <2>1. m - 1 \in Nat /\ m - 1 \notin T
    BY <1>1, <1>2, <1>4
  <2>2. PICK g : DoublesUpTo(g, m - 1)
    BY <2>1
  <2> HIDE DEF T
  <2>3. PICK h : h = [k \in Nat |-> IF k = m THEN 2 * g[m - 1] ELSE g[k]]
    OBVIOUS
  <2>4. DoublesUpTo(h, m)
    <3> SUFFICES ASSUME NEW k \in 0 .. m
                 PROVE  h[k] = IF k = 0 THEN 1 ELSE 2 * h[k - 1]
      BY DEF DoublesUpTo
    <3>1. k \in Nat /\ (k # 0 => k - 1 \in Nat /\ k - 1 # m)
      BY <1>2
    <3>2. k # 0 => h[k - 1] = g[k - 1]
      BY <2>3, <3>1
    <3>3. CASE k = m
      BY <1>4, <2>3, <3>1, <3>2, <3>3
    <3>4. CASE k # m
      <4>1. k \in 0 .. m - 1
        BY <1>2, <3>4
      <4>2. g[k] = IF k = 0 THEN 1 ELSE 2 * g[k - 1]
        BY <2>2, <4>1 DEF DoublesUpTo
      <4>3. h[k] = g[k]
        BY <2>3, <3>1, <3>4
      <4> QED BY <3>2, <4>2, <4>3
    <3> QED BY <3>3, <3>4
  <2> QED BY <1>2, <2>4
<1> QED BY <1>3, <1>4

\* Two of them agree.
LEMMA DoublesAgree ==
  ASSUME NEW i \in Nat, NEW j \in Nat, NEW g, NEW h,
         DoublesUpTo(g, i), DoublesUpTo(h, j)
  PROVE  \A k \in Nat : k <= i /\ k <= j => g[k] = h[k]
<1> DEFINE T == {k \in Nat : k <= i /\ k <= j /\ g[k] # h[k]}
<1> SUFFICES ASSUME T # {} PROVE FALSE
  OBVIOUS
<1>1. PICK m \in T : \A k \in T : m <= k
  BY LeastNatural
<1>2. m \in Nat /\ m <= i /\ m <= j /\ g[m] # h[m]
  OBVIOUS
<1>3. m # 0 => m - 1 \in Nat /\ m - 1 \notin T
  BY <1>1, <1>2
<1>4. m # 0 => g[m - 1] = h[m - 1]
  BY <1>2, <1>3
<1>5. m \in 0 .. i /\ m \in 0 .. j
  BY <1>2
<1> HIDE DEF T
<1>6. /\ g[m] = IF m = 0 THEN 1 ELSE 2 * g[m - 1]
      /\ h[m] = IF m = 0 THEN 1 ELSE 2 * h[m - 1]
  BY <1>5 DEF DoublesUpTo
<1> QED BY <1>2, <1>4, <1>6

\* The recursive definition has the function it describes.
LEMMA PowerIs ==
  /\ PowerOfTwo[0] = 1
  /\ \A n \in Nat : PowerOfTwo[n + 1] = 2 * PowerOfTwo[n]
<1> DEFINE part(n) == CHOOSE g : DoublesUpTo(g, n)
<1>1. \A n \in Nat : DoublesUpTo(part(n), n)
  BY DoublesUpToExist
<1> HIDE DEF part
<1>2. PICK whole : whole = [n \in Nat |-> part(n)[n]]
  OBVIOUS
<1>3. \A n \in Nat : whole[n] = IF n = 0 THEN 1 ELSE 2 * whole[n - 1]
  <2> SUFFICES ASSUME NEW n \in Nat
               PROVE  whole[n] = IF n = 0 THEN 1 ELSE 2 * whole[n - 1]
    OBVIOUS
  <2>1. n \in 0 .. n
    OBVIOUS
  <2>2. part(n)[n] = IF n = 0 THEN 1 ELSE 2 * part(n)[n - 1]
    BY <1>1, <2>1 DEF DoublesUpTo
  <2>3. n # 0 => n - 1 \in Nat /\ n - 1 <= n
    OBVIOUS
  <2>4. n # 0 => part(n)[n - 1] = part(n - 1)[n - 1]
    <3> SUFFICES ASSUME n # 0 PROVE part(n)[n - 1] = part(n - 1)[n - 1]
      OBVIOUS
    <3>1. PICK j \in Nat : j = n - 1
      BY <2>3
    <3>2. DoublesUpTo(part(n), n) /\ DoublesUpTo(part(j), j) /\ j <= n /\ j <= j
      BY <1>1, <2>3, <3>1
    <3>3. part(n)[j] = part(j)[j]
      BY <3>2, DoublesAgree
    <3> QED BY <3>1, <3>3
  <2> QED BY <1>2, <2>2, <2>3, <2>4
<1>4. Doubles(whole)
  <2>1. whole = [n \in Nat |-> whole[n]]
    BY <1>2
  <2> QED BY <1>3, <2>1 DEF Doubles
<1>5. Doubles(PowerOfTwo)
  <2> DEFINE it == CHOOSE g : g = [n \in Nat |-> IF n = 0 THEN 1 ELSE 2 * g[n - 1]]
  <2>1. PowerOfTwo = it
    BY DEF PowerOfTwo
  <2>2. Doubles(it)
    BY <1>4 DEF Doubles
  <2> QED BY <2>1, <2>2
<1>6. \A n \in Nat : PowerOfTwo[n] = IF n = 0 THEN 1 ELSE 2 * PowerOfTwo[n - 1]
  BY <1>5 DEF Doubles
<1>7. PowerOfTwo[0] = 1
  BY <1>6
<1>8. ASSUME NEW n \in Nat PROVE PowerOfTwo[n + 1] = 2 * PowerOfTwo[n]
  <2>1. n + 1 \in Nat /\ n + 1 # 0 /\ (n + 1) - 1 = n
    OBVIOUS
  <2> QED BY <1>6, <2>1
<1> QED BY <1>7, <1>8

\* A power is positive.
LEMMA PowerIn == \A n \in Nat : PowerOfTwo[n] \in Denominators
<1> DEFINE T == {n \in Nat : PowerOfTwo[n] \notin Denominators}
<1> SUFFICES ASSUME T # {} PROVE FALSE
  OBVIOUS
<1>1. PICK m \in T : \A k \in T : m <= k
  BY LeastNatural
<1>2. m \in Nat /\ PowerOfTwo[m] \notin Denominators
  OBVIOUS
<1>3. m # 0
  BY <1>2, PowerIs DEF Denominators
<1>4. PICK j \in Nat : m = j + 1
  <2>1. m - 1 \in Nat /\ m = (m - 1) + 1
    BY <1>2, <1>3
  <2> QED BY <2>1
<1>5. j \notin T
  BY <1>1, <1>4
<1>6. PowerOfTwo[j] \in Denominators
  BY <1>5
<1>7. PowerOfTwo[m] = 2 * PowerOfTwo[j]
  BY <1>4, PowerIs
<1> HIDE DEF T
<1>8. 2 * PowerOfTwo[j] \in Denominators
  BY <1>6 DEF Denominators
<1> QED BY <1>2, <1>7, <1>8

\* The power of a sum is a product.
LEMMA PowerOfSum ==
  ASSUME NEW i \in Nat
  PROVE  \A j \in Nat : PowerOfTwo[i + j] = PowerOfTwo[i] * PowerOfTwo[j]
<1> DEFINE T == {j \in Nat : PowerOfTwo[i + j] # PowerOfTwo[i] * PowerOfTwo[j]}
<1> SUFFICES ASSUME T # {} PROVE FALSE
  OBVIOUS
<1>1. PICK m \in T : \A k \in T : m <= k
  BY LeastNatural
<1>2. m \in Nat /\ PowerOfTwo[i + m] # PowerOfTwo[i] * PowerOfTwo[m]
  OBVIOUS
<1>3. m # 0
  <2> SUFFICES ASSUME m = 0 PROVE FALSE
    OBVIOUS
  <2>1. i + m = i /\ PowerOfTwo[m] = 1 /\ PowerOfTwo[i] \in Int
    BY PowerIs, PowerIn DEF Denominators
  <2>2. PowerOfTwo[i] * 1 = PowerOfTwo[i]
    BY <2>1
  <2> QED BY <1>2, <2>1, <2>2
<1>4. PICK j \in Nat : m = j + 1
  <2>1. m - 1 \in Nat /\ m = (m - 1) + 1
    BY <1>2, <1>3
  <2> QED BY <2>1
<1>5. j \notin T
  BY <1>1, <1>4
<1>6. PowerOfTwo[i + j] = PowerOfTwo[i] * PowerOfTwo[j]
  BY <1>5
<1> HIDE DEF T
<1>7. PowerOfTwo[m] = 2 * PowerOfTwo[j]
  BY <1>4, PowerIs
<1>8. PowerOfTwo[i + m] = 2 * PowerOfTwo[i + j]
  <2>1. i + j \in Nat /\ i + m = (i + j) + 1
    BY <1>4
  <2> QED BY <2>1, PowerIs
<1>9. PICK a \in Int, b \in Int : a = PowerOfTwo[i] /\ b = PowerOfTwo[j]
  BY PowerIn DEF Denominators
<1>10. 2 * (a * b) = a * (2 * b)
  OBVIOUS
<1> QED BY <1>2, <1>6, <1>7, <1>8, <1>9, <1>10

-----------------------------------------------------------------------------
(* Scaling, and the paths of a pricer.                                     *)

\* A number is scaled by a quotient of powers.
LEMMA ScaledIs ==
  ASSUME NEW a \in Int, NEW p \in Denominators, NEW i \in Nat, NEW j \in Nat
  PROVE  Scaled(Lowest(a, p), i - j) = Lowest(a * PowerOfTwo[i], p * PowerOfTwo[j])
<1>1. PICK c \in Denominators, d \in Denominators :
        c = PowerOfTwo[i] /\ d = PowerOfTwo[j]
  BY PowerIn
<1>2. a * c \in Int /\ p * d \in Denominators
  BY ProductPositive DEF Denominators
<1>3. CASE i >= j
  <2>1. PICK k \in Nat : k = i - j /\ k + j = i
    BY <1>3
  <2>2. PICK b \in Denominators : b = PowerOfTwo[k]
    BY <2>1, PowerIn
  <2>3. c = b * d
    BY <1>1, <2>1, <2>2, PowerOfSum
  <2>4. Scaled(Lowest(a, p), k) = Times(Lowest(a, p), Rational(b))
    BY <2>1, <2>2 DEF Scaled
  <2>5. Times(Lowest(a, p), Rational(b)) = Lowest(a * b, p)
    <3>1. b \in Int /\ 1 \in Denominators /\ p * 1 = p
      BY DEF Denominators
    <3> QED BY <3>1, WholeQuotient, TimesQuotients
  <2>6. (a * b) * (p * d) = (a * (b * d)) * p /\ a * b \in Int
    BY DEF Denominators
  <2>7. Lowest(a * b, p) = Lowest(a * c, p * d)
    BY <1>2, <2>3, <2>6, SameQuotient
  <2> QED BY <1>1, <2>1, <2>4, <2>5, <2>7
<1>4. CASE ~(i >= j)
  <2>1. PICK k \in Nat : k = -(i - j) /\ k + i = j /\ ~(i - j >= 0)
    BY <1>4
  <2>2. PICK b \in Denominators : b = PowerOfTwo[k]
    BY <2>1, PowerIn
  <2>3. d = b * c
    BY <1>1, <2>1, <2>2, PowerOfSum
  <2>4. Scaled(Lowest(a, p), i - j) = Over(Lowest(a, p), b)
    BY <2>1, <2>2 DEF Scaled
  <2>5. Over(Lowest(a, p), b) = Lowest(a, p * b)
    BY OverQuotient
  <2>6. a * (p * (b * c)) = (a * c) * (p * b)
    BY DEF Denominators
  <2>7. p * b \in Denominators
    BY ProductPositive
  <2>8. Lowest(a, p * b) = Lowest(a * c, p * d)
    BY <1>2, <2>3, <2>6, <2>7, SameQuotient
  <2> QED BY <1>1, <2>4, <2>5, <2>8
<1> QED BY <1>3, <1>4

\* An integer is a difference of natural numbers.
LEMMA Difference ==
  ASSUME NEW e \in Int
  PROVE  \E i, j \in Nat : e = i - j
<1>1. CASE e >= 0
  <2>1. e \in Nat /\ 0 \in Nat /\ e = e - 0
    BY <1>1
  <2> QED BY <2>1
<1>2. CASE ~(e >= 0)
  <2>1. -e \in Nat /\ 0 \in Nat /\ e = 0 - (-e)
    BY <1>2
  <2> QED BY <2>1
<1> QED BY <1>1, <1>2

\* To scale twice is to scale once, with the sum.
LEMMA ScaledTwice ==
  ASSUME NEW r \in Quotients, NEW e \in Int, NEW f \in Int
  PROVE  Scaled(r, e) \in Quotients /\ Scaled(Scaled(r, e), f) = Scaled(r, e + f)
<1>1. PICK a \in Int, p \in Denominators : r = Lowest(a, p)
  BY DEF Quotients
<1>2. PICK i \in Nat, j \in Nat : e = i - j
  BY Difference
<1>3. PICK k \in Nat, l \in Nat : f = k - l
  BY Difference
<1>4. PICK c \in Denominators, d \in Denominators :
        c = PowerOfTwo[i] /\ d = PowerOfTwo[j]
  BY PowerIn
<1>5. PICK g \in Denominators, h \in Denominators :
        g = PowerOfTwo[k] /\ h = PowerOfTwo[l]
  BY PowerIn
<1>6. Scaled(r, e) = Lowest(a * c, p * d)
  BY <1>1, <1>2, <1>4, ScaledIs
<1>7. a * c \in Int /\ p * d \in Denominators
  BY ProductPositive DEF Denominators
<1>8. Scaled(Lowest(a * c, p * d), f) = Lowest((a * c) * g, (p * d) * h)
  BY <1>3, <1>5, <1>7, ScaledIs
<1>9. Scaled(r, (i + k) - (j + l)) = Lowest(a * (c * g), p * (d * h))
  <2>1. i + k \in Nat /\ j + l \in Nat
    OBVIOUS
  <2>2. PowerOfTwo[i + k] = c * g /\ PowerOfTwo[j + l] = d * h
    BY <1>4, <1>5, PowerOfSum
  <2> QED BY <1>1, <2>1, <2>2, ScaledIs
<1>10. e + f = (i + k) - (j + l)
  BY <1>2, <1>3
<1>11. (a * c) * g = a * (c * g) /\ (p * d) * h = p * (d * h)
  BY DEF Denominators
<1> QED BY <1>6, <1>7, <1>8, <1>9, <1>10, <1>11, QuotientIn

\* Scaling by 0 changes nothing.
LEMMA ScaledByNothing ==
  ASSUME NEW r \in Quotients
  PROVE  Scaled(r, 0) = r
<1>1. PICK a \in Int, p \in Denominators : r = Lowest(a, p)
  BY DEF Quotients
<1>2. Scaled(Lowest(a, p), 0 - 0) = Lowest(a * PowerOfTwo[0], p * PowerOfTwo[0])
  BY ScaledIs
<1>3. a * 1 = a /\ p * 1 = p /\ 0 - 0 = 0
  BY DEF Denominators
<1> QED BY <1>1, <1>2, <1>3, PowerIs

\* Whole numbers are added as integers are.
LEMMA WholesAdd ==
  ASSUME NEW a \in Int, NEW b \in Int
  PROVE  Plus(Rational(a), Rational(b)) = Rational(a + b)
<1>1. 1 \in Denominators /\ a + b \in Int
  BY DEF Denominators
<1> QED BY <1>1, WholeQuotient, PlusQuotients

\* The draws of one path as rationals, and the sum of the first of them.
Wholes(n, z) == [k \in 1 .. n |-> Rational(z[k])]
SumOfDraws(n, z, j) == TotalOver(Wholes(n, z), 1 .. j).num

\* The sums are whole numbers, and each adds a draw.
LEMMA DrawsAdd ==
  ASSUME NEW n \in Nat, NEW z, \A k \in 1 .. n : z[k] \in Int, NEW j \in 0 .. n
  PROVE  /\ SumOfDraws(n, z, j) \in Int
         /\ TotalOver(Wholes(n, z), 1 .. j) = Rational(SumOfDraws(n, z, j))
         /\ SumOfDraws(n, z, 0) = 0
         /\ j < n => SumOfDraws(n, z, j + 1) = z[j + 1] + SumOfDraws(n, z, j)
<1>1. PICK f : f = Wholes(n, z)
  OBVIOUS
<1>2. \A k \in 1 .. n : f[k] = Rational(z[k]) /\ f[k] \in Quotients
  BY <1>1, WholeIn DEF Wholes
<1>3. TotalOver(f, 1 .. 0) = Rational(0)
  <2>1. 1 .. 0 = {}
    OBVIOUS
  <2> QED BY <2>1, TotalEmpty DEF Nought
<1>4. \A a : Rational(a).num = a
  BY DEF Rational
<1>5. \A i \in Nat : i + 1 <= n =>
        TotalOver(f, 1 .. i + 1) = Plus(Rational(z[i + 1]), TotalOver(f, 1 .. i))
  <2> SUFFICES ASSUME NEW i \in Nat, i + 1 <= n
               PROVE  TotalOver(f, 1 .. i + 1)
                        = Plus(Rational(z[i + 1]), TotalOver(f, 1 .. i))
    OBVIOUS
  <2>1. \A k \in 1 .. i + 1 : f[k] \in Quotients
    BY <1>2
  <2>2. f[i + 1] = Rational(z[i + 1])
    BY <1>2
  <2> QED BY <2>1, <2>2, TotalOfNext
<1> DEFINE Right(i) == \E w \in Int : TotalOver(f, 1 .. i) = Rational(w)
           T == {i \in Nat : i <= n /\ ~Right(i)}
<1>6. ASSUME T # {} PROVE FALSE
  <2>1. PICK m \in T : \A k \in T : m <= k
    <3>1. T \subseteq Nat
      OBVIOUS
    <3> HIDE DEF T
    <3> QED BY <1>6, <3>1, LeastNatural
  <2>2. m \in Nat /\ m <= n /\ ~Right(m)
    OBVIOUS
  <2>3. m # 0
    BY <1>3, <2>2
  <2>4. PICK i \in Nat : m = i + 1
    <3>1. m - 1 \in Nat /\ m = (m - 1) + 1
      BY <2>2, <2>3
    <3> QED BY <3>1
  <2>5. Right(i)
    <3>1. i \in Nat /\ i <= n /\ ~(m <= i)
      BY <2>2, <2>4
    <3>2. i \notin T
      <4> HIDE DEF T
      <4> QED BY <2>1, <3>1
    <3> QED BY <3>1, <3>2
  <2>6. PICK w \in Int : TotalOver(f, 1 .. i) = Rational(w)
    BY <2>5
  <2>7. z[i + 1] \in Int /\ i + 1 <= n
    BY <2>2, <2>4
  <2>8. TotalOver(f, 1 .. i + 1) = Rational(z[i + 1] + w)
    BY <1>5, <2>6, <2>7, WholesAdd
  <2>9. z[i + 1] + w \in Int
    BY <2>7
  <2> QED BY <2>2, <2>4, <2>8, <2>9
<1>7. \A i \in Nat : i <= n => Right(i)
  BY <1>6
<1>8. \A i \in Nat : i <= n =>
        \E w \in Int : /\ TotalOver(f, 1 .. i) = Rational(w)
                       /\ TotalOver(f, 1 .. i).num = w
  BY <1>4, <1>7
<1> HIDE DEF Right, T
<1>9. PICK w \in Int : /\ TotalOver(f, 1 .. j) = Rational(w)
                       /\ TotalOver(f, 1 .. j).num = w
  BY <1>8
<1>10. SumOfDraws(n, z, j) = w
  BY <1>1, <1>9 DEF SumOfDraws
<1>11. SumOfDraws(n, z, 0) = 0
  BY <1>1, <1>3, <1>4 DEF SumOfDraws
<1>12. ASSUME j < n PROVE SumOfDraws(n, z, j + 1) = z[j + 1] + w
  <2>1. j \in Nat /\ j + 1 <= n /\ z[j + 1] \in Int
    BY <1>12
  <2>2. TotalOver(f, 1 .. j + 1) = Rational(z[j + 1] + w)
    BY <1>5, <1>9, <2>1, WholesAdd
  <2> QED BY <1>1, <1>4, <2>2 DEF SumOfDraws
<1> QED BY <1>1, <1>9, <1>10, <1>11, <1>12

\* The negated draws have the negated sums.
LEMMA DrawsNegated ==
  ASSUME NEW n \in Nat, NEW z, \A k \in 1 .. n : z[k] \in Int,
         NEW y, \A k \in 1 .. n : y[k] = -z[k]
  PROVE  SumOfDraws(n, y, n) = -SumOfDraws(n, z, n)
<1>1. \A k \in 1 .. n : y[k] \in Int
  OBVIOUS
<1>2. PICK w : w = [j \in 0 .. n |-> SumOfDraws(n, z, j)]
  OBVIOUS
<1>3. PICK v : v = [j \in 0 .. n |-> SumOfDraws(n, y, j)]
  OBVIOUS
<1>4. /\ w[0] = 0 /\ \A j \in 0 .. n : w[j] \in Int
      /\ \A j \in 0 .. n : j < n => w[j + 1] = z[j + 1] + w[j]
  <2>1. \A j \in 0 .. n : j < n => j + 1 \in 0 .. n
    OBVIOUS
  <2>2. 0 \in 0 .. n
    OBVIOUS
  <2> QED BY <1>2, <2>1, <2>2, DrawsAdd
<1>5. /\ v[0] = 0 /\ \A j \in 0 .. n : v[j] \in Int
      /\ \A j \in 0 .. n : j < n => v[j + 1] = y[j + 1] + v[j]
  <2>1. \A j \in 0 .. n : j < n => j + 1 \in 0 .. n
    OBVIOUS
  <2>2. 0 \in 0 .. n
    OBVIOUS
  <2> QED BY <1>1, <1>3, <2>1, <2>2, DrawsAdd
<1> DEFINE T == {j \in Nat : j <= n /\ v[j] # -w[j]}
<1>6. ASSUME T # {} PROVE FALSE
  <2>1. PICK m \in T : \A k \in T : m <= k
    <3>1. T \subseteq Nat
      OBVIOUS
    <3> HIDE DEF T
    <3> QED BY <1>6, <3>1, LeastNatural
  <2>2. m \in Nat /\ m <= n /\ v[m] # -w[m]
    OBVIOUS
  <2>3. m # 0
    BY <1>4, <1>5, <2>2
  <2>4. PICK i \in Nat : m = i + 1
    <3>1. m - 1 \in Nat /\ m = (m - 1) + 1
      BY <2>2, <2>3
    <3> QED BY <3>1
  <2>5. i \in 0 .. n /\ i < n /\ i + 1 \in 1 .. n
    BY <2>2, <2>4
  <2>6. v[i] = -w[i]
    <3>1. i \notin T
      BY <2>1, <2>4
    <3> QED BY <2>5, <3>1
  <2>7. w[i + 1] = z[i + 1] + w[i] /\ v[i + 1] = y[i + 1] + v[i]
    BY <1>4, <1>5, <2>5
  <2>8. z[i + 1] \in Int /\ w[i] \in Int /\ y[i + 1] = -z[i + 1]
    BY <1>4, <2>5
  <2>9. v[i + 1] = -w[i + 1]
    BY <2>6, <2>7, <2>8
  <2> QED BY <2>2, <2>4, <2>9
<1>7. n \in Nat /\ n <= n /\ n \in 0 .. n
  OBVIOUS
<1>8. v[n] = -w[n]
  BY <1>6, <1>7
<1> QED BY <1>2, <1>3, <1>7, <1>8

\* A path of n steps from the draws z, and the closed form of its prices.
IsPath(path, n, z) ==
  path = [k \in 0 .. n |-> IF k = 0 THEN Rational(Spot)
                           ELSE Scaled(path[k - 1], Drift + Vol * z[k])]
Closed(n, z) ==
  [k \in 0 .. n |-> Scaled(Rational(Spot), k * Drift + Vol * SumOfDraws(n, z, k))]

\* The closed form is a path.
LEMMA ClosedIsPath ==
  ASSUME PricerAssumption, NEW n \in Nat, NEW z, \A k \in 1 .. n : z[k] \in Int
  PROVE  IsPath(Closed(n, z), n, z)
<1>1. Drift \in Int /\ Vol \in Int /\ Rational(Spot) \in Quotients
  BY WholeIn DEF PricerAssumption
<1>2. PICK path : path = Closed(n, z)
  OBVIOUS
<1>3. \A k \in 0 .. n :
        path[k] = Scaled(Rational(Spot), k * Drift + Vol * SumOfDraws(n, z, k))
  BY <1>2 DEF Closed
<1>4. ASSUME NEW k \in 0 .. n
      PROVE  path[k] = IF k = 0 THEN Rational(Spot)
                       ELSE Scaled(path[k - 1], Drift + Vol * z[k])
  <2>1. CASE k = 0
    <3>1. SumOfDraws(n, z, 0) = 0
      BY DrawsAdd, <2>1
    <3>2. 0 * Drift + Vol * 0 = 0
      BY <1>1
    <3> QED BY <1>1, <1>3, <2>1, <3>1, <3>2, ScaledByNothing
  <2>2. CASE k # 0
    <3>1. PICK j \in 0 .. n : k = j + 1 /\ j < n /\ j = k - 1
      <4>1. k - 1 \in 0 .. n /\ k = (k - 1) + 1 /\ k - 1 < n
        BY <2>2
      <4> QED BY <4>1
    <3>2. PICK w \in Int : w = SumOfDraws(n, z, j)
      BY DrawsAdd
    <3>3. PICK d \in Int : d = z[k]
      BY <2>2
    <3>4. SumOfDraws(n, z, k) = d + w
      BY <3>1, <3>2, <3>3, DrawsAdd
    <3>5. PICK e \in Int, f \in Int : e = j * Drift + Vol * w /\ f = Drift + Vol * d
      BY <1>1
    <3>6. e + f = k * Drift + Vol * (d + w)
      BY <1>1, <3>1, <3>5
    <3>7. path[j] = Scaled(Rational(Spot), e)
      BY <1>3, <3>2, <3>5
    <3>8. path[k] = Scaled(Rational(Spot), e + f)
      BY <1>3, <3>4, <3>6
    <3>9. Scaled(path[j], f) = path[k]
      BY <1>1, <3>7, <3>8, ScaledTwice
    <3> QED BY <2>2, <3>1, <3>3, <3>5, <3>9
  <2> QED BY <2>1, <2>2
<1>5. path = [k \in 0 .. n |-> path[k]]
  BY <1>2 DEF Closed
<1>6. IsPath(path, n, z)
  BY <1>4, <1>5 DEF IsPath
<1> QED BY <1>2, <1>6

\* There is no other path.
LEMMA PathsAgree ==
  ASSUME NEW n \in Nat, NEW z, NEW p, NEW q, IsPath(p, n, z), IsPath(q, n, z)
  PROVE  \A k \in 0 .. n : p[k] = q[k]
<1>1. \A k \in 0 .. n :
        /\ p[k] = IF k = 0 THEN Rational(Spot)
                  ELSE Scaled(p[k - 1], Drift + Vol * z[k])
        /\ q[k] = IF k = 0 THEN Rational(Spot)
                  ELSE Scaled(q[k - 1], Drift + Vol * z[k])
  <2>1. \A k \in 0 .. n :
          p[k] = IF k = 0 THEN Rational(Spot)
                 ELSE Scaled(p[k - 1], Drift + Vol * z[k])
    BY DEF IsPath
  <2>2. \A k \in 0 .. n :
          q[k] = IF k = 0 THEN Rational(Spot)
                 ELSE Scaled(q[k - 1], Drift + Vol * z[k])
    BY DEF IsPath
  <2> QED BY <2>1, <2>2
<1> DEFINE T == {k \in Nat : k <= n /\ p[k] # q[k]}
<1>2. ASSUME T # {} PROVE FALSE
  <2>1. PICK m \in T : \A k \in T : m <= k
    <3>1. T \subseteq Nat
      OBVIOUS
    <3> HIDE DEF T
    <3> QED BY <1>2, <3>1, LeastNatural
  <2>2. m \in Nat /\ m <= n /\ p[m] # q[m] /\ m \in 0 .. n
    OBVIOUS
  <2>3. m # 0
    BY <1>1, <2>2
  <2>4. m - 1 \in Nat /\ m - 1 \notin T
    BY <2>1, <2>2, <2>3
  <2>5. p[m - 1] = q[m - 1]
    BY <2>2, <2>4
  <2> HIDE DEF T
  <2> QED BY <1>1, <2>2, <2>3, <2>5
<1> QED BY <1>2

\* What each program in the model is.
LEMMA ProgramIs ==
  ASSUME PricerAssumption, program \in Programs
  PROVE  /\ program.num_steps \in Nat /\ program.num_paths \in Nat
         /\ Steps = 1 .. program.num_steps
BY DEF PricerAssumption, Programs, Steps

\* AtExpiry over the sums of the draws.
LEMMA AtExpiryIs ==
  ASSUME PricerAssumption, program \in Programs,
         NEW n, n = program.num_steps,
         NEW z, \A k \in Steps : z[k] \in Int, NEW sign \in Int
  PROVE  /\ SumOfDraws(n, z, n) \in Int
         /\ AtExpiry(z, sign)
              = Scaled(Rational(Spot), n * Drift + sign * Vol * SumOfDraws(n, z, n))
         /\ AtExpiry(z, sign) \in Quotients
<1>1. n \in Nat /\ Steps = 1 .. n
  BY ProgramIs
<1>2. PICK f : f = Wholes(n, z)
  OBVIOUS
<1>3. f = [k \in Steps |-> Rational(z[k])] /\ DOMAIN f = 1 .. n
  BY <1>1, <1>2 DEF Wholes
<1>4. Total(f).num = SumOfDraws(n, z, n)
  <2>1. Total(f) = TotalOver(f, 1 .. n)
    BY <1>1, <1>3, TotalOfSeq
  <2> QED BY <1>2, <2>1 DEF SumOfDraws
<1>5. AtExpiry(z, sign)
        = Scaled(Rational(Spot), n * Drift + sign * Vol * Total(f).num)
  BY <1>1, <1>3 DEF AtExpiry
<1>6. SumOfDraws(n, z, n) \in Int
  <2>1. n \in 0 .. n /\ \A k \in 1 .. n : z[k] \in Int
    BY <1>1
  <2> QED BY <1>1, <2>1, DrawsAdd
<1>7. PICK w \in Int : w = n * Drift + sign * Vol * SumOfDraws(n, z, n)
  <2>1. PICK v \in Int : v = SumOfDraws(n, z, n)
    BY <1>6
  <2>2. n * Drift + sign * Vol * v \in Int
    BY <1>1 DEF PricerAssumption
  <2> QED BY <2>1, <2>2
<1>8. Rational(Spot) \in Quotients
  BY WholeIn DEF PricerAssumption
<1>9. Scaled(Rational(Spot), w) \in Quotients
  BY <1>8, ScaledTwice
<1> QED BY <1>1, <1>4, <1>5, <1>6, <1>7, <1>9

\* The last price of the path that is generated.
LEMMA PathEnds ==
  ASSUME PricerAssumption, program \in Programs,
         NEW z, \A k \in Steps : z[k] \in Int
  PROVE  generate_path(z)[program.num_steps] = AtExpiry(z, 1)
<1>1. PICK n \in Nat : n = program.num_steps /\ Steps = 1 .. n
  BY ProgramIs
<1>2. IsPath(Closed(n, z), n, z)
  BY <1>1, ClosedIsPath
<1>3. IsPath(generate_path(z), n, z)
  <2> DEFINE it == CHOOSE path :
                     path = [k \in 0 .. n |-> IF k = 0 THEN Rational(Spot)
                                   ELSE Scaled(path[k - 1], Drift + Vol * z[k])]
  <2>1. generate_path(z) = it
    BY <1>1 DEF generate_path
  <2>2. IsPath(it, n, z)
    BY <1>2 DEF IsPath
  <2> QED BY <2>1, <2>2
<1>4. n \in 0 .. n
  OBVIOUS
<1>5. generate_path(z)[n] = Closed(n, z)[n]
  BY <1>2, <1>3, <1>4, PathsAgree
<1>6. PICK w \in Int : w = SumOfDraws(n, z, n)
  BY <1>1, <1>4, DrawsAdd
<1>7. Closed(n, z)[n] = Scaled(Rational(Spot), n * Drift + Vol * w)
  BY <1>4, <1>6 DEF Closed
<1>8. AtExpiry(z, 1) = Scaled(Rational(Spot), n * Drift + 1 * Vol * w)
  <2>1. 1 \in Int
    OBVIOUS
  <2> QED BY <1>1, <1>6, <2>1, AtExpiryIs
<1>9. n * Drift + 1 * Vol * w = n * Drift + Vol * w
  BY DEF PricerAssumption
<1> QED BY <1>1, <1>5, <1>7, <1>8, <1>9

\* The negated draws end where the closed form with the other sign says.
LEMMA NegatedEnds ==
  ASSUME PricerAssumption, program \in Programs,
         NEW z, \A k \in Steps : z[k] \in Int
  PROVE  LET y == [k \in Steps |-> -z[k]]
         IN  generate_path(y)[program.num_steps] = AtExpiry(z, -1)
<1>1. PICK n \in Nat : n = program.num_steps /\ Steps = 1 .. n
  BY ProgramIs
<1>2. PICK y : y = [k \in Steps |-> -z[k]]
  OBVIOUS
<1>3. (\A k \in Steps : y[k] \in Int) /\ \A k \in 1 .. n : y[k] = -z[k]
  BY <1>1, <1>2
<1>4. generate_path(y)[n] = AtExpiry(y, 1)
  BY <1>1, <1>3, PathEnds
<1>5. PICK w \in Int : w = SumOfDraws(n, z, n)
  BY <1>1, AtExpiryIs
<1>6. SumOfDraws(n, y, n) = -w
  BY <1>1, <1>3, <1>5, DrawsNegated
<1>7. AtExpiry(y, 1) = Scaled(Rational(Spot), n * Drift + 1 * Vol * (-w))
  <2>1. 1 \in Int
    OBVIOUS
  <2> QED BY <1>1, <1>3, <1>6, <2>1, AtExpiryIs
<1>8. AtExpiry(z, -1) = Scaled(Rational(Spot), n * Drift + (-1) * Vol * w)
  <2>1. -1 \in Int
    OBVIOUS
  <2> QED BY <1>1, <1>5, <2>1, AtExpiryIs
<1>9. n * Drift + 1 * Vol * (-w) = n * Drift + (-1) * Vol * w
  BY DEF PricerAssumption
<1> QED BY <1>1, <1>2, <1>4, <1>7, <1>8, <1>9

\* What a path of program p ends at, what is paid there, and what the draws
\* are worth: the closed forms as functions of the program.
EndsAt(p, z, sign) ==
  Scaled(Rational(Spot),
         p.num_steps * Drift + sign * Vol * SumOfDraws(p.num_steps, z, p.num_steps))
Gains(p, s) ==
  LET gain == Minus(s, Rational(Strike))
  IN  Positive(IF p.payoff = "call" THEN gain ELSE Minus(Nought, gain))
Worth(p, z) ==
  IF p.name = "price_antithetic"
  THEN Over(Plus(Gains(p, EndsAt(p, z, 1)), Gains(p, EndsAt(p, z, -1))), 2)
  ELSE Gains(p, EndsAt(p, z, 1))

\* Payoffs are numbers.
LEMMA PayoffIn ==
  ASSUME PricerAssumption, NEW p, NEW s \in Quotients
  PROVE  Gains(p, s) \in Quotients
<1>1. Rational(Strike) \in Quotients /\ Nought \in Quotients
  BY WholeIn, NoughtIn DEF PricerAssumption
<1>2. PICK gain \in Quotients : gain = Minus(s, Rational(Strike))
  BY <1>1, OperationsIn
<1>3. Minus(Nought, gain) \in Quotients
  BY <1>1, OperationsIn
<1> QED BY <1>1, <1>2, <1>3 DEF Gains, Positive

\* What is paid on a path and on its mirror image, and their mean.
LEMMA SampleIs ==
  ASSUME PricerAssumption, program \in Programs,
         NEW z, \A k \in Steps : z[k] \in Int
  PROVE  /\ payoff(generate_path(z)) = Gains(program, EndsAt(program, z, 1))
         /\ payoff(generate_path([k \in Steps |-> -z[k]]))
              = Gains(program, EndsAt(program, z, -1))
         /\ Gains(program, EndsAt(program, z, 1)) \in Quotients
         /\ Gains(program, EndsAt(program, z, -1)) \in Quotients
         /\ Worth(program, z) \in Quotients
         /\ Sample(z) = Worth(program, z)
<1>1. 1 \in Int /\ -1 \in Int
  OBVIOUS
<1>2. /\ AtExpiry(z, 1) = EndsAt(program, z, 1)
      /\ AtExpiry(z, -1) = EndsAt(program, z, -1)
      /\ AtExpiry(z, 1) \in Quotients /\ AtExpiry(z, -1) \in Quotients
  <2>1. /\ AtExpiry(z, 1) = EndsAt(program, z, 1)
        /\ AtExpiry(z, 1) \in Quotients
    BY <1>1, AtExpiryIs DEF EndsAt
  <2>2. /\ AtExpiry(z, -1) = EndsAt(program, z, -1)
        /\ AtExpiry(z, -1) \in Quotients
    BY <1>1, AtExpiryIs DEF EndsAt
  <2> QED BY <2>1, <2>2
<1>3. \A s : PayoffAt(s) = Gains(program, s)
  BY DEF PayoffAt, Gains
<1>4. payoff(generate_path(z)) = PayoffAt(AtExpiry(z, 1))
  BY PathEnds DEF payoff, PayoffAt
<1>5. payoff(generate_path([k \in Steps |-> -z[k]])) = PayoffAt(AtExpiry(z, -1))
  BY NegatedEnds DEF payoff, PayoffAt
<1>6. PICK p \in Quotients, q \in Quotients :
        /\ p = Gains(program, EndsAt(program, z, 1))
        /\ q = Gains(program, EndsAt(program, z, -1))
  BY <1>2, PayoffIn
<1>7. Plus(p, q) \in Quotients /\ 2 \in Denominators
  BY OperationsIn DEF Denominators
<1>8. Over(Plus(p, q), 2) \in Quotients
  BY <1>7, OverIn
<1>9. Worth(program, z) \in Quotients
  BY <1>6, <1>8 DEF Worth
<1>10. Sample(z) = Worth(program, z)
  BY <1>2, <1>3 DEF Sample, Worth, Antithetic
<1> QED BY <1>2, <1>3, <1>4, <1>5, <1>6, <1>9, <1>10

-----------------------------------------------------------------------------
(* The invariant of the pricers: samples holds what the finished paths are *)
(* worth, and the path at hand is the last that was drawn.                 *)

Last(s) == s[Len(s)]

PricerInv ==
  /\ StatsInv
  /\ program \in Programs
  /\ pc \in {"loop", "path", "mirror", "returned"}
  /\ drawn \in Seq([1 .. program.num_steps -> Int])
  /\ Len(drawn) <= program.num_paths
  /\ program.name = "stats" => pc = "loop"
  /\ program.name # "stats" =>
       /\ Len(drawn) = IF pc \in {"path", "mirror"} THEN Len(samples) + 1
                                                    ELSE Len(samples)
       /\ \A k \in 1 .. Len(samples) : samples[k] = Worth(program, drawn[k])
  /\ pc = "path" => variates = Last(drawn)
  /\ pc = "mirror" => /\ Antithetic
                      /\ first = Gains(program, EndsAt(program, Last(drawn), 1))
                      /\ variates = [k \in 1 .. program.num_steps |->
                                       -Last(drawn)[k]]
  /\ pc = "returned" =>
       /\ Len(drawn) = program.num_paths
       /\ result =
            [price |-> Times(mean_, Discount),
             error2 |-> IF program.num_paths = 0 THEN Undefined
                        ELSE Times(Over(SampleVariance, program.num_paths),
                                   Times(Discount, Discount))]

\* A draw begins a path.
LEMMA DrawKeeps == PricerAssumption /\ PricerInv /\ Draw => PricerInv'
<1> SUFFICES ASSUME PricerAssumption, PricerInv, Draw PROVE PricerInv'
  OBVIOUS
<1>1. /\ pc = "loop" /\ program.name # "stats"
      /\ Len(drawn) < program.num_paths
      /\ variates' \in [Steps -> Draws]
      /\ drawn' = Append(drawn, variates')
      /\ pc' = "path"
      /\ UNCHANGED <<stats, program, first, result>>
  BY DEF Draw
<1>2. /\ drawn \in Seq([1 .. program.num_steps -> Int]) /\ Len(drawn) = Len(samples)
      /\ \A k \in 1 .. Len(samples) : samples[k] = Worth(program, drawn[k])
      /\ program \in Programs /\ samples \in Seq(Quotients)
  BY <1>1 DEF PricerInv, StatsInv
<1>3. /\ samples' = samples /\ program' = program /\ StatsInv'
  BY <1>1 DEF PricerInv, StatsInv, stats
<1>4. variates' \in [1 .. program.num_steps -> Int]
  BY <1>1, <1>2, ProgramIs DEF PricerAssumption
<1>5. /\ drawn' \in Seq([1 .. program.num_steps -> Int])
      /\ Len(drawn') = Len(drawn) + 1
      /\ \A k \in 1 .. Len(drawn) : drawn'[k] = drawn[k]
      /\ drawn'[Len(drawn) + 1] = variates'
  BY <1>1, <1>2, <1>4, AppendProperties
<1>6. drawn' \in Seq([1 .. program'.num_steps -> Int])
  BY <1>3, <1>5
<1>7. ASSUME NEW k \in 1 .. Len(samples)
      PROVE  samples'[k] = Worth(program', drawn'[k])
  BY <1>2, <1>3, <1>5
<1>8. Len(drawn') <= program'.num_paths
  <2>1. program.num_paths \in Nat
    BY <1>2, ProgramIs
  <2> QED BY <1>1, <1>2, <1>3, <1>5, <2>1
<1>9. variates' = Last(drawn')
  BY <1>5 DEF Last
<1> QED BY <1>1, <1>2, <1>3, <1>5, <1>6, <1>7, <1>8, <1>9 DEF PricerInv

\* A finished path adds what its draws are worth.
LEMMA AddsWorth ==
  ASSUME PricerAssumption, PricerInv, pc \in {"path", "mirror"},
         NEW x, x = Worth(program, Last(drawn)), Add(x),
         pc' = "loop", UNCHANGED <<program, drawn>>
  PROVE  PricerInv'
<1>1. /\ drawn \in Seq([1 .. program.num_steps -> Int])
      /\ Len(drawn) = Len(samples) + 1
      /\ \A k \in 1 .. Len(samples) : samples[k] = Worth(program, drawn[k])
      /\ program \in Programs /\ program.name # "stats"
      /\ samples \in Seq(Quotients) /\ Len(drawn) <= program.num_paths
      /\ StatsInv
  BY DEF PricerInv, StatsInv
<1>2. x \in Quotients
  <2>1. Last(drawn) \in [1 .. program.num_steps -> Int]
    BY <1>1 DEF Last
  <2> QED BY <1>1, <2>1, ProgramIs, SampleIs
<1>3. StatsInv'
  BY <1>1, <1>2, AddKeeps
<1>4. samples' = Append(samples, x)
  BY DEF Add
<1>5. /\ Len(samples') = Len(samples) + 1
      /\ \A k \in 1 .. Len(samples) : samples'[k] = samples[k]
      /\ samples'[Len(samples) + 1] = x
  BY <1>1, <1>2, <1>4, AppendProperties
<1>6. ASSUME NEW k \in 1 .. Len(samples')
      PROVE  samples'[k] = Worth(program', drawn'[k])
  <2>1. CASE k = Len(samples) + 1
    BY <1>1, <1>5, <2>1 DEF Last
  <2>2. CASE k # Len(samples) + 1
    <3>1. k \in 1 .. Len(samples)
      BY <1>1, <1>5, <2>2
    <3> QED BY <1>1, <1>5, <3>1
  <2> QED BY <2>1, <2>2
<1> QED BY <1>1, <1>3, <1>5, <1>6 DEF PricerInv

\* A path of price or of price_european_call_mc is added.
LEMMA PlainPathKeeps ==
  PricerAssumption /\ PricerInv /\ PlainPath => PricerInv'
<1> SUFFICES ASSUME PricerAssumption, PricerInv, PlainPath PROVE PricerInv'
  OBVIOUS
<1>1. /\ pc = "path" /\ ~Antithetic /\ pc' = "loop"
      /\ Add(payoff(generate_path(variates)))
      /\ UNCHANGED <<program, drawn>>
  BY DEF PlainPath
<1>2. PICK z : z = Last(drawn)
  OBVIOUS
<1>3. /\ z \in [1 .. program.num_steps -> Int] /\ variates = z
      /\ program \in Programs
  BY <1>1, <1>2 DEF PricerInv, StatsInv, Last
<1>4. payoff(generate_path(z)) = Worth(program, z)
  <2>1. payoff(generate_path(z)) = Gains(program, EndsAt(program, z, 1))
    BY <1>3, ProgramIs, SampleIs
  <2> QED BY <1>1, <2>1 DEF Worth, Antithetic
<1> QED BY <1>1, <1>2, <1>3, <1>4, AddsWorth

\* The first path of an antithetic pair turns the draws round.
LEMMA FirstPathKeeps ==
  PricerAssumption /\ PricerInv /\ FirstPath => PricerInv'
<1> SUFFICES ASSUME PricerAssumption, PricerInv, FirstPath PROVE PricerInv'
  OBVIOUS
<1>1. /\ pc = "path" /\ Antithetic /\ pc' = "mirror"
      /\ first' = payoff(generate_path(variates)) /\ variates' = Mirrored
      /\ UNCHANGED <<stats, program, result, drawn>>
  BY DEF FirstPath
<1>2. PICK z : z = Last(drawn)
  OBVIOUS
<1>3. /\ z \in [1 .. program.num_steps -> Int] /\ variates = z
      /\ program \in Programs /\ Steps = 1 .. program.num_steps
  BY <1>1, <1>2, ProgramIs DEF PricerInv, StatsInv, Last
<1>4. first' = Gains(program, EndsAt(program, z, 1))
  BY <1>1, <1>3, SampleIs
<1>5. variates' = [k \in 1 .. program.num_steps |-> -z[k]]
  BY <1>1, <1>3 DEF Mirrored
<1>6. /\ program' = program /\ drawn' = drawn /\ samples' = samples
      /\ StatsInv'
  BY <1>1 DEF PricerInv, StatsInv, stats
<1>7. Antithetic'
  BY <1>1, <1>6 DEF Antithetic
<1>8. first' = Gains(program', EndsAt(program', Last(drawn)', 1))
  BY <1>2, <1>4, <1>6 DEF Last
<1>9. variates' = [k \in 1 .. program'.num_steps |-> -(Last(drawn)')[k]]
  BY <1>2, <1>5, <1>6 DEF Last
<1> QED BY <1>1, <1>6, <1>7, <1>8, <1>9 DEF PricerInv

\* The mirror image completes the pair, and their mean is added.
LEMMA MirrorPathKeeps ==
  PricerAssumption /\ PricerInv /\ MirrorPath => PricerInv'
<1> SUFFICES ASSUME PricerAssumption, PricerInv, MirrorPath PROVE PricerInv'
  OBVIOUS
<1>1. /\ pc = "mirror" /\ pc' = "loop"
      /\ Add(Over(Plus(first, payoff(generate_path(variates))), 2))
      /\ UNCHANGED <<program, drawn>>
  BY DEF MirrorPath
<1>2. PICK z : z = Last(drawn)
  OBVIOUS
<1>3. /\ z \in [1 .. program.num_steps -> Int]
      /\ Antithetic /\ first = Gains(program, EndsAt(program, z, 1))
      /\ program \in Programs /\ Steps = 1 .. program.num_steps
  BY <1>1, <1>2, ProgramIs DEF PricerInv, StatsInv, Last
<1>4. variates = [k \in Steps |-> -z[k]]
  BY <1>1, <1>2, <1>3 DEF PricerInv
<1>5. payoff(generate_path(variates)) = Gains(program, EndsAt(program, z, -1))
  BY <1>3, <1>4, SampleIs
<1>6. Over(Plus(first, payoff(generate_path(variates))), 2) = Worth(program, z)
  BY <1>3, <1>5 DEF Worth, Antithetic
<1> QED BY <1>1, <1>2, <1>6, AddsWorth

\* The result is made from the statistics as they are.
LEMMA ReturnKeeps == PricerInv /\ Return => PricerInv'
<1> SUFFICES ASSUME PricerInv, Return PROVE PricerInv'
  OBVIOUS
<1>1. /\ pc = "loop" /\ program.name # "stats" /\ pc' = "returned"
      /\ Len(drawn) = program.num_paths
      /\ UNCHANGED <<stats, program, drawn>>
  BY DEF Return
<1>2. /\ program' = program /\ drawn' = drawn /\ samples' = samples
      /\ mean_' = mean_ /\ SampleVariance' = SampleVariance /\ StatsInv'
  BY <1>1 DEF PricerInv, StatsInv, SampleVariance, stats
<1>3. result' = [price |-> Times(mean_, Discount),
                 error2 |-> IF program.num_paths = 0 THEN Undefined
                            ELSE Times(Over(SampleVariance, program.num_paths),
                                       Times(Discount, Discount))]
  BY DEF Return
<1> QED BY <1>1, <1>2, <1>3 DEF PricerInv, Undefined

\* Statistics used by themselves.
LEMMA AddValueKeeps ==
  PricerAssumption /\ PricerInv /\ AddValue => PricerInv'
<1> SUFFICES ASSUME PricerAssumption, PricerInv, AddValue PROVE PricerInv'
  OBVIOUS
<1>1. pc = "loop" /\ program.name = "stats" /\ UNCHANGED call
  BY DEF AddValue
<1>2. PICK v \in Int : Add(Rational(v))
  BY DEF AddValue, PricerAssumption
<1>3. StatsInv'
  BY <1>2, WholeIn, AddKeeps DEF PricerInv
<1> QED BY <1>1, <1>3 DEF PricerInv, call

\* A step that changes nothing.
LEMMA PricerStutters ==
  PricerInv /\ UNCHANGED <<stats, call>> => PricerInv'
<1> SUFFICES ASSUME PricerInv, UNCHANGED <<stats, call>> PROVE PricerInv'
  OBVIOUS
<1>1. /\ StatsInv' /\ SampleVariance' = SampleVariance
      /\ samples' = samples /\ mean_' = mean_
  BY DEF PricerInv, StatsInv, SampleVariance, stats
<1>2. /\ program' = program /\ pc' = pc /\ drawn' = drawn
      /\ variates' = variates /\ first' = first /\ result' = result
      /\ (Antithetic => Antithetic')
  BY DEF call, Antithetic
<1> QED BY <1>1, <1>2 DEF PricerInv, Undefined, Last

\* Nothing is drawn, and nothing added.
LEMMA PricerInitially == PricerAssumption /\ Init => PricerInv
<1> SUFFICES ASSUME PricerAssumption, Init PROVE PricerInv
  OBVIOUS
<1>1. StatsInv /\ samples = <<>>
  BY StatsInitially DEF Init, StatsInit
<1>2. program \in Programs /\ pc = "loop" /\ drawn = <<>>
  BY DEF Init
<1>3. program.num_paths \in Nat
  BY <1>2, ProgramIs
<1>4. /\ drawn \in Seq([1 .. program.num_steps -> Int])
      /\ Len(drawn) = 0 /\ Len(samples) = 0 /\ 1 .. 0 = {}
  BY <1>1, <1>2
<1> QED BY <1>1, <1>2, <1>3, <1>4 DEF PricerInv

\* The invariant holds in every state.
THEOREM PricerInvariant == Spec => []PricerInv
<1>1. Init => PricerInv
  BY PricerAssumption, PricerInitially
<1>2. PricerInv /\ [Next]_<<stats, call>> => PricerInv'
  BY PricerAssumption, DrawKeeps, PlainPathKeeps, FirstPathKeeps, MirrorPathKeeps,
     ReturnKeeps, AddValueKeeps, PricerStutters DEF Next
<1> QED BY <1>1, <1>2, PTL DEF Spec

\* OnlineStats::add keeps the exact mean and variances of everything that was
\* added, whether a pricer adds it or the statistics are used by themselves.
THEOREM RecurrenceExact == Spec => []StatsAreExact
<1>1. PricerInv => StatsAreExact
  BY InvExact DEF PricerInv
<1> QED BY <1>1, PricerInvariant, PTL

\* The squared distances from the mean add up to a number.
LEMMA SquaresIn ==
  ASSUME StatsInv
  PROVE  Len(samples) > 0 => Squares(samples) \in Quotients
<1>1. /\ samples \in Seq(Quotients) /\ mean_ \in Quotients
      /\ count_ = Len(samples)
  BY DEF StatsInv
<1> SUFFICES ASSUME Len(samples) > 0 PROVE Squares(samples) \in Quotients
  OBVIOUS
<1>2. mean_ = MeanOf(samples)
  BY InvExact DEF StatsAreExact
<1>3. PICK d : d = Distances(samples, mean_)
  OBVIOUS
<1>4. Squares(samples) = Total(d)
  BY <1>2, <1>3 DEF Squares, Distances, SquareAbout
<1>5. PICK n \in Nat : n = Len(samples)
  BY <1>1
<1>6. \A k \in 1 .. n : samples[k] \in Quotients
  BY <1>1, <1>5
<1>7. DOMAIN d = 1 .. n /\ \A k \in 1 .. n : d[k] = SquareAbout(samples[k], mean_)
  BY <1>3, <1>5 DEF Distances
<1>8. \A k \in 1 .. n : d[k] \in Quotients
  BY <1>1, <1>6, <1>7, SquareIn
<1>9. Total(d) = TotalOver(d, 1 .. n) /\ IsFiniteSet(1 .. n)
  BY <1>7, TotalOfSeq, FS_Interval
<1>10. TotalOver(d, 1 .. n) \in Quotients
  BY <1>8, <1>9, TotalIn
<1> QED BY <1>4, <1>9, <1>10

\* The discount is a quotient, if not in lowest terms, and so nothing times
\* it is nothing.
LEMMA NothingDiscounted ==
  ASSUME PricerAssumption
  PROVE  /\ Times(Nought, Discount) = Nought
         /\ Times(Nought, Times(Discount, Discount)) = Nought
<1>1. PICK a \in Int, p \in Denominators : Discount = [num |-> a, den |-> p]
  BY DEF PricerAssumption, Denominators
<1>2. PICK q \in Denominators, b \in Int : q = p * p /\ b = a * a
  BY ProductPositive
<1>3. Times(Discount, Discount) = Lowest(b, q)
  BY <1>1, <1>2 DEF Times
<1>4. Times(Nought, Discount) = Nought
  <2>1. Times(Nought, Discount) = Lowest(0 * a, 1 * p)
    BY <1>1 DEF Times, Nought, Rational
  <2>2. 0 * a = 0 /\ 1 * p = p
    BY DEF Denominators
  <2> QED BY <2>1, <2>2, NoughtIs
<1>5. Times(Nought, Lowest(b, q)) = Nought
  <2>1. 1 \in Denominators /\ 0 \in Int
    BY DEF Denominators
  <2>2. Times(Lowest(0, 1), Lowest(b, q)) = Lowest(0 * b, 1 * q)
    BY <2>1, TimesQuotients
  <2>3. 0 * b = 0 /\ 1 * q = q
    BY DEF Denominators
  <2> QED BY <2>1, <2>2, <2>3, NoughtIs
<1> QED BY <1>3, <1>4, <1>5

\* When a pricer has returned, the invariant says what it should say.
LEMMA InvPrices == PricerAssumption /\ PricerInv => PricesItsDraws
<1> SUFFICES ASSUME PricerAssumption, PricerInv, pc = "returned"
             PROVE  PricesItsDraws
  BY DEF PricesItsDraws
<1>1. /\ StatsInv /\ program \in Programs /\ program.name # "stats"
      /\ drawn \in Seq([1 .. program.num_steps -> Int])
      /\ Len(drawn) = program.num_paths /\ Len(drawn) = Len(samples)
      /\ \A k \in 1 .. Len(samples) : samples[k] = Worth(program, drawn[k])
      /\ result = [price |-> Times(mean_, Discount),
                   error2 |-> IF program.num_paths = 0 THEN Undefined
                              ELSE Times(Over(SampleVariance, program.num_paths),
                                         Times(Discount, Discount))]
  BY DEF PricerInv
<1>2. PICK n \in Nat : n = program.num_paths
  BY <1>1, ProgramIs
<1>3. samples \in Seq(Quotients) /\ Len(samples) = n
  BY <1>1, <1>2 DEF StatsInv
<1>4. PICK all : all = [k \in 1 .. n |-> Sample(drawn[k])]
  OBVIOUS
<1>5. all = samples
  <2>1. ASSUME NEW k \in 1 .. n PROVE samples[k] = Sample(drawn[k])
    <3>1. drawn[k] \in [1 .. program.num_steps -> Int]
      <4>1. PICK S : S = [1 .. program.num_steps -> Int]
        OBVIOUS
      <4>2. drawn \in Seq(S) /\ Len(drawn) = n
        BY <1>1, <1>2, <4>1
      <4>3. drawn[k] \in S
        BY <4>2
      <4> QED BY <4>1, <4>3
    <3>2. Sample(drawn[k]) = Worth(program, drawn[k])
      BY <1>1, <3>1, ProgramIs, SampleIs
    <3> QED BY <1>1, <1>3, <3>2
  <2>2. samples = [k \in 1 .. n |-> samples[k]]
    BY <1>3
  <2> QED BY <1>4, <2>1, <2>2
<1>6. /\ n = 0 => mean_ = Nought
      /\ n > 0 => mean_ = MeanOf(all)
      /\ SampleVariance = IF n > 1 THEN Over(Squares(all), n - 1) ELSE Nought
  BY <1>1, <1>3, <1>5, InvExact DEF StatsAreExact
<1>7. CASE n = 0
  <2>1. result = [price |-> Nought, error2 |-> Undefined]
    BY <1>1, <1>2, <1>6, <1>7, NothingDiscounted
  <2> QED BY <1>1, <1>2, <1>7, <2>1 DEF PricesItsDraws
<1>8. CASE n # 0
  <2>1. /\ result.price = Times(MeanOf(all), Discount)
        /\ result.error2 = Times(Over(SampleVariance, n), Times(Discount, Discount))
    BY <1>1, <1>2, <1>6, <1>8
  <2>2. n = 1 => result.error2 = Nought
    <3> SUFFICES ASSUME n = 1 PROVE result.error2 = Nought
      OBVIOUS
    <3>1. 1 \in Denominators /\ 0 \in Int
      BY DEF Denominators
    <3>2. Over(Lowest(0, 1), 1) = Lowest(0, 1 * 1)
      BY <3>1, OverQuotient
    <3>3. Over(Nought, 1) = Nought
      BY <3>1, <3>2, NoughtIs
    <3> QED BY <1>6, <2>1, <3>3, NothingDiscounted
  <2>3. n > 1 => Over(SampleVariance, n) = Over(Squares(all), n * (n - 1))
    <3> SUFFICES ASSUME n > 1
                 PROVE  Over(SampleVariance, n) = Over(Squares(all), n * (n - 1))
      OBVIOUS
    <3>1. Squares(all) \in Quotients
      BY <1>1, <1>3, <1>5, SquaresIn
    <3>2. PICK a \in Int, p \in Denominators : Squares(all) = Lowest(a, p)
      BY <3>1 DEF Quotients
    <3>3. PICK m \in Denominators : m = n - 1
      BY DEF Denominators
    <3>4. n \in Denominators /\ p * m \in Denominators /\ n * m \in Denominators
      BY ProductPositive DEF Denominators
    <3>5. Over(Lowest(a, p), m) = Lowest(a, p * m)
      BY OverQuotient
    <3>6. Over(Lowest(a, p * m), n) = Lowest(a, (p * m) * n)
      BY <3>4, OverQuotient
    <3>7. Over(Lowest(a, p), n * m) = Lowest(a, p * (n * m))
      BY <3>4, OverQuotient
    <3>8. (p * m) * n = p * (n * m)
      BY DEF Denominators
    <3> QED BY <1>6, <3>2, <3>3, <3>5, <3>6, <3>7, <3>8
  <2> QED BY <1>1, <1>2, <1>4, <1>8, <2>1, <2>2, <2>3 DEF PricesItsDraws
<1> QED BY <1>7, <1>8

\* What price, price_antithetic and price_european_call_mc return is the
\* discounted mean of the payoffs of their draws, and the error of that mean.
THEOREM PricesCorrect == Spec => []PricesItsDraws
BY PricerAssumption, InvPrices, PricerInvariant, PTL
=============================================================================
