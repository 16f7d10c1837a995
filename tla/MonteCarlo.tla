----------------------------- MODULE MonteCarlo -----------------------------
(***************************************************************************)
(* The Monte Carlo pricers: price and price_antithetic of MonteCarloEngine *)
(* with the Black-Scholes model and a European payoff, and the call pricer *)
(* of mc-option-pricer, which makes one step to the expiry.  A program may *)
(* use OnlineStats by itself as well.                                      *)
(*                                                                         *)
(* Draws are small integers, 2 takes the place of e, and the square of the *)
(* standard error is kept, so that all numbers are rationals.              *)
(***************************************************************************)
EXTENDS OnlineStats

CONSTANTS
  Draws,                \* what the normal distribution may give
  Spot, Strike,
  Drift, Vol,           \* of the logarithm, in one step
  Discount,             \* exp(-rate * expiry)
  MaxPaths, MaxSteps,   \* bounds on the arguments of the engine
  Values                \* what is added to statistics used by themselves

ASSUME PricerAssumption ==
  /\ Draws \subseteq Int /\ Values \subseteq Int
  /\ Spot \in Nat /\ Strike \in Nat /\ Drift \in Int /\ Vol \in Nat
  /\ MaxPaths \in Nat /\ MaxSteps \in Nat
  /\ Discount \in [num : Nat, den : Nat \ {0}]

VARIABLES
  program,     \* what is called, and with which payoff and numbers; fixed
  pc,
  variates,
  first,       \* p1: the payoff on the path of the draws themselves
  result,      \* price and squared std_error
  drawn        \* history: the draws, one array for each path

call == <<program, pc, variates, first, result, drawn>>

Programs ==
  [name : {"price", "price_antithetic"}, payoff : {"call", "put"},
   num_paths : 0 .. MaxPaths, num_steps : 0 .. MaxSteps]
  \cup
  [name : {"price_european_call_mc", "stats"}, payoff : {"call"},
   num_paths : 0 .. MaxPaths, num_steps : {1}]

Steps == 1 .. program.num_steps
Antithetic == program.name = "price_antithetic"
Undefined == [num |-> 0, den |-> 0]   \* not a number
-----------------------------------------------------------------------------
\* Slips: mutated forms of the definitions below, used to show that a
\* property notices them.

SameDraws == variates
-----------------------------------------------------------------------------
\* exp
PowerOfTwo[n \in Nat] == IF n = 0 THEN 1 ELSE 2 * PowerOfTwo[n - 1]

Scaled(x, e) == IF e >= 0 THEN Times(x, Rational(PowerOfTwo[e]))
                          ELSE Over(x, PowerOfTwo[-e])

generate_path(z) ==
  LET path[k \in 0 .. program.num_steps] ==
        IF k = 0 THEN Rational(Spot) ELSE Scaled(path[k - 1], Drift + Vol * z[k])
  IN  path

Positive(x) == IF x.num > 0 THEN x ELSE Nought

\* EuropeanCall and EuropeanPut look at path.back().
payoff(path) ==
  LET gain == Minus(path[program.num_steps], Rational(Strike))
  IN  Positive(IF program.payoff = "call" THEN gain ELSE Minus(Nought, gain))

Init == /\ StatsInit
        /\ program \in Programs
        /\ pc = "loop"
        /\ variates = <<>>
        /\ first = Nought
        /\ result = <<>>
        /\ drawn = <<>>

Draw == /\ pc = "loop" /\ program.name # "stats"
        /\ Len(drawn) < program.num_paths
        /\ \E z \in [Steps -> Draws] : variates' = z
        /\ drawn' = Append(drawn, variates')
        /\ pc' = "path"
        /\ UNCHANGED <<stats, program, first, result>>

PlainPath == /\ pc = "path" /\ ~Antithetic
             /\ Add(payoff(generate_path(variates)))
             /\ pc' = "loop"
             /\ UNCHANGED <<program, variates, first, result, drawn>>

Mirrored == [k \in Steps |-> -variates[k]]

FirstPath == /\ pc = "path" /\ Antithetic
             /\ first' = payoff(generate_path(variates))
             /\ variates' = Mirrored
             /\ pc' = "mirror"
             /\ UNCHANGED <<stats, program, result, drawn>>

MirrorPath == /\ pc = "mirror"
              /\ Add(Over(Plus(first, payoff(generate_path(variates))), 2))
              /\ pc' = "loop"
              /\ UNCHANGED <<program, variates, first, result, drawn>>

\* Without a path the standard error is 0 / 0.
Return == /\ pc = "loop" /\ program.name # "stats"
          /\ Len(drawn) = program.num_paths
          /\ result' =
               [price |-> Times(mean_, Discount),
                error2 |-> IF program.num_paths = 0 THEN Undefined
                           ELSE Times(Over(SampleVariance, program.num_paths),
                                      Times(Discount, Discount))]
          /\ pc' = "returned"
          /\ UNCHANGED <<stats, program, variates, first, drawn>>

AddValue == /\ pc = "loop" /\ program.name = "stats"
            /\ count_ < program.num_paths
            /\ \E v \in Values : Add(Rational(v))
            /\ UNCHANGED call

Next == Draw \/ PlainPath \/ FirstPath \/ MirrorPath \/ Return \/ AddValue

Spec == Init /\ [][Next]_<<stats, call>>
-----------------------------------------------------------------------------
\* In closed form: the price at expiry depends on the sum of the draws only.
AtExpiry(z, sign) ==
  LET sum == Total([k \in Steps |-> Rational(z[k])]).num   \* a whole number
  IN  Scaled(Rational(Spot), program.num_steps * Drift + sign * Vol * sum)
PayoffAt(s) == LET gain == Minus(s, Rational(Strike))
               IN  Positive(IF program.payoff = "call" THEN gain
                            ELSE Minus(Nought, gain))
Sample(z) ==
  IF Antithetic
  THEN Over(Plus(PayoffAt(AtExpiry(z, 1)), PayoffAt(AtExpiry(z, -1))), 2)
  ELSE PayoffAt(AtExpiry(z, 1))

\* A pricer returns the discounted mean of one sample for each array of draws,
\* antithetic ones averaged over the draws and their negation, and the error
\* of that mean; with one path the error is 0, with none there is no error.
PricesItsDraws ==
  pc = "returned" =>
    LET n == program.num_paths
        all == [k \in 1 .. n |-> Sample(drawn[k])]
    IN  /\ Len(drawn) = n
        /\ IF n = 0 THEN result = [price |-> Nought, error2 |-> Undefined]
           ELSE /\ result.price = Times(MeanOf(all), Discount)
                /\ n = 1 => result.error2 = Nought
                /\ n > 1 => result.error2 = Times(Over(Squares(all), n * (n - 1)),
                                                  Times(Discount, Discount))
=============================================================================
