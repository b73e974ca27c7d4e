----------------------------- MODULE Relevance -----------------------------
(***************************************************************************)
(* Relevance scores and the displacement margin (relevance.rs and the head *)
(* of selection.rs).                                                       *)
(*                                                                         *)
(* A score is an f64.  What the properties can tell apart of an f64 is its *)
(* order, that a sum is ROUNDED, and NaN; so a finite score is a natural   *)
(* number with a two-bit significand (0, 1, 2, 3, 4, 6, 8, 12, 16, ...) and*)
(* a sum is rounded to the nearest such number, ties to the even one, as   *)
(* IEEE-754 does with 53 bits.  Sums stay below 32 (ulp grows no further). *)
(***************************************************************************)
EXTENDS Integers

\* A NaN of positive sign: total_cmp orders it above every number.
NaN == 1000

\* f64::NEG_INFINITY, below every number.
NegInf == -1000

\* The distance between neighbouring scores around x.
Ulp(x) ==
    CASE x < 4             -> 1
      [] x >= 4 /\ x < 8   -> 2
      [] x >= 8 /\ x < 16  -> 4
      [] x >= 16           -> 8

Representable == {x \in 0..31 : x % Ulp(x) = 0}

\* Round half to even.
Rounded(x) ==
    LET ulp  == Ulp(x)
        down == x \div ulp
        rest == x % ulp
        up   == 2 * rest > ulp \/ (2 * rest = ulp /\ down % 2 = 1)
    IN  ulp * (IF up THEN down + 1 ELSE down)

\* Addition of f64 values.
Add(x, y) ==
    CASE NaN \in {x, y}                       -> NaN
      [] NaN \notin {x, y} /\ NegInf \in {x, y} -> NegInf
      [] {NaN, NegInf} \cap {x, y} = {}        -> Rounded(x + y)

\* The `>` of f64, false as soon as one side is NaN.
Exceeds(x, y) == NaN \notin {x, y} /\ x > y

\* should_displace: strictly more than the incumbent plus the margin.
should_displace(incumbent, candidate, margin) ==
    Exceeds(candidate, Add(incumbent, margin))

\* The margin's floor, 0.01 in the code.
MIN_DISPLACEMENT_MARGIN == 1

\* DisplacementMargin::new: zero, negative, NaN and infinite requests are
\* raised to the floor (NaN stands for the values that are not finite).
DisplacementMargin(requested) ==
    IF requested # NaN /\ requested > MIN_DISPLACEMENT_MARGIN
    THEN requested
    ELSE MIN_DISPLACEMENT_MARGIN

\* may_displace: the pairwise rule as exposed to callers.
may_displace(incumbent, candidate, margin) ==
    should_displace(incumbent, candidate, margin)
=============================================================================
