-------------------------------- MODULE Sums --------------------------------
(***************************************************************************)
(* Sums over finite sets.  A sum of naturals is the number of units it     *)
(* adds up, so that what holds of sums follows from what holds of          *)
(* cardinalities, with no induction over the set.                          *)
(***************************************************************************)
EXTENDS Integers, FiniteSets

\* The units of the values f[x], each told apart from the others'.
Units(f, S) == UNION {{x} \X (1..f[x]) : x \in S}

\* The sum of f[x] over S.
SumOver(f, S) == Cardinality(Units(f, S))
=============================================================================
