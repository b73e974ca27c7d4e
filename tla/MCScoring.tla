----------------------------- MODULE MCScoring -----------------------------
(* An instance of Scoring: two stores, equally near, next to each other,   *)
(* at opposite ends, and at the border of the neighbourhood.               *)
EXTENDS Scoring

CONSTANTS s1, s2

At(near, far) == [s \in Stores |-> IF s = s1 THEN near ELSE far]

MCDistances == {At(0, 0), At(3, 4), At(0, 15), At(7, 9), At(11, 13)}
=============================================================================
