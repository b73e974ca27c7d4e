---------------------------- MODULE MCSelection ----------------------------
(***************************************************************************)
(* Instances of Selection and SelectionRounds.  The slices selected over   *)
(* once hold their candidates in every order, so either shuffle reaches    *)
(* every outcome a seed can have; the repeated passes draw theirs anew     *)
(* between two opposite ones.                                              *)
(***************************************************************************)
EXTENDS SelectionRounds

LOCAL INSTANCE FiniteSetsExt

Slices_Of(candidates) == UNION {[1..n -> candidates] : n \in 0..MaxPool}

\* For the ladder: every tier, pins, a size of zero and sizes that overflow.
OfAnyTier ==
    [tier : CacheTier, size_bytes : {0, 2, 3}, score : {0},
     pinned : BOOLEAN, resident : {FALSE}]

\* For the contest within a tier: scores whose sum with the margin is rounded
\* (6 + 1 and 6 + 2 tie), and NaN.
OfOneTier ==
    [tier : {"Tier1Demand"}, size_bytes : {1, 2}, score : {0, 3, 6, 8, NaN},
     pinned : {FALSE}, resident : BOOLEAN]

\* For repeated passes.
OfRounds ==
    [tier : {"Tier1Demand"}, size_bytes : {1, 2}, score : {6, 8},
     pinned : {FALSE}, resident : BOOLEAN]

MCDrifting == Slices_Of(OfRounds)
MCSlices   == Slices_Of(OfAnyTier) \cup Slices_Of(OfOneTier)

\* A margin above the floor, and one that is raised to it.
MCMargins == {2, NaN}

TwoSeeds == {[x \in Slots |-> x], [x \in Slots |-> MaxPool + 1 - x]}

\* SumOver adds up.
ASSUME SumsAddUp ==
    \A f \in [1..3 -> 0..3] : \A S \in SUBSET (1..3) :
        SumOver(f, S) = MapThenSumSet(LAMBDA x : f[x], S)
=============================================================================
