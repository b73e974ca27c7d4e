-------------------------- MODULE SelectionRounds --------------------------
(***************************************************************************)
(* A node selects again and again over a drifting pool (selection.rs,      *)
(* "Incumbency is an input"): what one pass retained is resident in the    *)
(* next, the slice comes in another order or with another seed, and now    *)
(* and then a fact about a candidate changes.                              *)
(*                                                                         *)
(* The host makes the passes; each pass is Selection's call, step by step. *)
(***************************************************************************)
EXTENDS Selection

CONSTANTS
    Drifting,       \* the slices selected over repeatedly; others are once
    DriftScores     \* the scores a drifting candidate may move to

ASSUME RoundsAssumption == DriftScores \subseteq Score

VARIABLES
    last,           \* what the previous pass retained, if there was one
    passes,         \* passes begun after the first, counted up to MaxPasses
    drifted         \* whether a fact changed since the previous pass

roundVars == <<last, passes, drifted>>

\* The bound on passes: one to fix the residents, one to be compared with it,
\* one more after a drift.
MaxPasses == 3

RoundsInit ==
    /\ Init
    /\ last = {}
    /\ passes = IF pool \in Drifting THEN 0 ELSE MaxPasses
    /\ drifted = FALSE

\* The slice of the next pass: what was retained is resident now.
Reseated == [c \in Positions |-> [pool[c] EXCEPT !.resident = c \in retained]]

\* The next pass starts over this slice; a new seed or a new order of the
\* slice is a new shuffle.
Reselect(slice, seed) ==
    /\ phase = "done"
    /\ passes < MaxPasses
    /\ pool' = slice
    /\ shuffle' = seed
    /\ phase' = "pins"
    /\ turn' = 1
    /\ todo' = DOMAIN slice
    /\ used' = 0
    /\ retained' = {}
    /\ rejected' = <<>>
    /\ last' = {retained}
    /\ passes' = passes + 1
    /\ UNCHANGED <<capacity, margin>>

SamePool(seed) ==
    /\ Reselect(Reseated, seed)
    /\ drifted' = FALSE

Drift(seed, c, score) ==
    /\ c \in Positions
    /\ pool[c].score # score
    /\ Reselect([Reseated EXCEPT ![c].score = score], seed)
    /\ drifted' = TRUE

\* The run stops at MaxPasses.
Stop ==
    /\ phase = "done"
    /\ passes = MaxPasses
    /\ UNCHANGED <<vars, roundVars>>

RoundsNext ==
    \/ Next /\ UNCHANGED roundVars
    \/ \E seed \in Shuffles :
          \/ SamePool(seed)
          \/ \E c \in Slots, score \in DriftScores : Drift(seed, c, score)
    \/ Stop

RoundsSpec == RoundsInit /\ [][RoundsNext]_<<vars, roundVars>>

-----------------------------------------------------------------------------
(* Properties *)

\* Passes settle: over the same facts a pass changes nothing of what the
\* previous one retained, whatever the seed and the order of the slice, the
\* first pass included (selection.rs:25-30, test at 1132).
PassesSettle ==
    phase = "done" /\ ~drifted => \A before \in last : retained = before

\* A drift swaps an equal-sized incumbent for a challenger of its tier only
\* past the margin: two near-equal stores never take turns.  As above, scores
\* that are NaN are left out.
DriftWithinMarginHolds ==
    phase = "done" =>
        \A before \in last : \A i \in before \ retained, c \in retained \ before :
            /\ i \notin Pins
            /\ NaN \notin {pool[i].score, pool[c].score}
            /\ pool[i].tier = pool[c].tier
            /\ pool[i].size_bytes = pool[c].size_bytes
            => MayDisplace(i, c)
=============================================================================
