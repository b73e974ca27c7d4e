-------------------------- MODULE MirrorObjective --------------------------
(***************************************************************************)
(* What selection promises, with no algorithm (selection.rs, module docs): *)
(* of all the ways to fill the allowance, hold one that is best for profit *)
(* first and for the number of mirrors second, pins held come what may.    *)
(* Profit first means that the mirror counts of the tiers are compared     *)
(* lexicographically, the highest tier first.                              *)
(***************************************************************************)
EXTENDS Tier, Sums, Sequences, FiniteSets

VARIABLES
    offered,    \* the candidates
    allowance,  \* the bytes that may be held
    held        \* the positions held, {0} while undecided

Undecided == {0}

Pinned == {c \in DOMAIN offered : offered[c].pinned}

Weight(S) == SumOver([c \in DOMAIN offered |-> offered[c].size_bytes], S)

\* Pins may exceed the allowance, alone.
Feasible(S) ==
    /\ Pinned \subseteq S
    /\ Weight(S) <= allowance \/ S = Pinned

Mirrors(S, tier) == Cardinality({c \in S \ Pinned : offered[c].tier = tier})

\* S is better than T: more mirrors in some tier, as many in those above it.
Beats(S, T) ==
    \E tier \in CacheTier :
        /\ Mirrors(S, tier) > Mirrors(T, tier)
        /\ \A above \in CacheTier :
              rank(above) > rank(tier) => Mirrors(S, above) = Mirrors(T, above)

Best ==
    LET ways == {S \in SUBSET DOMAIN offered : Feasible(S)}
    IN  {S \in ways : \A T \in ways : ~Beats(T, S)}

Init == held = Undecided

Decide ==
    /\ held = Undecided
    /\ held' \in Best
    /\ UNCHANGED <<offered, allowance>>

\* Another call, over whatever is offered then.
CallAgain ==
    /\ held # Undecided
    /\ held' = Undecided
    /\ UNCHANGED allowance

Spec == Init /\ [][Decide \/ CallAgain]_<<offered, allowance, held>>
=============================================================================
