----------------------------- MODULE Algorithm -----------------------------
(***************************************************************************)
(* AlgorithmSet (algorithm.rs) composes the claims several exchange        *)
(* algorithms make of a store into one tier and one score.  Claims are     *)
(* records [tier, score]; the composition is a maximum, so a set of them   *)
(* loses nothing of the vector.                                            *)
(***************************************************************************)
EXTENDS Tier, Relevance

\* The fold of f64::max from NEG_INFINITY: NaN operands are ignored.
BestScore(scores) ==
    LET numbers == scores \ {NaN}
    IN  IF numbers = {}
        THEN NegInf
        ELSE CHOOSE best \in numbers : \A s \in numbers : s <= best

\* AlgorithmSet::facts, given the claims the sources make of one store: the
\* top tier, and the best score among the claims AT that tier.
facts(claimed) ==
    {[tier  |-> winning_tier,
      score |-> BestScore({c.score : c \in {k \in claimed : k.tier = winning_tier}})] :
        winning_tier \in effective_tier({c.tier : c \in claimed})}

\* AlgorithmSet::facts_or_default: absence takes the bottom of DEFAULT_TIER.
facts_or_default(claimed) ==
    IF facts(claimed) = {}
    THEN [tier |-> DEFAULT_TIER, score |-> 0]
    ELSE CHOOSE f \in facts(claimed) : TRUE
=============================================================================
