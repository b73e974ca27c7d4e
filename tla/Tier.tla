------------------------------- MODULE Tier -------------------------------
(***************************************************************************)
(* The acquisition tiers (tier.rs).  The tier of a cached capsule is the   *)
(* profit dimension of the whole model: it alone decides who gives way to  *)
(* whom across tiers.                                                      *)
(***************************************************************************)
EXTENDS Integers

CacheTier == {"Tier0Precache", "Tier1Demand", "Tier2Bribed"}

\* CacheTier::rank: ascending rank is sacrificed first.
rank(tier) ==
    CASE tier = "Tier0Precache" -> 0
      [] tier = "Tier1Demand"   -> 1
      [] tier = "Tier2Bribed"   -> 2

\* What a store no source claims is protected at.
DEFAULT_TIER == "Tier1Demand"

\* effective_tier: the maximum of the claimed tiers.  An Option is a set of at
\* most one element, so that no claim gives {}.
effective_tier(tiers) ==
    {top \in tiers : \A tier \in tiers : rank(tier) <= rank(top)}
=============================================================================
