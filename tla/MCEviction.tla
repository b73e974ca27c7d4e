---------------------------- MODULE MCEviction ----------------------------
(* An instance of Eviction with two sources: capsules nobody claims,       *)
(* claimed once, and claimed by both in different tiers.  The caller lists *)
(* what it selects over in the cache's order or backwards; of its margins, *)
(* four makes the scores 1 and 4 equal to it, as sums have two-bit         *)
(* significands.                                                           *)
EXTENDS Eviction

CONSTANTS speculation, demand

P(score) == {[tier |-> "Tier0Precache", score |-> score]}
D(score) == {[tier |-> "Tier1Demand", score |-> score]}

Both(s, d) == [source \in Sources |-> IF source = speculation THEN s ELSE d]

MCClaimings == {Both({}, {}), Both(P(4), {}), Both(P(4), D(1))}
MCStores == Slots
NoSlices == {}
Identity == {[x \in Slots |-> x]}
EitherWay == Identity \cup {[x \in Slots |-> MaxPool + 1 - x]}
=============================================================================
