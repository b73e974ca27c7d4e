------------------------------ MODULE MCReward ------------------------------
(* Two events: one reported with two amounts, one with two stores.         *)
EXTENDS Reward

LOCAL INSTANCE SequencesExt

Claim(id, store, amount) == [claim_id |-> id, store |-> store, amount |-> amount]

MCClaims ==
    {Claim("e1", "s1", 1), Claim("e1", "s1", 2), Claim("e2", "s1", 2), Claim("e2", "s2", 2)}

\* from_chain_claims against the loop it stands for (reward.rs:96-102), on
\* listings that disagree about an event.
ASSUME LoopKeepsFirst ==
    \A n \in 0..4 : \A claims \in [1..n -> RewardClaim] :
        from_chain_claims(claims) = FoldLeft(record, empty, claims)
=============================================================================
