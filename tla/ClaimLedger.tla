---------------------------- MODULE ClaimLedger ----------------------------
(***************************************************************************)
(* The exchange algorithms behind an AlgorithmSet and what a store is      *)
(* worth while they change their minds.                                    *)
(*                                                                         *)
(* An algorithm is a trait object of the host, so what it does to its      *)
(* claims is external: it claims a store, stops naming it, or loses its    *)
(* whole in-memory ledger.  The composition is the code's (Algorithm).     *)
(* Eviction extends this module: its cache asks these sources.             *)
(***************************************************************************)
EXTENDS Algorithm

CONSTANTS
    Sources,    \* the registered algorithms
    Stores,     \* the stores asked about
    Scores      \* the scores a source may give, NaN among them if the run says so

ASSUME ClaimLedgerAssumption == Scores \subseteq Representable \cup {NaN}

VARIABLE
    claims      \* claims[s][store]: what source s answers of the store, {} when silent

StoreFacts == [tier : CacheTier, score : Scores]

\* Mutant: one silent source silences the set.
Claimed_AllOrNothing(store) ==
    IF \E s \in Sources : claims[s][store] = {}
    THEN {}
    ELSE UNION {claims[s][store] : s \in Sources}

\* What the sources answer of a store, silent ones left out.
Claimed(store) == UNION {claims[s][store] : s \in Sources}

Facts(store) == facts_or_default(Claimed(store))

\* A source earns or revises its claim of a store.
Claim(s, store, f) ==
    /\ claims[s][store] # {f}
    /\ claims' = [claims EXCEPT ![s][store] = {f}]

\* A source stops naming a store.
Lapse(s, store) ==
    /\ claims[s][store] # {}
    /\ claims' = [claims EXCEPT ![s][store] = {}]

\* A source restarts with an empty in-memory ledger.
LoseLedger(s) ==
    /\ \E store \in Stores : claims[s][store] # {}
    /\ claims' = [claims EXCEPT ![s] = [store \in Stores |-> {}]]

ReviseClaims ==
    \E s \in Sources :
        \/ \E store \in Stores, f \in StoreFacts : Claim(s, store, f)
        \/ \E store \in Stores : Lapse(s, store)
        \/ LoseLedger(s)

-----------------------------------------------------------------------------
(* Properties *)

\* A source that stops naming a store never moves it while another source
\* still holds a claim at the store's effective tier (tier.rs:65-67: the
\* promotion survives the speculative reason lapsing), and the score it then
\* has is one somebody still claims at that tier or NEG_INFINITY when all of
\* them are NaN.
PromotionSurvivesLapse ==
    [][\A s \in Sources, store \in Stores :
          /\ claims[s][store] # {}
          /\ claims' = [claims EXCEPT ![s][store] = {}]
          /\ \E other \in Sources \ {s} :
                \E c \in claims[other][store] : c.tier = Facts(store).tier
          => /\ Facts(store)'.tier = Facts(store).tier
             /\ \/ Facts(store)'.score = NegInf
                \/ [tier |-> Facts(store)'.tier, score |-> Facts(store)'.score]
                      \in Claimed(store)']_claims

\* A score never follows a store across tiers: the effective score is one
\* claimed at the effective tier, is the best of those, and is the bottom of
\* the tier when nobody claims the store (algorithm.rs:62-66).
ScoreOfWinningTier ==
    \A store \in Stores :
        LET f == Facts(store) IN
        /\ \A c \in Claimed(store) : rank(c.tier) <= rank(f.tier)
        /\ \A c \in Claimed(store) :
              c.tier = f.tier /\ c.score # NaN => c.score <= f.score
        /\ f.score \in {c.score : c \in {k \in Claimed(store) : k.tier = f.tier}}
                          \cup {NegInf} \cup (IF Claimed(store) = {} THEN {0} ELSE {})
        /\ Claimed(store) = {} => f.tier = DEFAULT_TIER

\* Whatever the sources claim, revise, drop or lose, in any order, the set
\* answers by the top tier still claimed and by no other claim.
ClaimsCompose == []ScoreOfWinningTier /\ PromotionSurvivesLapse
=============================================================================
