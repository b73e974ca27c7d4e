------------------------------- MODULE Reward -------------------------------
(***************************************************************************)
(* The ledger of claimed rewards (reward.rs): a local view of events on a  *)
(* chain, keyed by the events' own identities.                             *)
(*                                                                         *)
(* The chain and the host are external.  The host records a claim when it  *)
(* sees the event, records again on a retry that may report another        *)
(* amount, loses the ledger in a crash, and reconciles with a view of the  *)
(* chain.  A careful host records only events of the chain first and       *)
(* reconciles with the chain as it is; any other also records claims that  *)
(* never happen and reconciles with a view gone stale.                     *)
(***************************************************************************)
EXTENDS Sums, Sequences

CONSTANTS
    RewardClaim,    \* the claims that may happen or be reported
    MaxAmount,      \* u64::MAX
    NoView,
    MaxObserved     \* the bound on the claims one view of the chain lists

ASSUME RewardAssumption ==
    /\ MaxAmount \in Nat
    /\ \A c \in RewardClaim : c.amount \in 0..MaxAmount
    /\ MaxObserved \in Nat
    /\ NoView \notin [claims : SUBSET RewardClaim]

VARIABLES
    chain,      \* the claims that happened
    seen,       \* the ledger: at most one claim per event
    reports,    \* the claims this run of the host has recorded and may retry
    view,       \* the chain as a reconciliation in progress has read it
    careful,    \* whether the host is
    quiet       \* no more crashes and phantom claims

vars == <<chain, seen, reports, view, careful, quiet>>

Stores == {c.store : c \in RewardClaim}

Ids(claims) == {c.claim_id : c \in claims}

empty == {}

record(ledger, claim) ==
    IF claim.claim_id \in Ids(ledger) THEN ledger ELSE ledger \union {claim}

\* Recording one by one into an empty ledger keeps the first claim of each event.
from_chain_claims(claims) ==
    {claims[i] : i \in {n \in 1..Len(claims) :
                          \A m \in 1..(n - 1) : claims[m].claim_id # claims[n].claim_id}}

\* Mutant: a merge.
reconcile_from_chain_Merges(ledger, claims) ==
    LET known == from_chain_claims(claims)
    IN  known \union {c \in ledger : c.claim_id \notin Ids(known)}

reconcile_from_chain(ledger, claims) == from_chain_claims(claims)

Amounts == [c \in RewardClaim |-> c.amount]

Total(claims, store) == SumOver(Amounts, {c \in claims : c.store = store})

\* Mutant: the claims of every store.
claimed_for_AnyStore(ledger, store) ==
    LET total == SumOver(Amounts, ledger)
    IN  IF total > MaxAmount THEN MaxAmount ELSE total

\* A saturating sum, whatever the order of the entries.
claimed_for(ledger, store) ==
    IF Total(ledger, store) > MaxAmount THEN MaxAmount ELSE Total(ledger, store)

-----------------------------------------------------------------------------
Init ==
    /\ chain = {}
    /\ seen = empty
    /\ reports = {}
    /\ view = NoView
    /\ careful \in BOOLEAN
    /\ quiet = FALSE

\* A claim is confirmed.
Happens ==
    /\ \E c \in RewardClaim :
          /\ c.claim_id \notin Ids(chain)
          /\ chain' = chain \union {c}
    /\ UNCHANGED <<seen, reports, view, careful, quiet>>

\* Mutant: HashMap::insert alone, which keeps the last.
Record_LastWins(c) ==
    /\ seen' = {d \in seen : d.claim_id # c.claim_id} \union {c}
    /\ reports' = reports \union {c}
    /\ UNCHANGED <<chain, view, careful, quiet>>

Record(c) ==
    /\ seen' = record(seen, c)
    /\ reports' = reports \union {c}
    /\ UNCHANGED <<chain, view, careful, quiet>>

\* The host sees the event, the first time or again.
Observe == \E c \in chain : Record(c)

\* A submission is retried and reports what it will; in the end only the
\* submissions that came to something are.
Retry ==
    \E c \in RewardClaim :
        /\ c.claim_id \in Ids(reports)
        /\ quiet => c.claim_id \in Ids(chain)
        /\ Record(c)

\* A claim is recorded that is not on the chain.
Phantom ==
    /\ ~ quiet
    /\ ~ careful
    /\ \E c \in RewardClaim : c.claim_id \notin Ids(chain) /\ Record(c)

\* A view of the chain lists its claims in any order, some of them repeatedly.
Listings(claims) ==
    {s \in UNION {[1..n -> claims] : n \in 0..MaxObserved} :
        {s[i] : i \in DOMAIN s} = claims}

Reconcile ==
    /\ careful
    /\ \E claims \in Listings(chain) : seen' = reconcile_from_chain(seen, claims)
    /\ UNCHANGED <<chain, reports, view, careful, quiet>>

ReadChain ==
    /\ ~ careful
    /\ view = NoView
    /\ view' = [claims |-> chain]
    /\ UNCHANGED <<chain, seen, reports, careful, quiet>>

ReconcileView ==
    /\ view # NoView
    /\ \E claims \in Listings(view.claims) : seen' = reconcile_from_chain(seen, claims)
    /\ view' = NoView
    /\ UNCHANGED <<chain, reports, careful, quiet>>

\* The ledger is in memory; an unreadable one falls back to empty.
Crash ==
    /\ ~ quiet
    /\ seen' = empty
    /\ reports' = {}
    /\ view' = NoView
    /\ UNCHANGED <<chain, careful, quiet>>

FallQuiet ==
    /\ ~ quiet
    /\ quiet' = TRUE
    /\ UNCHANGED <<chain, seen, reports, view, careful>>

Next ==
    \/ Happens \/ Observe \/ Retry \/ Phantom
    \/ Reconcile \/ ReadChain \/ ReconcileView
    \/ Crash \/ FallQuiet

Spec == Init /\ [][Next]_vars

\* The host reconciles from time to time.
FairSpec == Spec /\ WF_vars(Reconcile) /\ WF_vars(ReadChain) /\ WF_vars(ReconcileView)

-----------------------------------------------------------------------------
(* Properties *)

TypeOK ==
    /\ chain \in SUBSET RewardClaim
    /\ seen \in SUBSET RewardClaim
    /\ \A c, d \in seen : c.claim_id = d.claim_id => c = d
    /\ reports \in SUBSET RewardClaim
    /\ view \in [claims : SUBSET RewardClaim] \union {NoView}
    /\ careful \in BOOLEAN
    /\ quiet \in BOOLEAN

\* With a careful host the ledger holds nothing the chain does not: no replay,
\* retry or repeated observation, crash or reconciliation makes it over-count
\* (reward.rs:104-105).
Corroborated == careful => seen \subseteq chain

\* In amounts: no store looks better paid than it is, saturation included.
NeverOverCounts ==
    careful => \A s \in Stores : claimed_for(seen, s) <= Total(chain, s)

\* Whatever the host did, a reconciliation leaves nothing that the view of the
\* chain does not corroborate and drops nothing it does (reward.rs:124-128).
ReconcileSettles ==
    [][/\ Reconcile => seen' = chain
       /\ ReconcileView => seen' = view.claims]_vars

\* Income once claimed is seen for good in the end, and phantom income is not,
\* once the host stops crashing and inventing (reward.rs:16-20).
IncomeIsRecovered == [](quiet => <>[](seen = chain))
=============================================================================
