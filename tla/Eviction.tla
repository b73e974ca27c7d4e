----------------------------- MODULE Eviction -----------------------------
(***************************************************************************)
(* A full cache takes in a capsule (eviction.rs).                          *)
(*                                                                         *)
(* The cache, dig-store-cache, asks TieredPolicy which entries to evict;   *)
(* the policy selects the entries into the space the incoming capsule      *)
(* leaves and returns the rejects.  Before that, a caller that wants       *)
(* hysteresis selects over its entries AND the incoming capsule, because   *)
(* the cache's seam carries no facts about the latter.  Both passes are    *)
(* calls of select_within_capacity, so this module runs Selection twice.   *)
(* Each pass asks the sources anew (ClaimLedger), and they may change their*)
(* minds between the two.                                                  *)
(*                                                                         *)
(* Nothing makes the caller's pass run under the policy's terms: it lists  *)
(* its candidates in an order of its own, and its seed and margin may be   *)
(* others.  A pass here names a candidate by the entry it is made of,      *)
(* wherever it is listed: the place in the slice decides nothing but ties  *)
(* (selection.rs:414-416), so an order of the caller's own is part of the  *)
(* shuffle its pass runs under.                                            *)
(*                                                                         *)
(* Cache and caller are external: modelled as eviction.rs documents them.  *)
(***************************************************************************)
EXTENDS Selection, ClaimLedger

CONSTANTS
    EntrySizes,     \* on-disk weights
    Claimings,      \* what the sources may claim of a capsule, together
    Listings,       \* orders in which a caller lists what it selects over
    Revisable,      \* bound: claims are revised while slots and revisions are fewer
    Callers         \* "asks": selects first; "admits": goes to the cache directly

ASSUME EvictionAssumption ==
    /\ EntrySizes \subseteq 0..MaxBytes
    /\ Claimings \subseteq [Sources -> SUBSET StoreFacts]
    /\ Stores = Slots
    /\ \A listing \in Listings : listing \in [Slots -> Slots] /\ Injective(listing)
    /\ Revisable \in Nat
    /\ Callers \subseteq {"asks", "admits"}

VARIABLES
    caller,     \* which kind of caller brings the capsule
    entries,    \* the cache's entries, then the incoming capsule as the last
    limit,      \* the cache's capacity
    policy,     \* the terms of TieredPolicy's passes: its seed and its margin
    asking,     \* the terms of the caller's own pass
    stage,      \* "offered", "wanted", "evicting", "refused", "admitted"
    displaced,  \* what the caller's own pass rejected
    victims,    \* what select_evictions returned
    revisions   \* changes of the claims between the two passes

evictVars ==
    <<caller, entries, limit, policy, asking, stage, displaced, victims, revisions>>

\* Terms of a pass over candidates in the cache's order: a seed, as a shuffle,
\* and a margin.
Terms == {[shuffle |-> seed, margin |-> DisplacementMargin(m)] : seed \in Shuffles, m \in Margins}

\* Terms of a pass over candidates listed in another order: a tie is broken by
\* the seed and the place an entry has there.
Listed(terms, listing) ==
    [terms EXCEPT !.shuffle = [e \in Slots |-> terms.shuffle[listing[e]]]]

Incoming == Len(entries)
Held     == 1..(Len(entries) - 1)

\* u64::saturating_sub
SaturatingSub(x, y) == IF x >= y THEN x - y ELSE 0

EntryBytes(slots) == SumOver([e \in DOMAIN entries |-> entries[e].size], slots)

\* EvictionContext::bytes_to_free, of dig-store-cache.
bytes_to_free == SaturatingSub(EntryBytes(Held) + entries[Incoming].size, limit)

\* Mutants: no room set aside for the incoming capsule; room for it twice.
incumbent_capacity_Whole == limit
incumbent_capacity_Twice == SaturatingSub(limit, 2 * entries[Incoming].size)

\* TieredPolicy::incumbent_capacity
incumbent_capacity == SaturatingSub(limit, entries[Incoming].size)

\* Mutant: the pin is not carried over.
candidate_Unpinned(e, is_resident) ==
    [tier |-> Facts(e).tier, size_bytes |-> entries[e].size, score |-> Facts(e).score,
     pinned |-> FALSE, resident |-> is_resident]

\* TieredPolicy::candidate, and the caller's own for what it does not hold.
candidate(e, is_resident) ==
    [tier |-> Facts(e).tier, size_bytes |-> entries[e].size, score |-> Facts(e).score,
     pinned |-> entries[e].pinned, resident |-> is_resident]

Offer == [e \in 1..Incoming |-> candidate(e, e # Incoming)]
HeldCandidates == [e \in Held |-> candidate(e, TRUE)]

Entry == [size : EntrySizes, pinned : BOOLEAN]

\* The entries may weigh more than the limit: pins do, and so does a cache
\* whose limit was lowered.  The cache refuses a capsule above its limit.
EvictionInit ==
    /\ caller \in Callers
    /\ \E n \in 1..MaxPool :
          /\ entries \in [1..n -> Entry]
          /\ \E given \in [1..n -> Claimings] :
                claims = [s \in Sources |-> [e \in Slots |-> IF e <= n THEN given[e][s] ELSE {}]]
    /\ revisions = 0
    /\ ~entries[Incoming].pinned
    /\ limit \in Capacities
    /\ entries[Incoming].size <= limit
    /\ policy \in Terms
    /\ asking \in IF caller = "asks"
                 THEN {Listed(own, listing) : own \in Terms, listing \in Listings}
                 ELSE {policy}
    /\ displaced = {}
    /\ victims = {}
    /\ stage = IF caller = "asks" THEN "offered" ELSE "wanted"
    /\ Called(IF caller = "asks" THEN Offer ELSE <<>>, limit, asking.margin, asking.shuffle)

\* The next call, over another slice, with another capacity and other terms.
Select(slice, bytes, terms) ==
    /\ pool' = slice
    /\ capacity' = bytes
    /\ margin' = terms.margin
    /\ shuffle' = terms.shuffle
    /\ phase' = "pins"
    /\ turn' = 1
    /\ todo' = DOMAIN slice
    /\ used' = 0
    /\ retained' = {}
    /\ rejected' = <<>>

\* The caller goes to the cache only with a capsule its own pass retained.
CallerDecides ==
    /\ stage = "offered"
    /\ phase = "done"
    /\ displaced' = Rejected
    /\ stage' = IF Incoming \in retained THEN "wanted" ELSE "refused"
    /\ UNCHANGED <<vars, caller, entries, limit, policy, asking, victims, revisions, claims>>

\* select_evictions with nothing to free.
NothingToFree ==
    /\ stage = "wanted"
    /\ bytes_to_free = 0
    /\ victims' = {}
    /\ stage' = "admitted"
    /\ UNCHANGED <<vars, caller, entries, limit, policy, asking, displaced, revisions, claims>>

\* select_evictions: the entries against the space the incoming one leaves.
select_evictions ==
    /\ stage = "wanted"
    /\ bytes_to_free > 0
    /\ Select(HeldCandidates, incumbent_capacity, policy)
    /\ stage' = "evicting"
    /\ UNCHANGED <<caller, entries, limit, policy, asking, displaced, victims, revisions, claims>>

\* The cache evicts the rejects and writes the capsule.
Admit ==
    /\ stage = "evicting"
    /\ phase = "done"
    /\ victims' = Rejected
    /\ stage' = "admitted"
    /\ UNCHANGED <<vars, caller, entries, limit, policy, asking, displaced, revisions, claims>>

\* The sources change their minds after the caller's pass.
Revise ==
    /\ stage = "wanted"
    /\ caller = "asks"
    /\ Len(entries) + revisions < Revisable
    /\ ReviseClaims
    /\ \A s \in Sources, e \in Slots : e > Len(entries) => claims'[s][e] = {}
    /\ revisions' = revisions + 1
    /\ UNCHANGED <<vars, caller, entries, limit, policy, asking, stage, displaced, victims>>

EvictionNext ==
    \/ Next /\ stage \in {"offered", "evicting"} /\ UNCHANGED <<evictVars, claims>>
    \/ Revise
    \/ CallerDecides
    \/ NothingToFree
    \/ select_evictions
    \/ Admit

EvictionSpec == EvictionInit /\ [][EvictionNext]_<<vars, evictVars, claims>>

-----------------------------------------------------------------------------
(* Properties *)

EntryPins == {e \in Held : entries[e].pinned}
Kept      == Held \ victims

Alike(slots, tier, size) ==
    {e \in slots : Facts(e).tier = tier /\ entries[e].size = size}

\* One of the two margins makes these entries' scores the same.
Tied(e, d) ==
    \E terms \in {asking, policy} :
        Add(Facts(e).score, terms.margin) = Add(Facts(d).score, terms.margin)

\* Whatever order, seed and margin the caller's pass ran under, as long as the
\* sources agree the cache evicts the incumbents that pass turned out, although
\* it never sees the capsule they give way to (eviction.rs:83-94: hysteresis has
\* to be applied by the caller BEFORE): as many of every tier and size, others
\* only where a contest is tied, and the same ones under the same terms.
SeamAgrees ==
    stage = "admitted" /\ caller = "asks" /\ revisions = 0 =>
        /\ \A tier \in CacheTier, size \in EntrySizes :
              Cardinality(Alike(victims, tier, size)) = Cardinality(Alike(displaced, tier, size))
        /\ \A e \in victims \ displaced, d \in displaced \ victims :
              Facts(e).tier = Facts(d).tier
              => entries[e].size = entries[d].size /\ Tied(e, d)
        /\ asking = policy => victims = displaced

\* The incoming capsule fits, unless the pins leave too little room, and then
\* every unpinned entry is gone (eviction.rs:75-77); a pin is never a victim.
RoomForIncoming ==
    stage = "admitted" =>
        /\ victims \cap EntryPins = {}
        /\ \/ EntryBytes(Kept) + entries[Incoming].size <= limit
           \/ Kept = EntryPins

\* Room is freed for the incoming capsule and no more: no victim could be
\* put back.
NoNeedlessVictim ==
    stage = "admitted" =>
        \A e \in victims :
            EntryBytes(Kept) + entries[e].size + entries[Incoming].size > limit

\* A challenger that had to ask turns out, of a cache within its limit, only
\* entries of its own tier or of a lower one: profit is never traded for it.
AskingNeverDemotesProfit ==
    /\ stage = "admitted"
    /\ caller = "asks"
    /\ revisions = 0
    /\ EntryBytes(Held) <= limit
    => \A e \in victims :
            rank(Offer[e].tier) <= rank(Offer[Incoming].tier)

\* eviction.rs:13-15 says that under TieredPolicy a full cache evicts all
\* Tier0 before any Tier1, and all Tier1 before any Tier2.
LowerTiersGoFirst ==
    stage = "admitted" =>
        \A e \in victims, k \in Kept \ EntryPins :
            rank(Offer[e].tier) <= rank(Offer[k].tier)
=============================================================================
