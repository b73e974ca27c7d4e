----------------------------- MODULE Selection -----------------------------
(***************************************************************************)
(* One call of select_within_capacity (selection.rs), one step per         *)
(* candidate: every pin is retained, then the tiers are offered what is    *)
(* left in descending rank, each smallest candidate first.                 *)
(*                                                                         *)
(* A candidate is named by its position in the input slice.  The shuffle   *)
(* value of a position is mix64(seed ^ mix64(position)), a bijection of    *)
(* u64 applied twice, so all the call sees of a seed is SOME injective     *)
(* function on positions.  `retained` is a set: nothing is claimed of its  *)
(* order that the tiers do not already say.                                *)
(***************************************************************************)
EXTENDS Tier, Relevance, Sums, Sequences, FiniteSets

CONSTANTS
    MaxBytes,       \* u64::MAX
    MaxPool,        \* the longest slice
    Slices,         \* the slices of candidates offered
    Capacities,     \* the capacities asked for
    Margins,        \* the margins requested
    Shuffles        \* the shuffles of the seeds

Score == Representable \cup {NaN, NegInf}

Slots == 1..MaxPool

SelectionCandidate ==
    [tier : CacheTier, size_bytes : 0..MaxBytes, score : Score,
     pinned : BOOLEAN, resident : BOOLEAN]

Injective(f) == \A x, y \in DOMAIN f : f[x] = f[y] => x = y

ASSUME SelectionAssumption ==
    /\ MaxBytes \in Nat
    /\ MaxPool \in Nat
    /\ \A slice \in Slices : slice \in Seq(SelectionCandidate) /\ Len(slice) <= MaxPool
    /\ Capacities \subseteq 0..MaxBytes
    /\ Margins \subseteq Representable \cup {NaN}
    /\ \A s \in Shuffles : s \in [Slots -> Slots] /\ Injective(s)

VARIABLES
    pool,       \* the slice of candidates
    capacity,   \* policy.capacity_bytes
    margin,     \* policy.margin
    shuffle,    \* tiebreak(policy.seed, position)
    phase,      \* "pins", "tiers", "done"
    turn,       \* the tier being offered, an index of Ladder
    todo,       \* the positions not decided yet
    used,       \* bytes claimed so far, saturating
    retained,   \* the positions retained
    rejected    \* the positions rejected, reversed before the call returns

arguments == <<pool, capacity, margin, shuffle>>
vars == <<pool, capacity, margin, shuffle, phase, turn, todo, used, retained, rejected>>

\* Mutant: a ladder climbed upwards.
Ladder_Ascending == <<"Tier0Precache", "Tier1Demand", "Tier2Bribed">>

\* The order in which the tiers are offered capacity.
Ladder == <<"Tier2Bribed", "Tier1Demand", "Tier0Precache">>

Positions == DOMAIN pool
Pins      == {c \in Positions : pool[c].pinned}
Rejected  == {rejected[i] : i \in DOMAIN rejected}

\* Mutant: wrapping_add.
SaturatingAdd_Wraps(x, y) == (x + y) % (MaxBytes + 1)

\* u64::saturating_add
SaturatingAdd(x, y) == IF x + y > MaxBytes THEN MaxBytes ELSE x + y

\* Mutants: the margin taken off the challenger; no margin at all.
contested_score_Discounts(c) ==
    IF pool[c].resident \/ pool[c].score \in {NaN, NegInf}
    THEN pool[c].score
    ELSE Rounded(pool[c].score - margin)
contested_score_NoMargin(c) == pool[c].score

\* contested_score: the margin is added to the incumbent.
contested_score(c) ==
    IF pool[c].resident THEN Add(pool[c].score, margin) ELSE pool[c].score

\* Mutants: score before size; challengers before incumbents.
Ahead_ScoreFirst(c, d) ==
    \/ contested_score(c) > contested_score(d)
    \/ /\ contested_score(c) = contested_score(d)
       /\ \/ pool[c].size_bytes < pool[d].size_bytes
          \/ pool[c].size_bytes = pool[d].size_bytes /\ shuffle[c] < shuffle[d]
Ahead_ChallengersFirst(c, d) ==
    \/ pool[c].size_bytes < pool[d].size_bytes
    \/ /\ pool[c].size_bytes = pool[d].size_bytes
       /\ contested_score(c) > contested_score(d)
    \/ /\ pool[c].size_bytes = pool[d].size_bytes
       /\ contested_score(c) = contested_score(d)
       /\ \/ ~pool[c].resident /\ pool[d].resident
          \/ pool[c].resident = pool[d].resident /\ shuffle[c] < shuffle[d]

\* The comparator of the sort: size, contested score, incumbency, shuffle.
Ahead(c, d) ==
    \/ pool[c].size_bytes < pool[d].size_bytes
    \/ /\ pool[c].size_bytes = pool[d].size_bytes
       /\ contested_score(c) > contested_score(d)
    \/ /\ pool[c].size_bytes = pool[d].size_bytes
       /\ contested_score(c) = contested_score(d)
       /\ \/ pool[c].resident /\ ~pool[d].resident
          \/ pool[c].resident = pool[d].resident /\ shuffle[c] < shuffle[d]

\* What is left of the tier being offered, pins excluded.
in_tier == {c \in todo : ~pool[c].pinned /\ pool[c].tier = Ladder[turn]}

\* Mutant: the tier is not sorted.
IsNext_Unsorted(c) == c \in in_tier /\ \A d \in in_tier : c <= d

IsNext(c) == c \in in_tier /\ \A d \in in_tier \ {c} : Ahead(c, d)

-----------------------------------------------------------------------------
\* The state in which a call with these arguments starts.
Called(slice, bytes, requested_margin, seed) ==
    /\ pool = slice
    /\ capacity = bytes
    /\ margin = DisplacementMargin(requested_margin)
    /\ shuffle = seed
    /\ phase = "pins"
    /\ turn = 1
    /\ todo = DOMAIN slice
    /\ used = 0
    /\ retained = {}
    /\ rejected = <<>>

Init ==
    \E slice \in Slices, bytes \in Capacities, m \in Margins, seed \in Shuffles :
        Called(slice, bytes, m, seed)

\* Pins are retained in slice order, whatever they weigh.
RetainPin(c) ==
    /\ phase = "pins"
    /\ c \in todo \cap Pins
    /\ \A d \in todo \cap Pins : c <= d
    /\ retained' = retained \cup {c}
    /\ used' = SaturatingAdd(used, pool[c].size_bytes)
    /\ todo' = todo \ {c}
    /\ UNCHANGED <<arguments, phase, turn, rejected>>

OfferTiers ==
    /\ phase = "pins"
    /\ todo \cap Pins = {}
    /\ phase' = "tiers"
    /\ UNCHANGED <<arguments, turn, todo, used, retained, rejected>>

Retain(c) ==
    /\ phase = "tiers"
    /\ turn \in 1..3
    /\ IsNext(c)
    /\ SaturatingAdd(used, pool[c].size_bytes) <= capacity
    /\ used' = SaturatingAdd(used, pool[c].size_bytes)
    /\ retained' = retained \cup {c}
    /\ todo' = todo \ {c}
    /\ UNCHANGED <<arguments, phase, turn, rejected>>

\* A candidate that does not fit is passed over; the next one is still tried.
Reject(c) ==
    /\ phase = "tiers"
    /\ turn \in 1..3
    /\ IsNext(c)
    /\ SaturatingAdd(used, pool[c].size_bytes) > capacity
    /\ rejected' = Append(rejected, c)
    /\ todo' = todo \ {c}
    /\ UNCHANGED <<arguments, phase, turn, used, retained>>

NextTier ==
    /\ phase = "tiers"
    /\ turn \in 1..3
    /\ in_tier = {}
    /\ turn' = turn + 1
    /\ UNCHANGED <<arguments, phase, todo, used, retained, rejected>>

\* Mutant: no reversal.
Backwards_Forwards(s) == s

\* Selection ran highest tier first; eviction runs lowest tier first.
Backwards(s) == [i \in 1..Len(s) |-> s[Len(s) + 1 - i]]

Return ==
    /\ phase = "tiers"
    /\ turn = 4
    /\ rejected' = Backwards(rejected)
    /\ phase' = "done"
    /\ UNCHANGED <<arguments, turn, todo, used, retained>>

Next ==
    \/ \E c \in Slots : RetainPin(c) \/ Retain(c) \/ Reject(c)
    \/ OfferTiers
    \/ NextTier
    \/ Return

Spec == Init /\ [][Next]_vars

-----------------------------------------------------------------------------
(* Properties *)

TypeOK ==
    /\ pool \in Seq(SelectionCandidate) /\ Len(pool) <= MaxPool
    /\ capacity \in 0..MaxBytes
    /\ margin \in Representable
    /\ shuffle \in [Slots -> Slots]
    /\ phase \in {"pins", "tiers", "done"}
    /\ turn \in 1..4
    /\ todo \subseteq Positions
    /\ used \in 0..MaxBytes
    /\ retained \subseteq Positions
    /\ rejected \in Seq(Positions)

\* Every candidate lands in exactly one of retained and rejected, once, and a
\* pin only ever in retained (selection.rs:283, eviction.rs:111-113).
EveryCandidateOnce ==
    /\ Positions = todo \cup retained \cup Rejected
    /\ todo \cap (retained \cup Rejected) = {}
    /\ retained \cap Rejected = {}
    /\ \A i, j \in DOMAIN rejected : rejected[i] = rejected[j] => i = j
    /\ Rejected \cap Pins = {}
    /\ phase = "done" => todo = {}

\* Within a tier what is retained is an initial segment of the contest's
\* order: no reject is ahead of a retained candidate, although a reject does
\* not stop the walk (selection.rs:353-360).
SmallestFirst ==
    \A c \in Rejected, d \in retained \ Pins :
        pool[c].tier = pool[d].tier => Ahead(d, c)

\* A challenger takes the place of an incumbent of its tier and size exactly
\* when may_displace says so (selection.rs:148-149, 391-393), whatever the
\* shuffle; scores that are NaN are ordered otherwise and left out.
Displaced(incumbent, challenger) ==
    /\ incumbent \in Rejected /\ challenger \in retained

Contest(i, c) ==
    /\ pool[i].tier = pool[c].tier
    /\ pool[i].size_bytes = pool[c].size_bytes
    /\ pool[i].resident /\ ~pool[c].resident
    /\ {i, c} \cap Pins = {}

MayDisplace(i, c) == may_displace(pool[i].score, pool[c].score, margin)

AgreesWithMayDisplace ==
    \A i, c \in Positions :
        Contest(i, c) /\ NaN \notin {pool[i].score, pool[c].score} =>
            /\ Displaced(i, c) => MayDisplace(i, c)
            /\ Displaced(c, i) => ~MayDisplace(i, c)

Sizes == [c \in Positions |-> pool[c].size_bytes]

Bytes(slots) == SumOver(Sizes, slots)

\* The pins of a set and what it holds of the tier of c or a higher one.
NotBelow(c, slots) ==
    {d \in slots : d \in Pins \/ rank(pool[d].tier) >= rank(pool[c].tier)}

\* Profit first: a candidate is only ever turned away by pins and by
\* candidates of its own or a higher tier (selection.rs:8-11).
NoTierInversion ==
    \A c \in Rejected :
        Bytes(NotBelow(c, retained)) + pool[c].size_bytes > capacity

\* Rejects are returned lowest tier first, and within a tier the ones the
\* walk reached last first (selection.rs:269-271).
EvictionOrder ==
    phase = "done" =>
        \A i, j \in DOMAIN rejected :
            i < j =>
                LET first == rejected[i]
                    later == rejected[j]
                IN  \/ rank(pool[first].tier) < rank(pool[later].tier)
                    \/ pool[first].tier = pool[later].tier /\ Ahead(later, first)

\* Saturation fails safe: below u64::MAX the retained bytes, counted without
\* overflow, stay within capacity, and nothing joins pins that exceed it.
WithinCapacity ==
    capacity < MaxBytes =>
        \/ Bytes(retained) <= capacity
        \/ retained \subseteq Pins

\* The call implements the objective it documents: see MirrorObjective.
Objective ==
    INSTANCE MirrorObjective WITH
        offered <- pool,
        allowance <- capacity,
        held <- IF phase = "done" THEN retained ELSE {0}

ObjectiveSpec == Objective!Spec
=============================================================================
