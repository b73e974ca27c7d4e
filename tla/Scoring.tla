------------------------------ MODULE Scoring ------------------------------
(***************************************************************************)
(* What a store is worth to a node (relevance.rs) while time passes, local *)
(* users read it, peers report who else holds it and the operator pins it. *)
(*                                                                         *)
(* The signals and the sweep that puts the worthier store into a full      *)
(* cache are the host's, external; the score, the margin and the           *)
(* neighbourhood are the code's.  Scores are exact here, counted in parts  *)
(* of Whole; the rounding of a sum of scores is Relevance's, the rounding  *)
(* of an XOR distance, of which an f64 keeps two significant bits of four  *)
(* here and 53 of 128 in the code, is modelled.                            *)
(***************************************************************************)
EXTENDS Integers, FiniteSets

F == INSTANCE Relevance

CONSTANTS
    Stores,
    Distances,      \* the functions that give the stores' XOR distances (hi)
    Reports,        \* the provider counts a peer may report
    Batch,          \* reads counted at once
    MaxReads, MaxAge,
    Margins         \* displacement margins, in the parts scores are counted in

\* The parts of 1.0: every term below is a whole number of them.
Whole == 1488
\* u128::MAX, with four bits for 128.
MaxDistance == 15
\* RECENCY_SCALE ticks are the unit of time.
SCARCITY_CLAMP_LO == 1
SCARCITY_CLAMP_HI == 32
DEMAND_SATURATION == 16

\* RelevanceWeights::default, in hundredths.
weights ==
    [xor |-> 100, scarcity |-> 25, demand |-> 40, recency |-> 20,
     pin_adjacent |-> 15, pinned |-> 200]

\* DisplacementMargin raises a margin to 0.01; a score of 1.0 is 100 * Whole.
MIN_DISPLACEMENT_MARGIN == 1488

ASSUME ScoringAssumption ==
    /\ IsFiniteSet(Stores)
    /\ Distances \subseteq [Stores -> 0..MaxDistance]
    /\ Reports \subseteq Nat
    /\ Batch \in Nat \ {0}
    /\ MaxReads \in Nat
    /\ MaxAge \in Nat
    /\ \A m \in Margins : m \in Nat /\ m >= MIN_DISPLACEMENT_MARGIN

VARIABLES
    distance,       \* hi of every store, fixed by its content id and the peer id
    signals,        \* RelevanceInputs of every store
    margin,
    slot,           \* the one store the cache holds
    swaps           \* displacements since something other than time changed

vars == <<distance, signals, margin, slot, swaps>>

\* At most one of these.
Optional(set) == {{}} \cup {{x} : x \in set}

\* RelevanceInputs
RelevanceInputs ==
    [known_provider_count : Nat, local_read_count : 0..MaxReads,
     reads_recency_ticks : Optional(0..MaxAge), is_pinned : BOOLEAN,
     pin_adjacent : BOOLEAN]

-----------------------------------------------------------------------------
(* The terms, each between 0 and Whole *)

Least(x, y) == IF x <= y THEN x ELSE y

\* xor_proximity: hi and u128::MAX are rounded to f64 before they are divided.
xor_proximity(hi) ==
    Whole - (Whole * F!Rounded(hi)) \div F!Rounded(MaxDistance)

scarcity_term(count) ==
    LET clamped == IF count < SCARCITY_CLAMP_LO THEN SCARCITY_CLAMP_LO
                   ELSE Least(count, SCARCITY_CLAMP_HI)
    IN  (Whole * (SCARCITY_CLAMP_HI - clamped))
            \div (SCARCITY_CLAMP_HI - SCARCITY_CLAMP_LO)

\* Mutant: reads count without end.
demand_term_Unsaturated(count) == (Whole * count) \div DEMAND_SATURATION

demand_term(count) ==
    (Whole * Least(count, DEMAND_SATURATION)) \div DEMAND_SATURATION

\* 1 / (1 + age / RECENCY_SCALE), nothing when never read.
recency_term(ages) ==
    IF ages = {} THEN 0 ELSE Whole \div (1 + CHOOSE age \in ages : TRUE)

\* The secondaries that others can bring about.
gameable(s) ==
      weights.scarcity * scarcity_term(s.known_provider_count)
    + weights.demand * demand_term(s.local_read_count)
    + weights.recency * recency_term(s.reads_recency_ticks)

\* What the operator says of the store.
operators(s) ==
      (IF s.pin_adjacent THEN weights.pin_adjacent * Whole ELSE 0)
    + (IF s.is_pinned THEN weights.pinned * Whole ELSE 0)

relevance(hi, s) == weights.xor * xor_proximity(hi) + gameable(s) + operators(s)

\* Mutant: the margin is granted to the challenger.
should_displace_WrongSide(incumbent, candidate, m) == candidate + m > incumbent

\* should_displace
should_displace(incumbent, candidate, m) == candidate > incumbent + m

\* in_keyspace_neighbourhood, with INBOUND_DEMAND_MIN_PROXIMITY of one half.
in_keyspace_neighbourhood(hi) == 2 * xor_proximity(hi) >= Whole

Worth(store) == relevance(distance[store], signals[store])

-----------------------------------------------------------------------------
Init ==
    /\ distance \in Distances
    /\ signals = [s \in Stores |->
                    [known_provider_count |-> 1, local_read_count |-> 0,
                     reads_recency_ticks |-> {}, is_pinned |-> FALSE,
                     pin_adjacent |-> FALSE]]
    /\ margin \in Margins
    /\ slot \in Stores
    /\ swaps = 0

\* A signal of the store changes.
Revise(store, revised) ==
    /\ signals' = [signals EXCEPT ![store] = revised]
    /\ swaps' = 0
    /\ UNCHANGED <<distance, margin, slot>>

Report(store, count) ==
    /\ signals[store].known_provider_count # count
    /\ Revise(store, [signals[store] EXCEPT !.known_provider_count = count])

\* Local users read the store.
Read(store) ==
    /\ signals[store].local_read_count + Batch <= MaxReads
    /\ Revise(store, [signals[store] EXCEPT !.local_read_count = @ + Batch,
                                            !.reads_recency_ticks = {0}])

\* The operator pins one store; the others are near it or not.
Pin(store, adjacent) ==
    /\ ~signals[store].is_pinned
    /\ signals' = [s \in Stores |->
                     [signals[s] EXCEPT !.is_pinned = s = store,
                                        !.pin_adjacent = s # store /\ adjacent]]
    /\ swaps' = 0
    /\ UNCHANGED <<distance, margin, slot>>

Unpin ==
    /\ \E s \in Stores : signals[s].is_pinned
    /\ signals' = [s \in Stores |->
                     [signals[s] EXCEPT !.is_pinned = FALSE, !.pin_adjacent = FALSE]]
    /\ swaps' = 0
    /\ UNCHANGED <<distance, margin, slot>>

\* RECENCY_SCALE ticks pass.
Tick ==
    /\ \E s \in Stores : \E age \in signals[s].reads_recency_ticks : age < MaxAge
    /\ signals' = [s \in Stores |->
                     [signals[s] EXCEPT !.reads_recency_ticks =
                        {Least(age + 1, MaxAge) : age \in @}]]
    /\ UNCHANGED <<distance, margin, slot, swaps>>

\* A store the node has a reason to hold: a peer asked for it and it is near,
\* or its own users or the operator want it.
Wanted(store) ==
    \/ in_keyspace_neighbourhood(distance[store])
    \/ signals[store].local_read_count > 0
    \/ signals[store].is_pinned

\* The sweep offers the held store's place to another.
Displace(store) ==
    /\ store # slot
    /\ Wanted(store)
    /\ should_displace(Worth(slot), Worth(store), margin)
    /\ slot' = store
    /\ swaps' = swaps + 1
    /\ UNCHANGED <<distance, signals, margin>>

Next ==
    \/ \E store \in Stores :
          \/ \E count \in Reports : Report(store, count)
          \/ Read(store)
          \/ \E adjacent \in BOOLEAN : Pin(store, adjacent)
          \/ Displace(store)
    \/ Unpin
    \/ Tick

Spec == Init /\ [][Next]_vars

-----------------------------------------------------------------------------
(* Properties *)

TypeOK ==
    /\ distance \in Distances
    /\ signals \in [Stores -> RelevanceInputs]
    /\ margin \in Margins
    /\ slot \in Stores
    /\ swaps \in Nat

\* However the counts are driven, what others can bring about moves a score
\* by less than the whole proximity term, and a report of providers alone by
\* at most its own weight (relevance.rs:44-51, 93-98).
ALieNudges ==
    \A s \in Stores :
        /\ gameable(signals[s]) \in 0..((weights.xor - 15) * Whole)
        /\ \A count \in Reports :
              LET told == relevance(distance[s],
                            [signals[s] EXCEPT !.known_provider_count = count])
              IN  /\ told - Worth(s) <= weights.scarcity * Whole
                  /\ Worth(s) - told <= weights.scarcity * Whole

\* Between two stores of which the operator says the same, one that is nearer
\* by more than the gameable weights keeps its place whatever is done to the
\* other's counts and reads.
NearKeepsItsPlace ==
    [][slot' # slot /\ operators(signals[slot]) = operators(signals[slot']) =>
          100 * (xor_proximity(distance[slot]) - xor_proximity(distance[slot']))
              < 85 * Whole]_vars

\* A pinned store gives its place only to another that is pinned.
PinKeepsItsPlace ==
    [][slot' # slot /\ signals[slot].is_pinned => signals[slot'].is_pinned]_vars

\* Sweeps settle: while nothing but time passes two stores change places at
\* most twice, once for what had changed before and once because the bonus
\* of a recent read fades; they never take turns (relevance.rs:250-255).
SweepsSettle == Cardinality(Stores) <= 2 => swaps <= 2

\* A store of the far half, whatever peers demand or report of it, takes a
\* place only if its own users or the operator want it; the border is blurred
\* by half the distance between neighbouring f64 values (relevance.rs:204-208).
FarIsNotDemanded ==
    [][slot' # slot /\ 2 * distance[slot'] > MaxDistance + 1 + F!Ulp(MaxDistance) =>
          \/ signals[slot'].local_read_count > 0
          \/ signals[slot'].is_pinned]_vars

\* No place is lost to what peers can bring about: not by a near store to a far
\* one, not by a pinned one, and not to one beyond the neighbourhood
\* (relevance.rs:44-51, 178-181).
DisplacementIsEarned ==
    NearKeepsItsPlace /\ PinKeepsItsPlace /\ FarIsNotDemanded
=============================================================================
