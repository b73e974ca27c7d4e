------------------------------ MODULE Routing ------------------------------
(***************************************************************************)
(* Whom a node asks (routing.rs): the bounded log of what it observed of   *)
(* its peers' answers, the ranking by decayed quality and the slot kept    *)
(* for a peer never observed.                                              *)
(*                                                                         *)
(* The host is external: its connected pool changes, it asks the slate     *)
(* select_fan_out returns, an ask completes later (in the meantime the     *)
(* peer may have left, or be asked again) and every completed ask is       *)
(* recorded.  The clock counts half-lives of an observation, latencies     *)
(* count ticks.  An entry keeps its AGE instead of its stamp; after Faded  *)
(* half-lives what is left of a score is lost in the rounding of           *)
(* `0.5 + weight * d`, and ages stop there.                                *)
(***************************************************************************)
EXTENDS Integers, FiniteSets, FiniteSetsExt

CONSTANTS
    Peers,                  \* the peers that can be connected
    Visitors,               \* those that come and go
    Tiebreak,               \* mix64(seed ^ mix64(routing_key)) of each peer
    Capacities,             \* the capacities a log may be made with
    FanOut,                 \* peers asked per miss
    LATENCY_SCALE_TICKS,
    Latencies,              \* the latencies of an answer
    MaxU32, MaxU64,         \* the widths of the counts and of the latency total
    Faded,                  \* 53 half-lives in the code
    Halvings                \* what a score is divided by at each age: 2 ^ age

ASSUME RoutingAssumption ==
    /\ IsFiniteSet(Peers)
    /\ Visitors \subseteq Peers
    /\ Tiebreak \in [Peers -> Nat]
    \* Keys are distinct: mix64 is a bijection, the key a hash of the identity.
    /\ \A p, q \in Peers : Tiebreak[p] = Tiebreak[q] => p = q
    /\ Capacities \subseteq Nat
    /\ FanOut \in Nat
    /\ LATENCY_SCALE_TICKS \in Nat \ {0}
    /\ MaxU32 \in Nat \ {0}
    /\ MaxU64 \in Nat
    /\ Latencies \subseteq 0..MaxU64
    /\ Faded \in Nat \ {0}
    /\ Halvings \in [0..Faded -> Nat \ {0}]
    /\ Halvings[0] = 1
    /\ \A age \in 1..Faded : Halvings[age] = 2 * Halvings[age - 1]

VARIABLES
    pool,       \* the connected peers
    capacity,   \* AskObservations::capacity, at least one
    log,        \* AskObservations::entries: what was observed, of the tracked peers
    asked       \* asks not completed yet

vars == <<pool, capacity, log, asked>>

-----------------------------------------------------------------------------
(* PeerObservations *)

AskOutcome == {"Conclusive", "Inconclusive", "Silent"}

PeerObservations ==
    [asks : 0..MaxU32, answered : 0..MaxU32, conclusive : 0..MaxU32,
     latency_total : 0..MaxU64, age : 0..Faded]

unobserved ==
    [asks |-> 0, answered |-> 0, conclusive |-> 0, latency_total |-> 0, age |-> 0]

is_unobserved(seen) == seen.asks = 0

\* saturating_add of an unsigned type with this maximum.
SaturatingAdd(x, y, max) == IF x + y > max THEN max ELSE x + y

\* Mutant: silence counts as an answer.
recorded_SilentAnswers(seen, outcome, latency) ==
    [asks          |-> SaturatingAdd(seen.asks, 1, MaxU32),
     answered      |-> SaturatingAdd(seen.answered, 1, MaxU32),
     conclusive    |-> IF outcome = "Conclusive"
                       THEN SaturatingAdd(seen.conclusive, 1, MaxU32) ELSE seen.conclusive,
     latency_total |-> IF outcome # "Silent"
                       THEN SaturatingAdd(seen.latency_total, latency, MaxU64) ELSE seen.latency_total,
     age           |-> 0]

\* PeerObservations::record
recorded(seen, outcome, latency) ==
    LET answers == outcome # "Silent" IN
    [asks          |-> SaturatingAdd(seen.asks, 1, MaxU32),
     answered      |-> IF answers
                       THEN SaturatingAdd(seen.answered, 1, MaxU32) ELSE seen.answered,
     conclusive    |-> IF outcome = "Conclusive"
                       THEN SaturatingAdd(seen.conclusive, 1, MaxU32) ELSE seen.conclusive,
     latency_total |-> IF answers
                       THEN SaturatingAdd(seen.latency_total, latency, MaxU64) ELSE seen.latency_total,
     age           |-> 0]

\* Mutants: a score that decays towards zero; one that does not decay.
quality_TowardsZero(seen) ==
    LET scaled == LATENCY_SCALE_TICKS * seen.answered
        spread == IF seen.answered = 0 THEN 1 ELSE scaled + seen.latency_total
        rates  == 12 * seen.conclusive + 5 * seen.answered
        score  == rates * spread + 3 * scaled * seen.asks
        whole  == seen.asks * spread * Halvings[seen.age]
    IN  IF is_unobserved(seen)
        THEN [num |-> 0, den |-> 1]
        ELSE [num |-> score - 10 * whole, den |-> whole]

quality_Lasting(seen) ==
    LET scaled == LATENCY_SCALE_TICKS * seen.answered
        spread == IF seen.answered = 0 THEN 1 ELSE scaled + seen.latency_total
        rates  == 12 * seen.conclusive + 5 * seen.answered - 10 * seen.asks
    IN  IF is_unobserved(seen)
        THEN [num |-> 0, den |-> 1]
        ELSE [num |-> rates * spread + 3 * scaled * seen.asks, den |-> seen.asks * spread]

\* PeerObservations::quality.  In twentieths, as a fraction num/den of the
\* distance from UNOBSERVED_QUALITY: 0.6 of the conclusive rate, 0.25 of the
\* answer rate and 0.15 of scale / (scale + mean latency), halved per age.
quality(seen) ==
    LET scaled == LATENCY_SCALE_TICKS * seen.answered
        spread == IF seen.answered = 0 THEN 1 ELSE scaled + seen.latency_total
        rates  == 12 * seen.conclusive + 5 * seen.answered - 10 * seen.asks
    IN  IF is_unobserved(seen) \/ seen.age = Faded
        THEN [num |-> 0, den |-> 1]
        ELSE [num |-> rates * spread + 3 * scaled * seen.asks,
              den |-> seen.asks * spread * Halvings[seen.age]]

Exceeds(x, y) == x.num * y.den > y.num * x.den
Equals(x, y)  == x.num * y.den = y.num * x.den

-----------------------------------------------------------------------------
(* AskObservations and the ranking *)

Tracked == DOMAIN log

\* AskObservations::of
of(p) == IF p \in Tracked THEN log[p] ELSE unobserved

\* The scores a ranking compares.
Scores(candidates) == [p \in candidates |-> quality(of(p))]

\* rank: p goes before q.
Outranks(scores, p, q) ==
    \/ Exceeds(scores[p], scores[q])
    \/ Equals(scores[p], scores[q]) /\ Tiebreak[p] < Tiebreak[q]

\* The n best of the candidates.
Top(n, candidates) ==
    LET scores == Scores(candidates)
    IN  {p \in candidates : Cardinality({q \in candidates : Outranks(scores, q, p)}) < n}

\* The last of the candidates, as a set.
Hindmost(candidates) ==
    LET scores == Scores(candidates)
    IN  {p \in candidates : \A q \in candidates \ {p} : Outranks(scores, q, p)}

Unknown(candidates) == {p \in candidates : is_unobserved(of(p))}

\* An explorer has to be put into the slate, and there is one.
Explores(candidates, chosen) ==
    /\ FanOut >= 2
    /\ Cardinality(chosen) >= FanOut
    /\ Unknown(chosen) = {}
    /\ Unknown(candidates \ chosen) # {}

\* Mutants: no slot is reserved; the explorer comes on top of a full slate.
select_fan_out_NoReserve(candidates) == Top(FanOut, candidates)
select_fan_out_NoPop(candidates) ==
    LET chosen == Top(FanOut, candidates)
    IN  IF Explores(candidates, chosen)
        THEN chosen \cup Top(1, Unknown(candidates \ chosen))
        ELSE chosen

\* select_fan_out: the last slot goes to the best-placed peer never observed,
\* unless one is chosen already or there is no slot to spare.
select_fan_out(candidates) ==
    LET chosen == Top(FanOut, candidates)
    IN  IF Explores(candidates, chosen)
        THEN (chosen \ Hindmost(chosen)) \cup Top(1, Unknown(candidates \ chosen))
        ELSE chosen

\* min_by_key on the stamps.  Ages are coarser than stamps: of several oldest
\* entries the code drops one, the model any.
LeastRecent == {p \in Tracked : \A q \in Tracked : log[q].age <= log[p].age}

\* The log with these observations of p, after p's row was found or pushed.
With(p, seen, kept) ==
    [q \in kept \cup {p} |-> IF q = p THEN seen ELSE log[q]]

-----------------------------------------------------------------------------
Init ==
    /\ pool = Peers \ Visitors
    /\ \E c \in Capacities : capacity = Max({c, 1})
    /\ log = [p \in {} |-> unobserved]
    /\ asked = {}

\* The host asks the slate for a miss of its own.
Ask ==
    /\ UNCHANGED <<pool, capacity, log>>
    /\ asked' = asked \cup select_fan_out(pool)

\* AskObservations::record
record(p, outcome, latency) ==
    LET seen == recorded(of(p), outcome, latency) IN
    \/ /\ p \in Tracked \/ Cardinality(Tracked) < capacity
       /\ log' = With(p, seen, Tracked)
    \/ /\ p \notin Tracked
       /\ Cardinality(Tracked) >= capacity
       /\ \E oldest \in LeastRecent : log' = With(p, seen, Tracked \ {oldest})

\* An ask completes, whether or not the peer is still connected.
Complete(p) ==
    /\ p \in asked
    /\ asked' = asked \ {p}
    /\ UNCHANGED <<pool, capacity>>
    /\ \/ record(p, "Silent", 0)
       \/ \E outcome \in {"Conclusive", "Inconclusive"}, latency \in Latencies :
             record(p, outcome, latency)

\* AskObservations::retain, which the host calls some time after a change.
Retain ==
    /\ ~(Tracked \subseteq pool)
    /\ log' = [p \in Tracked \cap pool |-> log[p]]
    /\ UNCHANGED <<pool, capacity, asked>>

\* A half-life passes.
Tick ==
    /\ log' = [p \in Tracked |->
                 [log[p] EXCEPT !.age = IF @ < Faded THEN @ + 1 ELSE @]]
    /\ UNCHANGED <<pool, capacity, asked>>

Connect(p) ==
    /\ p \notin pool
    /\ pool' = pool \cup {p}
    /\ UNCHANGED <<capacity, log, asked>>

Disconnect(p) ==
    /\ p \in pool
    /\ pool' = pool \ {p}
    /\ UNCHANGED <<capacity, log, asked>>

Next ==
    \/ Ask \/ Retain \/ Tick
    \/ \E p \in Peers : Complete(p)
    \/ \E p \in Visitors : Connect(p) \/ Disconnect(p)

Spec == Init /\ [][Next]_vars

\* The node asks again once nothing is in flight, every ask ends with an
\* answer or a deadline, and the host retains some time after the pool
\* changed.  Each of these steps is told by what it does to one variable; only
\* a slate takes `asked` from nothing to something.
Fairness ==
    /\ WF_asked(asked = {} /\ FanOut > 0 /\ asked' \in (SUBSET pool) \ {{}})
    /\ \A p \in Peers : WF_asked(p \in asked /\ asked' = asked \ {p})
    /\ WF_log(~(Tracked \subseteq pool) /\ log' = [p \in Tracked \cap pool |-> log[p]])

FairSpec == Spec /\ Fairness

-----------------------------------------------------------------------------
(* Properties *)

TypeOK ==
    /\ pool \subseteq Peers
    /\ capacity \in Nat \ {0}
    /\ Tracked \subseteq Peers
    /\ log \in [Tracked -> PeerObservations]
    /\ Cardinality(Tracked) <= capacity
    /\ asked \subseteq Peers

\* However long a peer is observed, through counts that have saturated, its
\* score stays a share: between 0 and 1, so that no history puts a peer out of
\* the others' reach (routing.rs:136-137).
QualityIsAShare ==
    \A p \in Tracked :
        LET q == quality(log[p])
        IN  /\ ~is_unobserved(log[p])
            /\ -10 * q.den <= q.num
            /\ q.num <= 10 * q.den

\* The slate of a miss is full, holds a peer never observed if
\* there is one and a slot to spare, and gives up at most one of the best
\* for it (routing.rs:281-291).
SlateKeepsASlot ==
    LET slate == select_fan_out(pool)
        best  == Top(FanOut, pool)
    IN  /\ slate \subseteq pool
        /\ Cardinality(slate) = Min({FanOut, Cardinality(pool)})
        /\ FanOut >= 2 /\ Unknown(pool) # {} => Unknown(slate) # {}
        /\ Cardinality(best \ slate) <= 1
        /\ Unknown(best) # {} => slate = best

\* Praise and blame fade into "unknown" (routing.rs:26-32, 151-154): with every
\* half-life a score comes at least twice as close to that of a peer never
\* observed, from the side it is on, and after Faded of them it is there.
Distance(x) == IF x < 0 THEN -x ELSE x

TimeFades ==
    [][Tick => \A p \in Tracked :
          LET q == quality(log[p])
              r == quality(log'[p])
          IN  /\ q.num > 0 => r.num >= 0
              /\ q.num < 0 => r.num <= 0
              /\ 2 * Distance(r.num) * q.den <= Distance(q.num) * r.den
              /\ log'[p].age = Faded => r.num = 0]_vars

\* A score is a share, and time alone takes it back to "unknown".
SharesFade == []QualityIsAShare /\ TimeFades

\* An answer that found nothing leaves a peer no worse off than silence, as
\* long as it is no slower than the peer's answers were so far and the count
\* of answers can still grow.
PromptAnswersBeatSilence ==
    \A p \in Peers, latency \in Latencies :
        /\ of(p).answered < MaxU32
        /\ latency * of(p).answered <= of(p).latency_total
        =>
            ~Exceeds(quality(recorded(of(p), "Silent", 0)),
                     quality(recorded(of(p), "Inconclusive", latency)))

\* Peers stop coming and going.
PoolSettles == <>[][pool' = pool]_pool

\* A pool that settles and is no larger than the log is asked through: every
\* member is observed in the end, whoever answers best, and is never
\* forgotten again (routing.rs:283-288).
EveryoneIsHeard ==
    PoolSettles /\ <>[](Cardinality(pool) <= capacity)
        => <>[](\A p \in pool : ~is_unobserved(of(p)))
=============================================================================
