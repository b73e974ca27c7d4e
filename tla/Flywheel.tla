------------------------------ MODULE Flywheel ------------------------------
(***************************************************************************)
(* Every read makes content more available (acquisition.rs) and every      *)
(* eviction is a retraction (holdings.rs).                                 *)
(*                                                                         *)
(* The crate decides and computes deltas; the rest is the host's, modelled *)
(* as those two modules document it: readers look the cache up, decide,    *)
(* and start pulls; pulls land in the cache and push capsules out of it;   *)
(* deltas wait until they are applied to what the node advertises; a crash *)
(* loses them; a reconciliation repairs.                                   *)
(*                                                                         *)
(* A careful host applies deltas in order, loses them only in a crash, and *)
(* reconciles from one view of the two sets.  Any other may forget a       *)
(* delta, apply a late one first, and reconcile from a view gone stale.    *)
(***************************************************************************)
EXTENDS Naturals, Sequences, FiniteSets, Acquisition, Holdings

CONSTANTS
    Capsules,
    Capacity,       \* the capsules the cache has room for
    Readers,        \* reads that may be between lookup and decision at once
    NoLookup, NoView,
    MaxPending      \* the bound on deltas not yet applied

ASSUME FlywheelAssumption ==
    /\ IsFiniteSet(Capsules)
    /\ Capacity \in Nat
    /\ MaxPending \in Nat
    /\ NoLookup \notin [capsule : Capsules, already_held : BOOLEAN]
    /\ NoView \notin [advertised : SUBSET Capsules, held : SUBSET Capsules]

VARIABLES
    enabled,        \* the backfill switch
    careful,        \* whether the host is
    held,           \* what the cache holds
    lookups,        \* lookups[r]: what reader r saw and has not yet acted on
    in_flight,      \* the host's set of pulls under way
    pulls,          \* pulls[c]: the pulls of c really running
    pending,        \* the deltas not yet applied, oldest first
    advertised,     \* what other nodes are told this node has
    view,           \* what a reconciliation in progress has read
    drift,          \* whether deltas may be missing since the last repair
    quiet           \* no more reads, sweeps or faults, to speak of what settles

acquisition == <<enabled, careful, lookups, in_flight, pulls>>
vars == <<acquisition, held, pending, advertised, view, drift, quiet>>

Lookup == [capsule : Capsules, already_held : BOOLEAN]
View   == [advertised : SUBSET Capsules, held : SUBSET Capsules]

Enqueue(delta) ==
    IF is_empty(delta)
    THEN UNCHANGED pending
    ELSE /\ Len(pending) < MaxPending
         /\ pending' = Append(pending, delta)

Fits(capsules) == Cardinality(capsules) <= Capacity

-----------------------------------------------------------------------------
Init ==
    /\ enabled \in BOOLEAN
    /\ careful \in BOOLEAN
    /\ held = {}
    /\ lookups = [r \in Readers |-> NoLookup]
    /\ in_flight = {}
    /\ pulls = [c \in Capsules |-> 0]
    /\ pending = <<>>
    /\ advertised = {}
    /\ view = NoView
    /\ drift = ~ careful
    /\ quiet = FALSE

\* A read was satisfied from another node; is the capsule here by now?
LookUp(r, c) ==
    /\ ~ quiet
    /\ lookups[r] = NoLookup
    /\ lookups' = [lookups EXCEPT ![r] = [capsule |-> c, already_held |-> c \in held]]
    /\ UNCHANGED <<enabled, careful, in_flight, pulls, held, pending, advertised, view, drift, quiet>>

\* The decision, and the start of the pull it asks for.
Decide(r) ==
    /\ lookups[r] # NoLookup
    /\ LET c == lookups[r].capsule IN
       IF decide(enabled, c, lookups[r].already_held, in_flight) = "Acquire"
       THEN /\ in_flight' = in_flight \union {c}
            /\ pulls' = [pulls EXCEPT ![c] = @ + 1]
       ELSE UNCHANGED <<in_flight, pulls>>
    /\ lookups' = [lookups EXCEPT ![r] = NoLookup]
    /\ UNCHANGED <<enabled, careful, held, pending, advertised, view, drift, quiet>>

PullEnds(c) ==
    /\ pulls[c] > 0
    /\ pulls' = [pulls EXCEPT ![c] = @ - 1]
    /\ in_flight' = in_flight \ {c}
    /\ UNCHANGED <<enabled, careful, lookups, advertised, view, drift, quiet>>

\* The cache admits the capsule, which is never among its own victims.
PullLands(c) ==
    /\ PullEnds(c)
    /\ \E evicted \in SUBSET (held \ {c}) :
          LET kept == (held \ evicted) \union {c} IN
          /\ Fits(kept)
          /\ held' = kept
          /\ Enqueue(after_admission(c, evicted))

PullFails(c) ==
    /\ PullEnds(c)
    /\ UNCHANGED <<held, pending>>

\* A smaller capacity, or a sweep after a landing.
Sweep ==
    /\ ~ quiet
    /\ \E evicted \in SUBSET held :
          /\ evicted # {}
          /\ held' = held \ evicted
          /\ Enqueue(after_eviction(evicted))
    /\ UNCHANGED <<acquisition, advertised, view, drift, quiet>>

\* The caller applies a delta: the oldest, if it is careful.
Apply ==
    /\ \E i \in 1..Len(pending) :
          /\ careful => i = 1
          /\ advertised' = (advertised \union pending[i].announce) \ pending[i].retract
          /\ pending' = SubSeq(pending, 1, i - 1) \o SubSeq(pending, i + 1, Len(pending))
    /\ UNCHANGED <<acquisition, held, view, drift, quiet>>

\* Both sets read and the repair queued in one go.
Reconcile ==
    /\ careful
    /\ Enqueue(reconcile(advertised, held))
    /\ drift' = FALSE
    /\ UNCHANGED <<acquisition, held, advertised, view, quiet>>

\* The same in two steps, for a host that is not careful.
ReadView ==
    /\ ~ careful
    /\ view = NoView
    /\ view' = [advertised |-> advertised, held |-> held]
    /\ UNCHANGED <<acquisition, held, pending, advertised, drift, quiet>>

ReconcileView ==
    /\ view # NoView
    /\ Enqueue(reconcile(view.advertised, view.held))
    /\ view' = NoView
    /\ UNCHANGED <<acquisition, held, advertised, drift, quiet>>

\* A caller that drops a delta satisfies the type system (SPEC 7.1).
Forget ==
    /\ ~ quiet
    /\ ~ careful
    /\ pending # <<>>
    /\ pending' = Tail(pending)
    /\ UNCHANGED <<acquisition, held, advertised, view, drift, quiet>>

\* What is in memory is lost; the cache is rebuilt from what the disk has.
Crash ==
    /\ ~ quiet
    /\ held' \in {found \in SUBSET Capsules : Fits(found)}
    /\ lookups' = [r \in Readers |-> NoLookup]
    /\ in_flight' = {}
    /\ pulls' = [c \in Capsules |-> 0]
    /\ pending' = <<>>
    /\ view' = NoView
    /\ drift' = TRUE
    /\ UNCHANGED <<enabled, careful, advertised, quiet>>

FallQuiet ==
    /\ ~ quiet
    /\ quiet' = TRUE
    /\ UNCHANGED <<acquisition, held, pending, advertised, view, drift>>

Next ==
    \/ \E r \in Readers : Decide(r) \/ \E c \in Capsules : LookUp(r, c)
    \/ \E c \in Capsules : PullLands(c) \/ PullFails(c)
    \/ Sweep \/ Apply \/ Reconcile \/ ReadView \/ ReconcileView
    \/ Forget \/ Crash \/ FallQuiet

Spec == Init /\ [][Next]_vars

\* A read that looked up decides, a pull ends, deltas are applied and the host
\* reconciles from time to time.
Fairness ==
    /\ \A r \in Readers : WF_vars(Decide(r))
    /\ \A c \in Capsules : WF_vars(PullLands(c) \/ PullFails(c))
    /\ WF_vars(Apply)
    /\ WF_vars(Reconcile)
    /\ WF_vars(ReadView)
    /\ WF_vars(ReconcileView)

FairSpec == Spec /\ Fairness

-----------------------------------------------------------------------------
(* Properties *)

TypeOK ==
    /\ enabled \in BOOLEAN
    /\ careful \in BOOLEAN
    /\ held \in SUBSET Capsules /\ Cardinality(held) <= Capacity
    /\ lookups \in [Readers -> Lookup \union {NoLookup}]
    /\ in_flight \in SUBSET Capsules
    /\ pulls \in [Capsules -> Nat]
    /\ pending \in Seq(HoldingsDelta(Capsules))
    /\ advertised \in SUBSET Capsules
    /\ view \in View \union {NoView}
    /\ drift \in BOOLEAN
    /\ quiet \in BOOLEAN

\* A burst of reads produces one pull per generation, and none with the switch
\* off, however long ago each of them looked the cache up (acquisition.rs:57-59).
OnePullPerCapsule ==
    \A c \in Capsules : pulls[c] <= IF enabled THEN 1 ELSE 0

\* Another generation's pull never stands in the way of one that nobody pulls,
\* nor does a pull that has failed (acquisition.rs:122-126, 143-144).
NoGenerationStranded ==
    [][\A r \in Readers :
          LET seen == lookups[r] IN
          (/\ Decide(r)
           /\ enabled
           /\ ~ seen.already_held
           /\ pulls[seen.capsule] = 0)
          => pulls'[seen.capsule] = 1]_vars

Mentions(delta, c) == c \in delta.announce \union delta.retract

\* Once what is pending is applied, c will be advertised exactly if it is held.
Follows(c) ==
    \/ /\ \A i \in 1..Len(pending) : ~ Mentions(pending[i], c)
       /\ c \in advertised <=> c \in held
    \/ \E i \in 1..Len(pending) :
          /\ Mentions(pending[i], c)
          /\ \A j \in (i + 1)..Len(pending) : ~ Mentions(pending[j], c)
          /\ c \in pending[i].announce <=> c \in held

\* The advertisement follows the cache (holdings.rs:9): with a careful host no
\* eviction goes without its retraction and no capsule without its
\* announcement, from a crash's first reconciliation to the next crash.
FollowsCache == ~ drift => \A c \in Capsules : Follows(c)

\* A missed delta is recoverable rather than permanent (holdings.rs:64-66):
\* whatever was forgotten, reordered, lost or reconciled from a stale view, once
\* the cache settles the advertisement comes to equal it and stays so.
RepairsDrift == [](quiet => <>[](advertised = held))
=============================================================================
