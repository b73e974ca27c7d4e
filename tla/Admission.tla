----------------------------- MODULE Admission -----------------------------
(***************************************************************************)
(* AdmissionMeter (admission.rs): concurrency accounting of inbound work,  *)
(* metered per authenticated peer under a global ceiling, a per-peer share *)
(* and a separate relay budget.                                            *)
(*                                                                         *)
(* `work` is not in the code: it is the work really under way at the node, *)
(* one record per successful admit that has not been released.  What the   *)
(* meter counts is compared with it.                                       *)
(*                                                                         *)
(* The caller pairs every successful admit with one release, as the docs   *)
(* demand; or it has an error path that skips the release; or one that     *)
(* releases twice as well.                                                 *)
(***************************************************************************)
EXTENDS Integers, FiniteSets

CONSTANTS
    Peers,              \* authenticated identities
    Ticket,             \* the units of work the peers may bring
    Units,              \* the quantities a request may ask for
    global_ceiling, per_peer_share, relay_ceiling,
    max_tracked_peers, max_request_units    \* AdmissionLimits

WorkKind == {"Own", "Relayed"}

ASSUME TicketAssumption ==
    \A t \in Ticket : t.peer \in Peers /\ t.kind \in WorkKind

ASSUME LimitsAssumption ==
    /\ {global_ceiling, per_peer_share, relay_ceiling,
        max_tracked_peers, max_request_units} \subseteq Nat
    /\ Units \subseteq Nat

VARIABLES
    in_flight,  \* units held by each tracked peer; its domain is the table
    global,     \* units node-wide
    relayed,    \* units on others' behalf, node-wide
    work,       \* the work under way
    caller      \* how the caller keeps the pairing of admit and release

vars == <<in_flight, global, relayed, work, caller>>

Callers == {"pairs", "skips", "repeats"}

Tracked == DOMAIN in_flight

held(p) == IF p \in Tracked THEN in_flight[p] ELSE 0

\* Mutant: the ceiling compared with >.
Verdict_OneMore(p, kind, units) ==
    IF units > max_request_units THEN "RequestTooLarge"
    ELSE IF global > global_ceiling THEN "GlobalCeiling"
    ELSE IF kind = "Relayed" /\ relayed >= relay_ceiling THEN "RelayBudget"
    ELSE IF held(p) >= per_peer_share THEN "PeerShare"
    ELSE IF held(p) = 0 /\ Cardinality(Tracked) >= max_tracked_peers THEN "MeterFull"
    ELSE "Admitted"

\* The checks of AdmissionMeter::admit, in order.
Verdict(p, kind, units) ==
    IF units > max_request_units THEN "RequestTooLarge"
    ELSE IF global >= global_ceiling THEN "GlobalCeiling"
    ELSE IF kind = "Relayed" /\ relayed >= relay_ceiling THEN "RelayBudget"
    ELSE IF held(p) >= per_peer_share THEN "PeerShare"
    ELSE IF held(p) = 0 /\ Cardinality(Tracked) >= max_tracked_peers THEN "MeterFull"
    ELSE "Admitted"

Insert(p, n) ==
    [q \in Tracked \cup {p} |-> IF q = p THEN n ELSE in_flight[q]]

\* Mutant: an idle peer keeps its entry.
Remove_KeepsEntry(p) == Insert(p, 0)

Remove(p) == [q \in Tracked \ {p} |-> in_flight[q]]

\* u32::saturating_sub(1)
Less1(n) == IF n > 0 THEN n - 1 ELSE 0

-----------------------------------------------------------------------------
Init ==
    /\ in_flight = [p \in {} |-> 0]
    /\ global = 0
    /\ relayed = 0
    /\ work = {}
    /\ caller \in Callers

\* A refused request changes nothing, so only success is a step.
admit(t, units) ==
    /\ t \notin work
    /\ Verdict(t.peer, t.kind, units) = "Admitted"
    /\ in_flight' = Insert(t.peer, held(t.peer) + 1)
    /\ global' = global + 1
    /\ relayed' = IF t.kind = "Relayed" THEN relayed + 1 ELSE relayed
    /\ work' = work \cup {t}
    /\ UNCHANGED caller

\* One unit less for a tracked peer, whose entry goes at zero.
Lowered(p) ==
    IF p \notin Tracked THEN in_flight
    ELSE IF Less1(in_flight[p]) = 0 THEN Remove(p)
    ELSE Insert(p, Less1(in_flight[p]))

\* Mutants: every release draws on the relay budget; the global count is
\* left alone; it is taken down twice.
Released_AnyKind(p, kind) ==
    /\ in_flight' = Lowered(p)
    /\ global' = Less1(global)
    /\ relayed' = Less1(relayed)
Released_NotGlobal(p, kind) ==
    /\ in_flight' = Lowered(p)
    /\ global' = global
    /\ relayed' = IF kind = "Relayed" THEN Less1(relayed) ELSE relayed
Released_GlobalTwice(p, kind) ==
    /\ in_flight' = Lowered(p)
    /\ global' = Less1(Less1(global))
    /\ relayed' = IF kind = "Relayed" THEN Less1(relayed) ELSE relayed

\* What AdmissionMeter::release does to the meter.
Released(p, kind) ==
    /\ in_flight' = Lowered(p)
    /\ global' = Less1(global)
    /\ relayed' = IF kind = "Relayed" THEN Less1(relayed) ELSE relayed

\* The work ends and is released.
release(t) ==
    /\ t \in work
    /\ work' = work \ {t}
    /\ Released(t.peer, t.kind)
    /\ UNCHANGED caller

\* The work ends on a path that skips the release.
Leak(t) ==
    /\ caller \in {"skips", "repeats"}
    /\ t \in work
    /\ work' = work \ {t}
    /\ UNCHANGED <<in_flight, global, relayed, caller>>

\* A release with no work to it.
ReleaseAgain(t) ==
    /\ caller = "repeats"
    /\ t \notin work
    /\ Released(t.peer, t.kind)
    /\ UNCHANGED <<work, caller>>

Next ==
    \E t \in Ticket :
        \/ \E units \in Units : admit(t, units)
        \/ release(t)
        \/ Leak(t)
        \/ ReleaseAgain(t)

Spec == Init /\ [][Next]_vars

\* Work ends, and its release is called when it does (admission.rs:110-112).
FairSpec == Spec /\ \A t \in Ticket : WF_vars(release(t))

-----------------------------------------------------------------------------
(* Properties *)

TypeOK ==
    /\ work \subseteq Ticket
    /\ Tracked \subseteq Peers
    /\ in_flight \in [Tracked -> Nat \ {0}]
    /\ global \in Nat
    /\ relayed \in Nat
    /\ caller \in Callers

OfPeer(p)  == {t \in work : t.peer = p}
OfKind(k)  == {t \in work : t.kind = k}

\* With a caller that keeps the pairing, the meter counts what is under way, no
\* more and no less, on all three budgets (admission.rs:173-174).
Accounts ==
    caller = "pairs" =>
        /\ global = Cardinality(work)
        /\ relayed = Cardinality(OfKind("Relayed"))
        /\ \A p \in Peers : held(p) = Cardinality(OfPeer(p))

\* The work really under way stays within every limit, whatever the order of
\* requests (admission.rs:19-36); a caller that skips releases keeps it there.
WorkWithinLimits ==
    caller # "repeats" =>
        /\ Cardinality(work) <= global_ceiling
        /\ Cardinality(OfKind("Relayed")) <= relay_ceiling
        /\ \A p \in Peers : Cardinality(OfPeer(p)) <= per_peer_share
        /\ Cardinality({t.peer : t \in work}) <= max_tracked_peers

\* Relayed work cannot take what is left to this node's own: while its own
\* units are fewer than the ceiling less the relay budget, own work is never
\* refused for the node's load (admission.rs:24-26, test at 246).
OwnWorkReserved ==
    /\ caller = "pairs"
    /\ Cardinality(OfKind("Own")) < global_ceiling - relay_ceiling
    =>
        \A p \in Peers, units \in Units :
            Verdict(p, "Own", units) \notin {"GlobalCeiling", "RelayBudget"}

\* A refusal is earned by work under way: a peer below its share, at a node
\* below its ceilings with room for one more peer, is admitted.
RefusalsEarned ==
    \A p \in Peers, kind \in WorkKind, units \in Units :
        /\ caller = "pairs"
        /\ units <= max_request_units
        /\ Cardinality(work) < global_ceiling
        /\ kind = "Relayed" => Cardinality(OfKind("Relayed")) < relay_ceiling
        /\ Cardinality(OfPeer(p)) < per_peer_share
        /\ Cardinality({t.peer : t \in work} \cup {p}) <= max_tracked_peers
        => Verdict(p, kind, units) = "Admitted"

\* Shed load comes back: a peer asking for a permitted quantity of own work is
\* again and again admissible, unless the table has no place for it.
LoadIsShedForAWhile ==
    \A p \in Peers, units \in Units :
        caller = "pairs" /\ units <= max_request_units =>
            []<>(Verdict(p, "Own", units) \in {"Admitted", "MeterFull"})

Lost == global - Cardinality(work)

\* A skipped release is never made good: the allowance it took stays taken
\* (README: "leaks allowance until the node refuses everything").
LeaksAccumulate == [][caller # "repeats" => Lost' >= Lost]_vars

\* Whatever the caller gets wrong, the meter's own state stays bounded.
MeterBounded ==
    /\ global <= global_ceiling
    /\ relayed <= relay_ceiling
    /\ Cardinality(Tracked) <= max_tracked_peers
    /\ \A p \in Tracked : in_flight[p] \in 1..per_peer_share

\* What a caller gets wrong costs allowance and nothing else: the meter stays
\* within its bounds (admission.rs:175-184), and what was lost stays lost.
FaultsAreContained == []MeterBounded /\ LeaksAccumulate
=============================================================================
