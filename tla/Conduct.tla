------------------------------ MODULE Conduct ------------------------------
(***************************************************************************)
(* What a node holds against one peer (conduct.rs): proven faults, which   *)
(* last, and a penalty for non-performance, which decays with ticks.       *)
(*                                                                         *)
(* The promises compare histories, so three copies of the peer run side by *)
(* side, all through `observe`, and part only where the first answers      *)
(* honestly: "answers" does, "unasked" is not observed at all then, and    *)
(* "silent" does not perform.                                              *)
(*                                                                         *)
(* The host keeps the records and the tick counter, which never goes back. *)
(***************************************************************************)
EXTENDS Integers

CONSTANTS
    NON_PERFORMANCE_CEILING,
    NON_PERFORMANCE_DECAY_TICKS,
    MaxCount,       \* u32::MAX
    MaxTicks        \* the bound on the tick counter

ASSUME ConductAssumption ==
    /\ NON_PERFORMANCE_CEILING \in Nat \ {0}
    /\ NON_PERFORMANCE_DECAY_TICKS \in Nat \ {0}
    /\ MaxCount \in Nat \ {0}
    /\ NON_PERFORMANCE_CEILING <= MaxCount
    /\ MaxTicks \in Nat

VARIABLES
    now_ticks,  \* the host's tick counter
    record,     \* record[c]: the record of copy c
    lied        \* whether a proven fault was ever observed

vars == <<now_ticks, record, lied>>

Copies == {"answers", "unasked", "silent"}

ConductRecord ==
    [proven_faults : Nat, non_performance : Nat, last_update_ticks : Nat]

neutral == [proven_faults |-> 0, non_performance |-> 0, last_update_ticks |-> 0]

NON_PERFORMANCE_PENALTY == 1

\* Mutants: wrapping_add and wrapping_sub.
SaturatingAdd_Wraps(x, y) == (x + y) % (MaxCount + 1)
SaturatingSub_Wraps(x, y) == (x - y) % (MaxCount + 1)

\* u32::saturating_add and saturating_sub.
SaturatingAdd(x, y) == IF x + y > MaxCount THEN MaxCount ELSE x + y
SaturatingSub(x, y) == IF x >= y THEN x - y ELSE 0

\* Mutants: the stamp snaps to the present; a cleared record keeps a stale stamp.
decay_Snaps(r, now) ==
    LET periods == SaturatingSub(now, r.last_update_ticks)
                      \div NON_PERFORMANCE_DECAY_TICKS
    IN  [r EXCEPT !.non_performance = SaturatingSub(r.non_performance, periods),
                  !.last_update_ticks = now]
decay_KeepsStamp(r, now) ==
    LET periods == SaturatingSub(now, r.last_update_ticks)
                      \div NON_PERFORMANCE_DECAY_TICKS
    IN  [r EXCEPT !.non_performance = SaturatingSub(r.non_performance, periods),
                  !.last_update_ticks =
                      r.last_update_ticks + periods * NON_PERFORMANCE_DECAY_TICKS]

\* decay: whole periods are spent and the stamp advances
\* by those; a cleared record is stamped afresh.
decay(r, now) ==
    LET periods == SaturatingSub(now, r.last_update_ticks)
                      \div NON_PERFORMANCE_DECAY_TICKS
        left    == SaturatingSub(r.non_performance, periods)
    IN  [proven_faults     |-> r.proven_faults,
         non_performance   |-> left,
         last_update_ticks |->
            IF left = 0
            THEN now
            ELSE r.last_update_ticks + periods * NON_PERFORMANCE_DECAY_TICKS]

\* observe, one operator per class of evidence; each decays first.
observe_Fault(r, now) ==
    LET updated == decay(r, now)
    IN  [updated EXCEPT !.proven_faults = SaturatingAdd(updated.proven_faults, 1)]

observe_NonPerformance(r, now) ==
    LET updated == decay(r, now)
        raised  == SaturatingAdd(updated.non_performance, NON_PERFORMANCE_PENALTY)
    IN  [updated EXCEPT !.non_performance =
            IF raised > NON_PERFORMANCE_CEILING THEN NON_PERFORMANCE_CEILING ELSE raised]

observe_HonestAnswer(r, now) == decay(r, now)

\* dial_share, in parts of 10 * NON_PERFORMANCE_CEILING: the floor is a tenth.
dial_share(r) ==
    LET share == 10 * (NON_PERFORMANCE_CEILING - r.non_performance)
        floor == NON_PERFORMANCE_CEILING
    IN  IF r.proven_faults > 0 THEN 0
        ELSE IF share > floor THEN share ELSE floor

-----------------------------------------------------------------------------
Init ==
    /\ now_ticks = 0
    /\ record = [c \in Copies |-> neutral]
    /\ lied = FALSE

Tick ==
    /\ now_ticks < MaxTicks
    /\ now_ticks' = now_ticks + 1
    /\ UNCHANGED <<record, lied>>

\* A proven lie or a self-contradiction: the two are recorded alike.
Fault ==
    /\ record' = [c \in Copies |-> observe_Fault(record[c], now_ticks)]
    /\ lied' = TRUE
    /\ UNCHANGED now_ticks

NonPerformance ==
    /\ record' = [c \in Copies |-> observe_NonPerformance(record[c], now_ticks)]
    /\ UNCHANGED <<now_ticks, lied>>

\* Where the copies part.
HonestAnswer ==
    /\ record' = [record EXCEPT !["answers"] = observe_HonestAnswer(@, now_ticks),
                                !["silent"]  = observe_NonPerformance(@, now_ticks)]
    /\ UNCHANGED <<now_ticks, lied>>

Next == Tick \/ Fault \/ NonPerformance \/ HonestAnswer

Spec == Init /\ [][Next]_vars

-----------------------------------------------------------------------------
(* Properties *)

TypeOK ==
    /\ now_ticks \in 0..MaxTicks
    /\ record \in [Copies -> ConductRecord]
    /\ lied \in BOOLEAN
    /\ \A c \in Copies :
          /\ record[c].proven_faults <= MaxCount
          /\ record[c].non_performance <= NON_PERFORMANCE_CEILING
          /\ record[c].last_update_ticks <= now_ticks

Penalty(c) == decay(record[c], now_ticks).non_performance

\* The ticks it takes the penalty to go, if nothing else happens.
Remaining(c) ==
    LET due     == record[c].non_performance * NON_PERFORMANCE_DECAY_TICKS
        elapsed == now_ticks - record[c].last_update_ticks
    IN  IF due > elapsed THEN due - elapsed ELSE 0

\* The penalty is a function of elapsed ticks alone, never of how often the
\* peer was observed (conduct.rs:155-156): a peer that answers in between is
\* exactly where it would be had it not been asked.
TimeAlone ==
    /\ Penalty("answers") = Penalty("unasked")
    /\ Remaining("answers") = Remaining("unasked")

\* Only a proven fault takes a peer's share to zero, and it does so for good,
\* however many there are (conduct.rs:79-81, 182-184).
ZeroShareIsProven ==
    \A c \in Copies : dial_share(decay(record[c], now_ticks)) = 0 <=> lied

\* The record implements the leaky bucket, whatever is observed when.
Bucket ==
    INSTANCE LeakyBucket WITH
        Period  <- NON_PERFORMANCE_DECAY_TICKS,
        Ceiling <- NON_PERFORMANCE_CEILING,
        drops   <- Remaining("answers"),
        penalty <- Penalty("answers")

BucketSpec == Bucket!Spec

\* A peer that was silent where another answered honestly gets ahead of it by
\* less than one unit's worth of ticks, hence by one unit of penalty at most.
SilenceGainsUnderOneUnit ==
    /\ Remaining("answers") < Remaining("silent") + NON_PERFORMANCE_DECAY_TICKS
    /\ Penalty("answers") <= Penalty("silent") + 1

\* conduct.rs:137-138 says of an honest answer that it ranks above silence,
\* and the test at 335 that answering never ranks below staying silent.
SilenceNeverPays ==
    dial_share(decay(record["answers"], now_ticks)) >= dial_share(decay(record["silent"], now_ticks))
=============================================================================
