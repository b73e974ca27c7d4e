------------------------------ MODULE Holdings ------------------------------
(***************************************************************************)
(* What to announce and what to retract after a cache operation            *)
(* (holdings.rs).  The vectors hold each capsule once and their order      *)
(* carries nothing: they are sets here.                                    *)
(***************************************************************************)

HoldingsDelta(capsules) == [announce : SUBSET capsules, retract : SUBSET capsules]

is_empty(delta) == delta.announce = {} /\ delta.retract = {}

\* Mutants: the announcement alone; a repair of one direction.
after_admission_NoRetract(admitted, evicted) ==
    [announce |-> {admitted}, retract |-> {}]
reconcile_OneWay(advertised, held) ==
    [announce |-> {}, retract |-> advertised \ held]

after_admission(admitted, evicted) ==
    [announce |-> {admitted}, retract |-> evicted]

after_eviction(evicted) ==
    [announce |-> {}, retract |-> evicted]

reconcile(advertised, held) ==
    [announce |-> held \ advertised, retract |-> advertised \ held]
=============================================================================
