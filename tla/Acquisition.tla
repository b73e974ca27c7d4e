---------------------------- MODULE Acquisition ----------------------------
(***************************************************************************)
(* Whether a remotely satisfied read starts a background pull of the whole *)
(* capsule (acquisition.rs).  A capsule is one generation of a store: a    *)
(* record with store_id and root_hash.                                     *)
(***************************************************************************)

\* Mutants: no look at the pulls under way; pulls told apart by store only.
decide_Unchecked(enabled, capsule, already_held, in_flight) ==
    IF enabled /\ ~ already_held THEN "Acquire" ELSE "SkipInFlight"
decide_ByStore(enabled, capsule, already_held, in_flight) ==
    IF /\ enabled
       /\ ~ already_held
       /\ \A other \in in_flight : other.store_id # capsule.store_id
    THEN "Acquire"
    ELSE "SkipInFlight"

\* The first reason that applies is the answer.
decide(enabled, capsule, already_held, in_flight) ==
    CASE ~ enabled                                     -> "SkipDisabled"
      [] enabled /\ already_held                       -> "SkipAlreadyHeld"
      [] enabled /\ ~ already_held /\ capsule \in in_flight -> "SkipInFlight"
      [] OTHER                                         -> "Acquire"
=============================================================================
