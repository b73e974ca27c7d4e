---------------------------- MODULE LeakyBucket ----------------------------
(***************************************************************************)
(* What the non-performance penalty of a peer promises (conduct.rs, module *)
(* docs and SPEC 8.2A.1): a bucket that leaks with time and with nothing   *)
(* else.  A failure pours one unit in, unless the bucket stands at its     *)
(* ceiling; every tick lets one drop out, a unit being Period drops.       *)
(***************************************************************************)
EXTENDS Integers

CONSTANTS Period, Ceiling

VARIABLES
    drops,      \* what is left in the bucket
    penalty     \* the units begun: what the peer's standing is lowered by

UnitsBegun(d) == (d + Period - 1) \div Period

Init ==
    /\ drops = 0
    /\ penalty = 0

Leak ==
    /\ drops' = IF drops > 0 THEN drops - 1 ELSE 0
    /\ penalty' = UnitsBegun(drops')

Pour ==
    /\ drops' = IF penalty = Ceiling THEN drops ELSE drops + Period
    /\ penalty' = UnitsBegun(drops')

Spec == Init /\ [][Leak \/ Pour]_<<drops, penalty>>
=============================================================================
