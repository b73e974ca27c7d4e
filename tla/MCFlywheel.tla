---------------------------- MODULE MCFlywheel ----------------------------
(* Two generations of one store, which tell capsules from stores apart.    *)
EXTENDS Flywheel

MCCapsules == [store_id : {"s"}, root_hash : {1, 2}]
=============================================================================
