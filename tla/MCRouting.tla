----------------------------- MODULE MCRouting -----------------------------
(* An instance of Routing: three peers, asked two at a time. *)
EXTENDS Routing

CONSTANTS p1, p2, p3

MCPeers == {p1, p2, p3}
MCTiebreak == [p \in MCPeers |-> CASE p = p1 -> 1 [] p = p2 -> 2 [] p = p3 -> 3]
MCHalvings == [age \in 0..Faded |-> 2 ^ age]
=============================================================================
