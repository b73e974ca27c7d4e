------------------------- MODULE MCDiscoveryRadius -------------------------
(* An instance of Discovery: a tree in which every node knows two others   *)
(* besides its parent.                                                     *)
EXTENDS Discovery

CONSTANTS a, b, c, d, e, f, g

Tree ==
    [n \in Nodes |-> CASE n = a -> {b, c}
                       [] n = b -> {a, d, e}
                       [] n = c -> {a, f, g}
                       [] n \in {d, e} -> {b}
                       [] n \in {f, g} -> {c}]

MCNetworks ==
    {[known_peers |-> Tree, setting |-> [n \in Nodes |-> {"on"}],
      first_hand |-> [n \in Nodes |-> <<>>], flooders |-> {},
      relay_ceiling |-> 1, start |-> a, hops |-> {2}, lossless |-> TRUE]}
=============================================================================
