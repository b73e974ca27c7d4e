---------------------------- MODULE MCDiscovery ----------------------------
(***************************************************************************)
(* Instances of Discovery: a triangle with a fourth node behind it, where  *)
(* questions come round, and four nodes that all know each other, where a  *)
(* slate is a choice.                                                      *)
(***************************************************************************)
EXTENDS Discovery

CONSTANTS a, b, c, d, h, x

Triangle ==
    [n \in Nodes |-> CASE n = a -> {b, c} [] n = b -> {a, c}
                       [] n = c -> {a, b, d} [] n = d -> {c}]
Square   == [n \in Nodes |-> CASE n \in {a, c} -> {b, d} [] n \in {b, d} -> {a, c}]
Complete == [n \in Nodes |-> Nodes \ {n}]

On       == [n \in Nodes |-> {"on"}]
But(n, setting) == [On EXCEPT ![n] = setting]
Knows(n) == [m \in Nodes |-> IF m = n THEN <<h>> ELSE <<>>]

Net(peers, setting, knows, flooders, ceiling, hops, lossless) ==
    [known_peers |-> peers, setting |-> setting, first_hand |-> knows,
     flooders |-> flooders, relay_ceiling |-> ceiling, start |-> a,
     hops |-> hops, lossless |-> lossless]

MCNetworks ==
       {Net(Triangle, On, Knows(d), {}, ceiling, {2}, lossless) :
            ceiling \in {0, 1, 2}, lossless \in BOOLEAN}
  \cup {Net(Square, setting, Knows(c), {}, 2, hops, TRUE) :
            setting \in {On, But(b, {}), But(d, {"yse"})}, hops \in {{}, {0}, {1}, {2}}}
  \cup {Net(Triangle, setting, [Knows(d) EXCEPT ![a] = <<h>>], {b}, 1, {2}, lossless) :
            setting \in {On, But(c, {"off"})}, lossless \in BOOLEAN}
  \cup {Net(Triangle, On, Knows(d), {}, ceiling, {3}, TRUE) : ceiling \in {1, 2}}
  \cup {Net(Complete, On, Knows(d), {}, 2, {2}, lossless) : lossless \in BOOLEAN}
=============================================================================
