----------------------------- MODULE Discovery -----------------------------
(***************************************************************************)
(* One miss travelling through a network of nodes (discovery.rs): each     *)
(* node an ask reaches decides by decide_forward whether and to whom to    *)
(* pass it on, and merges what it knows with what comes back.              *)
(*                                                                         *)
(* An ask is named by its PATH, the nodes it has come through up to the    *)
(* one it is put to; the first is the node the client asked.  Whom to ask  *)
(* is any full slate here: that select_fan_out returns one is              *)
(* Routing!SlateKeepsASlot.  Sending, deadlines and the count of relayed   *)
(* work (Admission) are the host's and external.                           *)
(***************************************************************************)
EXTENDS Integers, Sequences, FiniteSets, FiniteSetsExt, SequencesExt

CONSTANTS
    Nodes,
    Client,                 \* who asks first, outside the network
    Answers,                \* providers, genuine or made up
    Networks,               \* the networks a miss may meet
    fan_out, hop_cap, max_hearsay_answers,
    MaxU64

Words    == {"1", "on", "true", "yes", "off", "yse", ""}
Settings == SUBSET Words            \* a raw setting, if there is one
Budgets  == SUBSET (0..255)         \* a hop budget, if it could be read

Network ==
    [known_peers : [Nodes -> SUBSET Nodes], setting : [Nodes -> Settings],
     first_hand : [Nodes -> Seq(Answers)], flooders : SUBSET Nodes,
     relay_ceiling : Nat, start : Nodes, hops : Budgets, lossless : BOOLEAN]

ASSUME DiscoveryAssumption ==
    /\ Client \notin Nodes
    /\ IsFiniteSet(Nodes)
    /\ fan_out \in Nat
    /\ hop_cap \in Nat
    /\ max_hearsay_answers \in Nat
    /\ MaxU64 \in Nat
    /\ \A w \in Networks : w \in Network /\ \A h, k \in w.hops : h = k

VARIABLES
    net,        \* the network, and what it holds; it does not change
    asks        \* what has become of every ask: a function on paths

vars == <<net, asks>>

Provenance == {"FirstHand", "Hearsay"}
ForwardRefusal ==
    {"Disabled", "HopBudgetSpent", "UnreadableHopBudget", "NoEligiblePeers",
     "RelayBudgetSpent"}

\* "asked": on its way; "waiting": forwarded; "replied": answered; "closed":
\* lost, or its answer taken in.
Status == {"asked", "waiting", "replied", "closed"}

-----------------------------------------------------------------------------
(* Configuration *)

\* Mutant: whatever does not say no enables.
parse_enabled_FailsOpen(raw) == \A word \in raw : word \notin {"off"}

\* parse_enabled.  A word stands for its spellings: trimmed, in lower case.
parse_enabled(raw) == \E word \in raw : word \in {"1", "on", "true", "yes"}

enabled(n) == parse_enabled(net.setting[n])

\* RecursionConfig::worst_case_nodes_recruited
worst_case_nodes_recruited ==
    IF fan_out ^ hop_cap > MaxU64 THEN MaxU64 ELSE fan_out ^ hop_cap

-----------------------------------------------------------------------------
(* Paths *)

Paths        == DOMAIN asks
NodeOf(path) == path[Len(path)]
Requestor(path) == IF Len(path) = 1 THEN Client ELSE path[Len(path) - 1]
Parent(path) == SubSeq(path, 1, Len(path) - 1)
Children(path) == {p \in Paths : Len(p) = Len(path) + 1 /\ Parent(p) = path}

\* AdmissionMeter refuses relayed work at the ceiling; a forwarded ask counts
\* until it is answered.
Relaying(n) == {p \in Paths : NodeOf(p) = n /\ asks[p].status = "waiting"}
relay_budget_available(n) == Cardinality(Relaying(n)) < net.relay_ceiling

-----------------------------------------------------------------------------
(* The decision and the merge *)

eligible(path) ==
    net.known_peers[NodeOf(path)] \ {NodeOf(path), Requestor(path)}

\* What select_fan_out may return.
Slates(path) ==
    {peers \in SUBSET eligible(path) :
        Cardinality(peers) = Min({fan_out, Cardinality(eligible(path))})}

\* Mutants: a spent budget is spent again; a budget of one hop is taken for a
\* spent one.
Refusals_SpentAgain(path) ==
    LET n == NodeOf(path)
    IN  IF ~enabled(n) THEN {"Disabled"}
        ELSE IF asks[path].hops = {} THEN {"UnreadableHopBudget"}
        ELSE IF ~relay_budget_available(n) THEN {"RelayBudgetSpent"}
        ELSE IF Slates(path) = {{}} THEN {"NoEligiblePeers"} ELSE {}
Refusals_LastHop(path) ==
    LET n == NodeOf(path)
        hops == asks[path].hops
    IN  IF ~enabled(n) THEN {"Disabled"}
        ELSE IF hops = {} THEN {"UnreadableHopBudget"}
        ELSE IF hops \subseteq {0, 1} THEN {"HopBudgetSpent"}
        ELSE IF ~relay_budget_available(n) THEN {"RelayBudgetSpent"}
        ELSE IF Slates(path) = {{}} THEN {"NoEligiblePeers"} ELSE {}

\* Why decide_forward refuses, in the order it looks; {} when it forwards.
Refusals(path) ==
    LET n == NodeOf(path)
        hops == asks[path].hops
    IN  IF ~enabled(n) THEN {"Disabled"}
        ELSE IF hops = {} THEN {"UnreadableHopBudget"}
        ELSE IF hops = {0} THEN {"HopBudgetSpent"}
        ELSE IF ~relay_budget_available(n) THEN {"RelayBudgetSpent"}
        ELSE IF Slates(path) = {{}} THEN {"NoEligiblePeers"} ELSE {}

Marked(answers, provenance) ==
    [i \in DOMAIN answers |-> [answer |-> answers[i], provenance |-> provenance]]

\* Mutant: the cap falls on the merged answer.
merge_answers_CapsAll(first_hand, hearsay) ==
    SubSeq(Marked(hearsay, "Hearsay") \o Marked(first_hand, "FirstHand"), 1,
           Min({max_hearsay_answers, Len(first_hand) + Len(hearsay)}))

\* merge_answers: the cap falls on the hearsay alone.
merge_answers(first_hand, hearsay) ==
    Marked(first_hand, "FirstHand") \o
    Marked(SubSeq(hearsay, 1, Min({max_hearsay_answers, Len(hearsay)})), "Hearsay")

-----------------------------------------------------------------------------
(* Asks *)

Asked(hops) ==
    [hops |-> hops, status |-> "asked", refusal |-> {}, heard |-> <<>>, said |-> <<>>]

Init ==
    /\ net \in Networks
    /\ asks = [p \in {<<net.start>>} |-> Asked(net.hops)]

\* The answer of a node that heard this much.
Said(path, heard) == merge_answers(net.first_hand[NodeOf(path)], heard)

\* Mutant: an ask the relay budget cannot carry waits for its turn.
Refuse_Queues(path) ==
    /\ asks[path].status = "asked"
    /\ NodeOf(path) \notin net.flooders
    /\ Refusals(path) \notin {{}, {"RelayBudgetSpent"}}
    /\ asks' = [asks EXCEPT ![path].status = "replied",
                            ![path].refusal = Refusals(path),
                            ![path].said = Said(path, <<>>)]
    /\ UNCHANGED net

\* The node will not forward, and answers what it knows itself.
Refuse(path) ==
    /\ asks[path].status = "asked"
    /\ NodeOf(path) \notin net.flooders
    /\ Refusals(path) # {}
    /\ asks' = [asks EXCEPT ![path].status = "replied",
                            ![path].refusal = Refusals(path),
                            ![path].said = Said(path, <<>>)]
    /\ UNCHANGED net

\* The budget a forwarded ask carries.
Budget(path) == {h - 1 : h \in asks[path].hops}

Forward(path) ==
    /\ asks[path].status = "asked"
    /\ NodeOf(path) \notin net.flooders
    /\ Refusals(path) = {}
    /\ \E peers \in Slates(path) :
          asks' = [p \in Paths \cup {Append(path, n) : n \in peers} |->
                     IF p = path THEN [asks[p] EXCEPT !.status = "waiting"]
                     ELSE IF p \in Paths THEN asks[p]
                     ELSE Asked(Budget(path))]
    /\ UNCHANGED net

\* A peer answers with a full slate of holders it made up.
Flood(path) ==
    /\ asks[path].status = "asked"
    /\ NodeOf(path) \in net.flooders
    /\ \E made_up \in Answers :
          asks' = [asks EXCEPT ![path].status = "replied",
                               ![path].said = Marked([i \in 1..max_hearsay_answers + 1
                                                        |-> made_up], "FirstHand")]
    /\ UNCHANGED net

\* An answer arrives while the one who asked is waiting: all of it is hearsay.
Hear(path) ==
    /\ Len(path) > 1
    /\ asks[path].status = "replied"
    /\ asks[Parent(path)].status = "waiting"
    /\ asks' = [asks EXCEPT
                  ![path].status = "closed",
                  ![path].said = <<>>,
                  ![Parent(path)].heard =
                     @ \o [i \in DOMAIN asks[path].said |-> asks[path].said[i].answer]]
    /\ UNCHANGED net

\* An ask or its answer is lost.
Lose(path) ==
    /\ ~net.lossless
    /\ Len(path) > 1
    /\ asks[path].status \in {"asked", "replied"}
    /\ asks' = [asks EXCEPT ![path].status = "closed", ![path].said = <<>>]
    /\ UNCHANGED net

Answer(path) ==
    /\ asks' = [asks EXCEPT ![path].status = "replied",
                            ![path].heard = <<>>,
                            ![path].said = Said(path, asks[path].heard)]
    /\ UNCHANGED net

AllHeard(path) == \A p \in Children(path) : asks[p].status = "closed"

\* Everyone asked has answered.
Reply(path) ==
    /\ asks[path].status = "waiting"
    /\ AllHeard(path)
    /\ Answer(path)

\* The deadline passes first; later answers find nobody waiting.
Deadline(path) ==
    /\ asks[path].status = "waiting"
    /\ ~net.lossless
    /\ ~AllHeard(path)
    /\ Answer(path)

Step(path) ==
    \/ Refuse(path) \/ Forward(path) \/ Flood(path)
    \/ Hear(path) \/ Reply(path) \/ Deadline(path)

Next == \E path \in Paths : Step(path) \/ Lose(path)

Spec == Init /\ [][Next]_vars

\* Nodes and wires go on working, and deadlines pass; nothing obliges a
\* message to be lost.
Fairness == WF_vars(\E path \in Paths : Step(path))

FairSpec == Spec /\ Fairness

-----------------------------------------------------------------------------
(* Properties *)

Ask ==
    [hops : Budgets, status : Status, refusal : SUBSET ForwardRefusal,
     heard : Seq(Answers), said : Seq([answer : Answers, provenance : Provenance])]

TypeOK ==
    /\ net \in Network
    /\ Paths \subseteq Seq(Nodes) \ {<<>>}
    /\ asks \in [Paths -> Ask]

\* What one admitted request can recruit: the nodes asked at distance 1, 2,
\* ... up to the budget it came with, never more, and none at all when the
\* budget cannot be read.  The radius counts the ways to choose one of fan_out
\* once, twice, ... up to `hops` times: fan_out + fan_out^2 + ...
Picks(hops)  == UNION {[1..i -> 1..fan_out] : i \in 1..hops}
Radius(hops) == Cardinality(Picks(hops))

ReachIsGeometric ==
    IF net.hops = {}
    THEN Cardinality(Paths) = 1
    ELSE \A hops \in net.hops : Cardinality(Paths) - 1 <= Radius(hops)

\* A node that does not say yes cuts the chain wherever it stands
\* (discovery.rs:24-25): nobody is asked through it.
ChainIsCut ==
    \A path \in Paths : \A i \in 1..Len(path) - 1 :
        net.setting[path[i]] \cap {"1", "on", "true", "yes"} # {}

\* However many asks reach a node along different paths, no more than the
\* ceiling are relayed at once.
RelaysWithinCeiling ==
    \A n \in Nodes : Cardinality(Relaying(n)) <= net.relay_ceiling

\* No ask travels further than the budget its miss came with, and a miss whose
\* budget cannot be read does not travel.
PathsWithinBudget ==
    \A path \in Paths :
        /\ net.hops = {} => Len(path) = 1
        /\ \A hops \in net.hops : Len(path) <= hops + 1

\* At every moment, in any network: only within the budget, only through nodes
\* that say yes, only under each node's ceiling.
ReachIsLimited == PathsWithinBudget /\ ChainIsCut /\ RelaysWithinCeiling

\* Through any chain of relays: what a node says it knows is all it knows and
\* nothing else, whatever floods in; hearsay is bounded, and every piece of it
\* comes from a node asked on its behalf (discovery.rs:36-41).
HearsayStaysHearsay ==
    \A path \in Paths :
        asks[path].status = "replied" /\ NodeOf(path) \notin net.flooders =>
            LET said  == asks[path].said
                known == net.first_hand[NodeOf(path)]
            IN  /\ Len(said) \in Len(known)..(Len(known) + max_hearsay_answers)
                /\ \A i \in DOMAIN said :
                      \/ /\ i <= Len(known)
                         /\ said[i] = [answer |-> known[i], provenance |-> "FirstHand"]
                      \/ /\ i > Len(known)
                         /\ said[i].provenance = "Hearsay"
                         /\ \E p \in Paths :
                               /\ IsStrictPrefix(path, p)
                               /\ \/ NodeOf(p) \in net.flooders
                                  \/ said[i].answer \in ToSet(net.first_hand[NodeOf(p)])

\* The ways from the start to a node within the budget, through nodes that
\* would relay.
Ways(n) ==
    {way \in UNION {[1..k -> Nodes] : k \in 1..Cardinality(Nodes)} :
        /\ way[1] = net.start
        /\ way[Len(way)] = n
        /\ \E hops \in net.hops : Len(way) <= hops + 1
        /\ \A i \in 1..Len(way) - 1 :
              /\ way[i + 1] \in net.known_peers[way[i]]
              /\ enabled(way[i])
              /\ way[i] \notin net.flooders}

\* Slates leave nobody out, and no relay budget was spent.
Unhindered ==
    /\ net.lossless
    /\ \A path \in Paths : Cardinality(eligible(path)) <= fan_out
    /\ \A path \in Paths : asks[path].refusal # {"RelayBudgetSpent"}

\* The miss finds what is near: when nothing is lost or refused for load, the
\* client hears of every provider known to a node within the hop budget,
\* unless hearsay fills the answer.
NearHolderIsHeard ==
    LET root == <<net.start>> IN
    asks[root].status = "replied" /\ Unhindered =>
        \A n \in Nodes \ net.flooders :
            Ways(n) # {} =>
                \/ ToSet(net.first_hand[n]) \subseteq
                      {asks[root].said[i].answer : i \in DOMAIN asks[root].said}
                \/ Cardinality({i \in DOMAIN asks[root].said :
                                    asks[root].said[i].provenance = "Hearsay"})
                      = max_hearsay_answers

\* Nobody waits for ever, in a cycle or for a lost message: the client is
\* answered.
ClientIsAnswered == <>(asks[<<net.start>>].status = "replied")

\* discovery.rs:86 says that the number of nodes one admitted request can
\* recruit in the worst case is fan_out ^ hop_cap.
RadiusAsDocumented ==
    net.hops = {hop_cap} =>
        Cardinality({NodeOf(path) : path \in Paths} \ {net.start})
            <= worst_case_nodes_recruited
=============================================================================
