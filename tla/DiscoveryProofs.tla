-------------------------- MODULE DiscoveryProofs --------------------------
(***************************************************************************)
(* Theorems about one miss in any network, with any fan-out and budgets.   *)
(*                                                                         *)
(* The limits are inductive because of what a path records: the hops it    *)
(* has taken and the budget it has left add up to the budget the miss came *)
(* with, and whoever stands inside it decided to forward.  Every step but  *)
(* Forward leaves paths and budgets alone and makes nobody wait, which     *)
(* Unmoved states once for all of them.                                    *)
(*                                                                         *)
(* The asks form a tree (TreeInv): how far it reaches is counted by giving *)
(* each ask the word its path spells in the numbers of children.  Whatever *)
(* is heard has a source below (HearsayInv), and when nothing is lost what *)
(* is known below is carried up (CarriedInv).                              *)
(***************************************************************************)
EXTENDS Discovery, FiniteSetTheorems, FunctionTheorems, SequenceTheorems,
        WellFoundedInduction, TLAPS

SaidAnswer == [answer : Answers, provenance : Provenance]

\* The hops taken and the hops left are those the miss came with.
BudgetIsSpent ==
    \A path \in Paths :
        /\ net.hops = {} => Len(path) = 1 /\ asks[path].hops = {}
        /\ \A k \in net.hops :
              /\ Len(path) <= k + 1
              /\ asks[path].hops = {k + 1 - Len(path)}

TypeInv ==
    /\ TypeOK
    /\ net \in Networks

IInv ==
    /\ TypeInv
    /\ BudgetIsSpent
    /\ ChainIsCut
    /\ \A n \in Nodes : IsFiniteSet(Relaying(n))
    /\ RelaysWithinCeiling

-----------------------------------------------------------------------------
(* Answers *)

\* The least of two numbers.
LEMMA MinOfTwo ==
    ASSUME NEW x \in Int, NEW y \in Int
    PROVE  Min({x, y}) \in {x, y} /\ Min({x, y}) <= y
<1> DEFINE least == IF x <= y THEN x ELSE y
<1>1. least \in {x, y} /\ \A z \in {x, y} : least <= z
  OBVIOUS
<1>2. \E w \in {x, y} : \A z \in {x, y} : w <= z
  BY <1>1
<1>3. Min({x, y}) \in {x, y} /\ \A z \in {x, y} : Min({x, y}) <= z
  BY <1>2 DEF Min
<1> QED
  BY <1>3

\* Marking answers gives marked answers.
LEMMA MarkedType ==
    ASSUME NEW answers \in Seq(Answers), NEW v \in Provenance
    PROVE  Marked(answers, v) \in Seq(SaidAnswer)
<1> DEFINE e(i) == [answer |-> answers[i], provenance |-> v]
<1>1. Len(answers) \in Nat /\ DOMAIN answers = 1..Len(answers)
  BY LenProperties
<1>2. \A i \in 1..Len(answers) : e(i) \in SaidAnswer
  BY ElementOfSeq DEF SaidAnswer
<1>3. [i \in 1..Len(answers) |-> e(i)] \in Seq(SaidAnswer)
  <2> HIDE DEF e
  <2> QED
    BY <1>1, <1>2, IsASeq
<1> QED
  BY <1>1, <1>3 DEF Marked

\* What a node says is made of answers.
LEMMA MergedType ==
    ASSUME NEW first_hand \in Seq(Answers), NEW hearsay \in Seq(Answers)
    PROVE  merge_answers(first_hand, hearsay) \in Seq(SaidAnswer)
<1> DEFINE n == Min({max_hearsay_answers, Len(hearsay)})
<1>1. Len(hearsay) \in Nat
  BY LenProperties
<1>2. n \in Nat /\ n <= Len(hearsay)
  <2>1. max_hearsay_answers \in Nat
    BY DiscoveryAssumption
  <2>2. max_hearsay_answers \in Int /\ Len(hearsay) \in Int
    BY <1>1, <2>1
  <2>3. n \in {max_hearsay_answers, Len(hearsay)} /\ n <= Len(hearsay)
    BY ONLY <2>2, MinOfTwo
  <2> HIDE DEF n
  <2> QED
    BY <1>1, <2>1, <2>3
<1>3. SubSeq(hearsay, 1, n) \in Seq(Answers)
  <2>1. \A i \in 1..n : hearsay[i] \in Answers
    BY <1>1, <1>2, ElementOfSeq
  <2> HIDE DEF n
  <2> QED
    BY <1>2, <2>1, SubSeqProperties
<1>4. Marked(first_hand, "FirstHand") \in Seq(SaidAnswer)
  BY MarkedType DEF Provenance
<1>5. Marked(SubSeq(hearsay, 1, n), "Hearsay") \in Seq(SaidAnswer)
  BY <1>3, MarkedType DEF Provenance
<1> QED
  BY <1>4, <1>5, ConcatProperties DEF merge_answers

\* A node on a path is a node.
LEMMA NodeType ==
    ASSUME NEW path \in Seq(Nodes) \ {<<>>}
    PROVE  NodeOf(path) \in Nodes /\ Len(path) \in Nat \ {0}
  BY EmptySeq, LenProperties DEF NodeOf

\* So what a node that heard this says is made of answers.
LEMMA SaidType ==
    ASSUME TypeInv, NEW path \in Paths, NEW heard \in Seq(Answers)
    PROVE  Said(path, heard) \in Seq(SaidAnswer)
<1>1. NodeOf(path) \in Nodes
  BY NodeType DEF TypeInv, TypeOK
<1>2. net.first_hand[NodeOf(path)] \in Seq(Answers)
  BY <1>1 DEF TypeInv, TypeOK, Network
<1> QED
  BY <1>2, MergedType DEF Said

\* What was said is heard as answers.
LEMMA HeardType ==
    ASSUME NEW said \in Seq(SaidAnswer)
    PROVE  [i \in DOMAIN said |-> said[i].answer] \in Seq(Answers)
<1> DEFINE e(i) == said[i].answer
<1>1. Len(said) \in Nat /\ DOMAIN said = 1..Len(said)
  BY LenProperties
<1>2. \A i \in 1..Len(said) : e(i) \in Answers
  <2> SUFFICES ASSUME NEW i \in 1..Len(said) PROVE said[i].answer \in Answers
    OBVIOUS
  <2>1. said[i] \in SaidAnswer
    BY ElementOfSeq
  <2> QED
    BY <2>1 DEF SaidAnswer
<1>3. [i \in 1..Len(said) |-> e(i)] \in Seq(Answers)
  <2> HIDE DEF e
  <2> QED
    BY <1>1, <1>2, IsASeq
<1> QED
  BY <1>1, <1>3

-----------------------------------------------------------------------------
(* Steps that leave the paths alone *)

Unmoved ==
    /\ UNCHANGED net
    /\ asks' \in [Paths -> Ask]
    /\ \A p \in Paths :
          /\ asks'[p].hops = asks[p].hops
          /\ asks'[p].status = "waiting" => asks[p].status = "waiting"

\* Such a step keeps the invariant.
LEMMA UnmovedKeeps ==
    ASSUME IInv, Unmoved
    PROVE  IInv'
<1>1. Paths' = Paths /\ net' = net
  BY DEF Unmoved, Paths
<1>2. TypeInv'
  BY <1>1 DEF IInv, TypeInv, TypeOK, Unmoved
<1>3. BudgetIsSpent'
  BY <1>1 DEF IInv, BudgetIsSpent, Unmoved
<1>4. ChainIsCut'
  BY <1>1 DEF IInv, ChainIsCut
<1>5. \A n \in Nodes : Relaying(n)' \subseteq Relaying(n)
  BY <1>1 DEF Relaying, Unmoved
<1>6. \A n \in Nodes : IsFiniteSet(Relaying(n)')
  BY <1>5, FS_Subset DEF IInv
<1>7. RelaysWithinCeiling'
  <2> SUFFICES ASSUME NEW n \in Nodes
               PROVE  Cardinality(Relaying(n)') <= net.relay_ceiling
    BY <1>1 DEF RelaysWithinCeiling
  <2>1. Cardinality(Relaying(n)') <= Cardinality(Relaying(n))
    BY <1>5, FS_Subset DEF IInv
  <2>2. Cardinality(Relaying(n)) \in Nat /\ Cardinality(Relaying(n)') \in Nat
    BY <1>6, FS_CardinalityType DEF IInv
  <2>3. net.relay_ceiling \in Nat
    BY DEF IInv, TypeInv, TypeOK, Network
  <2> QED
    BY <2>1, <2>2, <2>3 DEF IInv, RelaysWithinCeiling
<1> QED
  BY <1>2, <1>3, <1>4, <1>6, <1>7 DEF IInv

\* A step that changes one ask of known paths only in what it says is such a
\* step.
LEMMA AnsweredIsUnmoved ==
    ASSUME TypeInv, NEW path \in Paths, UNCHANGED net,
           NEW status \in Status \ {"waiting"}, NEW refusal \in SUBSET ForwardRefusal,
           NEW heard \in Seq(Answers), NEW said \in Seq(SaidAnswer),
           asks' = [asks EXCEPT ![path].status = status, ![path].refusal = refusal,
                                ![path].heard = heard, ![path].said = said]
    PROVE  Unmoved
  BY DEF TypeInv, TypeOK, Paths, Ask, SaidAnswer, Unmoved

-----------------------------------------------------------------------------
(* The step that makes paths longer *)

\* What appending a node does to a path.
LEMMA LongerPath ==
    ASSUME NEW path \in Seq(Nodes) \ {<<>>}, NEW n \in Nodes
    PROVE  /\ Append(path, n) \in Seq(Nodes) \ {<<>>}
           /\ Len(Append(path, n)) = Len(path) + 1
           /\ \A i \in 1..Len(path) : Append(path, n)[i] = path[i]
  BY AppendProperties

\* A budget that is not refused is one that can be spent.
LEMMA ForwardedBudget ==
    ASSUME IInv, NEW path \in Paths, Refusals(path) = {}
    PROVE  /\ enabled(NodeOf(path))
           /\ relay_budget_available(NodeOf(path))
           /\ \E k \in net.hops :
                 /\ Len(path) <= k
                 /\ Budget(path) = {k - Len(path)}
                 /\ k - Len(path) \in 0..255
<1>1. enabled(NodeOf(path)) /\ relay_budget_available(NodeOf(path))
  BY DEF Refusals
<1>2. asks[path].hops # {} /\ asks[path].hops # {0}
  BY DEF Refusals
<1>3. PICK k \in net.hops : asks[path].hops = {k + 1 - Len(path)} /\ Len(path) <= k + 1
  BY <1>2 DEF IInv, BudgetIsSpent
<1>4. Len(path) \in Nat \ {0} /\ k \in 0..255
  BY NodeType DEF IInv, TypeInv, TypeOK, Network, Budgets
<1>5. Budget(path) = {(k + 1 - Len(path)) - 1}
  BY <1>3 DEF Budget
<1>6. k + 1 - Len(path) # 0
  BY <1>2, <1>3
<1>7. (k + 1 - Len(path)) - 1 = k - Len(path)
  BY <1>4
<1>8. Budget(path) = {k - Len(path)}
  BY <1>5, <1>7
<1>9. Len(path) <= k /\ k - Len(path) \in 0..255
  <2>1. k \in 0..255 /\ Len(path) \in Nat \ {0}
    BY <1>4
  <2>2. Len(path) <= k + 1
    BY <1>3
  <2>3. Len(path) # k + 1
    BY <1>6, <2>1
  <2>4. \A a \in Nat \ {0}, b \in 0..255 :
           a <= b + 1 /\ a # b + 1 => a <= b /\ b - a \in 0..255
    OBVIOUS
  <2> QED
    BY <2>1, <2>2, <2>3, <2>4
<1>10. \E h \in net.hops :
          Len(path) <= h /\ Budget(path) = {h - Len(path)} /\ h - Len(path) \in 0..255
  <2> WITNESS k \in net.hops
  <2> QED
    BY <1>8, <1>9
<1> QED
  BY <1>1, <1>10

\* A hop taken is a hop less left.
LEMMA OneHop ==
    ASSUME NEW k \in Nat, NEW taken \in Nat, taken <= k
    PROVE  k + 1 - (taken + 1) = k - taken /\ taken + 1 <= k + 1
  OBVIOUS

\* Forwarding keeps the invariant: the new asks carry one hop less, their
\* paths lead through one more node that decided to forward, and that node
\* has one relayed ask more, which its ceiling had room for.
LEMMA ForwardKeeps ==
    ASSUME IInv, NEW path \in Paths, Forward(path)
    PROVE  IInv'
<1> DEFINE n == NodeOf(path)
<1>1. PICK peers \in Slates(path) :
         asks' = [p \in Paths \cup {Append(path, m) : m \in peers} |->
                    IF p = path THEN [asks[p] EXCEPT !.status = "waiting"]
                    ELSE IF p \in Paths THEN asks[p]
                    ELSE Asked(Budget(path))]
  BY DEF Forward
<1> DEFINE new == {Append(path, m) : m \in peers} \ Paths
<1>2. net' = net /\ Refusals(path) = {} /\ asks[path].status = "asked"
  BY DEF Forward
<1>3. path \in Seq(Nodes) \ {<<>>} /\ n \in Nodes /\ Len(path) \in Nat \ {0}
  BY NodeType DEF IInv, TypeInv, TypeOK
<1>4. peers \subseteq Nodes
  BY <1>3 DEF Slates, eligible, IInv, TypeInv, TypeOK, Network
<1>5. PICK k \in net.hops :
         Len(path) <= k /\ Budget(path) = {k - Len(path)} /\ k - Len(path) \in 0..255
  BY <1>2, ForwardedBudget
<1>6. enabled(n) /\ relay_budget_available(n)
  BY <1>2, ForwardedBudget
<1>7. \A h \in net.hops : h = k /\ h \in 0..255
  BY <1>5, DiscoveryAssumption DEF IInv, TypeInv, TypeOK, Network, Budgets
<1>8. Paths' = Paths \cup new
  BY <1>1 DEF Paths
<1>9. \A p \in new :
         /\ p \in Seq(Nodes) \ {<<>>}
         /\ Len(p) = Len(path) + 1
         /\ \A i \in 1..Len(path) : p[i] = path[i]
         /\ asks'[p] = Asked(Budget(path))
  <2> SUFFICES ASSUME NEW m \in peers, Append(path, m) \notin Paths
               PROVE  /\ Append(path, m) \in Seq(Nodes) \ {<<>>}
                      /\ Len(Append(path, m)) = Len(path) + 1
                      /\ \A i \in 1..Len(path) : Append(path, m)[i] = path[i]
                      /\ asks'[Append(path, m)] = Asked(Budget(path))
    OBVIOUS
  <2>1. asks'[Append(path, m)] = Asked(Budget(path))
    BY <1>1
  <2> QED
    BY <1>3, <1>4, <2>1, LongerPath
<1>10. \A p \in Paths \ {path} : asks'[p] = asks[p]
  BY <1>1
<1>11. asks'[path] = [asks[path] EXCEPT !.status = "waiting"]
  BY <1>1
<1>12. asks[path] \in Ask
  BY DEF IInv, TypeInv, TypeOK
<1>13. TypeInv'
  <2>1. asks'[path] \in Ask
    BY <1>11, <1>12 DEF Ask, Status
  <2>2. Asked(Budget(path)) \in Ask
    <3>1. Budget(path) \in Budgets
      BY <1>5 DEF Budgets
    <3> QED
      BY <3>1 DEF Asked, Ask, Status
  <2>3. \A p \in Paths' : asks'[p] \in Ask
    BY <1>8, <1>9, <1>10, <2>1, <2>2 DEF IInv, TypeInv, TypeOK
  <2>4. asks' \in [Paths' -> Ask]
    BY <1>1, <1>8, <2>3 DEF Paths
  <2>5. Paths' \subseteq Seq(Nodes) \ {<<>>}
    BY <1>8, <1>9 DEF IInv, TypeInv, TypeOK
  <2> QED
    BY <1>2, <2>4, <2>5 DEF IInv, TypeInv, TypeOK
<1>14. BudgetIsSpent'
  <2> SUFFICES ASSUME NEW p \in Paths'
               PROVE  /\ net.hops = {} => Len(p) = 1 /\ asks'[p].hops = {}
                      /\ \A h \in net.hops :
                            /\ Len(p) <= h + 1
                            /\ asks'[p].hops = {h + 1 - Len(p)}
    BY <1>2 DEF BudgetIsSpent
  <2>1. CASE p \in new
    <3>1. asks'[p].hops = {k - Len(path)} /\ Len(p) = Len(path) + 1
      BY <1>5, <1>9, <2>1 DEF Asked
    <3>2. k + 1 - Len(p) = k - Len(path) /\ Len(p) <= k + 1
      <4>1. k \in Nat
        BY <1>7
      <4>2. Len(path) \in Nat
        BY <1>3
      <4>3. Len(path) <= k
        BY <1>5
      <4>4. Len(p) = Len(path) + 1
        BY <3>1
      <4>5. k + 1 - (Len(path) + 1) = k - Len(path) /\ Len(path) + 1 <= k + 1
        BY ONLY <4>1, <4>2, <4>3, OneHop
      <4> QED
        BY <4>4, <4>5
    <3> QED
      BY <1>5, <1>7, <3>1, <3>2
  <2>2. CASE p \in Paths
    <3>1. asks'[p].hops = asks[p].hops
      BY <1>10, <1>11, <1>12, <2>2 DEF Ask
    <3> QED
      BY <2>2, <3>1 DEF IInv, BudgetIsSpent
  <2> QED
    BY <1>8, <2>1, <2>2
<1>15. ChainIsCut'
  <2> SUFFICES ASSUME NEW p \in Paths', NEW i \in 1..Len(p) - 1
               PROVE  net.setting[p[i]] \cap {"1", "on", "true", "yes"} # {}
    BY <1>2 DEF ChainIsCut
  <2>1. CASE p \in Paths
    BY <2>1 DEF IInv, ChainIsCut
  <2>2. CASE p \in new /\ i < Len(path)
    <3>1. p[i] = path[i] /\ i \in 1..Len(path) - 1
      BY <1>3, <1>9, <2>2
    <3> QED
      BY <3>1 DEF IInv, ChainIsCut
  <2>3. CASE p \in new /\ ~(i < Len(path))
    <3>1. i = Len(path) /\ p[i] = n
      BY <1>3, <1>9, <2>3 DEF NodeOf
    <3>2. net.setting[n] \cap {"1", "on", "true", "yes"} # {}
      BY <1>6 DEF enabled, parse_enabled
    <3> QED
      BY <3>1, <3>2
  <2> QED
    BY <1>8, <2>1, <2>2, <2>3
<1>16. Relaying(n)' = Relaying(n) \cup {path}
  <2>1. \A p \in new : asks'[p].status = "asked"
    BY <1>9 DEF Asked
  <2>2. asks'[path].status = "waiting"
    BY <1>11, <1>12 DEF Ask
  <2> QED
    BY <1>8, <1>10, <2>1, <2>2 DEF Relaying
<1>17. \A m \in Nodes \ {n} : Relaying(m)' = Relaying(m)
  <2>1. \A p \in new : asks'[p].status = "asked"
    BY <1>9 DEF Asked
  <2>2. \A m \in Nodes \ {n} : NodeOf(path) # m
    OBVIOUS
  <2> QED
    BY <1>8, <1>10, <2>1, <2>2 DEF Relaying
<1>18. IsFiniteSet(Relaying(n)) /\ path \notin Relaying(n)
  BY <1>2, <1>3 DEF IInv, Relaying
<1>19. /\ IsFiniteSet(Relaying(n)')
       /\ Cardinality(Relaying(n)') = Cardinality(Relaying(n)) + 1
  BY <1>16, <1>18, FS_AddElement
<1>20. \A m \in Nodes : IsFiniteSet(Relaying(m)')
  BY <1>17, <1>19 DEF IInv
<1>21. RelaysWithinCeiling'
  <2>1. Cardinality(Relaying(n)) < net.relay_ceiling
    BY <1>6 DEF relay_budget_available
  <2>2. Cardinality(Relaying(n)) \in Nat /\ net.relay_ceiling \in Nat
    BY <1>18, FS_CardinalityType DEF IInv, TypeInv, TypeOK, Network
  <2>3. Cardinality(Relaying(n)') <= net.relay_ceiling
    BY <1>19, <2>1, <2>2
  <2> QED
    BY <1>2, <1>17, <2>3 DEF IInv, RelaysWithinCeiling
<1> QED
  BY <1>13, <1>14, <1>15, <1>20, <1>21 DEF IInv

-----------------------------------------------------------------------------
(* The invariant *)

\* A miss starts with one ask that nobody waits for.
LEMMA InitInv ==
    ASSUME Init
    PROVE  IInv
<1> DEFINE root == <<net.start>>
<1>1. net \in Networks /\ net \in Network
  BY DiscoveryAssumption DEF Init
<1>2. net.start \in Nodes /\ net.hops \in Budgets
  BY <1>1 DEF Network
<1>3. Paths = {root} /\ asks[root] = Asked(net.hops)
  BY DEF Init, Paths
<1>4. root \in Seq(Nodes) \ {<<>>} /\ Len(root) = 1
  BY <1>2
<1>5. TypeInv
  <2>1. Asked(net.hops) \in Ask
    BY <1>2 DEF Asked, Ask, Status
  <2> QED
    BY <1>1, <1>3, <1>4, <2>1 DEF TypeInv, TypeOK, Init, Paths
<1>6. BudgetIsSpent
  <2>1. \A h \in net.hops : h \in 0..255 /\ net.hops = {h}
    BY <1>1, <1>2, DiscoveryAssumption DEF Budgets
  <2>2. asks[root].hops = net.hops
    BY <1>3 DEF Asked
  <2>3. \A h \in net.hops : 1 <= h + 1 /\ h + 1 - 1 = h
    BY <2>1
  <2> QED
    BY <1>3, <1>4, <2>1, <2>2, <2>3 DEF BudgetIsSpent
<1>7. ChainIsCut
  <2>1. 1..Len(root) - 1 = {}
    BY <1>4
  <2> HIDE DEF root
  <2> QED
    BY <1>3, <2>1 DEF ChainIsCut
<1>8. \A n \in Nodes : Relaying(n) = {}
  BY <1>3 DEF Relaying, Asked
<1>9. (\A n \in Nodes : IsFiniteSet(Relaying(n))) /\ RelaysWithinCeiling
  <2>1. IsFiniteSet({}) /\ Cardinality({}) = 0
    BY FS_EmptySet
  <2>2. net.relay_ceiling \in Nat
    BY <1>1 DEF Network
  <2>3. \A n \in Nodes : Cardinality(Relaying(n)) = 0 /\ IsFiniteSet(Relaying(n))
    BY <1>8, <2>1
  <2>4. 0 <= net.relay_ceiling
    BY <2>2
  <2> QED
    BY <2>3, <2>4 DEF RelaysWithinCeiling
<1> QED
  BY <1>5, <1>6, <1>7, <1>9 DEF IInv

\* An ask of a known path changed in what it says: what the other steps do.
LEMMA StepKeeps ==
    ASSUME IInv, NEW path \in Paths, Step(path) \/ Lose(path)
    PROVE  IInv'
<1>1. /\ asks \in [Paths -> Ask]
      /\ asks[path] \in Ask
      /\ asks[path].refusal \in SUBSET ForwardRefusal
      /\ asks[path].heard \in Seq(Answers)
      /\ <<>> \in Seq(Answers) /\ <<>> \in Seq(SaidAnswer)
      /\ {"replied", "closed"} \subseteq Status \ {"waiting"}
  <2>1. asks \in [Paths -> Ask] /\ asks[path] \in Ask
    BY DEF IInv, TypeInv, TypeOK
  <2>2. <<>> \in Seq(Answers) /\ <<>> \in Seq(SaidAnswer)
    OBVIOUS
  <2>3. {"replied", "closed"} \subseteq Status \ {"waiting"}
    BY DEF Status
  <2> QED
    BY <2>1, <2>2, <2>3 DEF Ask
<1>2. ASSUME NEW refusal \in SUBSET ForwardRefusal, NEW said \in Seq(SaidAnswer),
             NEW heard \in Seq(Answers), NEW status \in Status \ {"waiting"},
             UNCHANGED net,
             asks' = [asks EXCEPT ![path].status = status, ![path].refusal = refusal,
                                  ![path].heard = heard, ![path].said = said]
      PROVE  IInv'
  BY <1>2, AnsweredIsUnmoved, UnmovedKeeps DEF IInv
<1>3. CASE Refuse(path)
  <2>1. Refusals(path) \in SUBSET ForwardRefusal
    BY DEF Refusals, ForwardRefusal
  <2>2. Said(path, <<>>) \in Seq(SaidAnswer)
    BY <1>1, SaidType DEF IInv
  <2>3. asks' = [asks EXCEPT ![path].status = "replied",
                             ![path].refusal = Refusals(path),
                             ![path].heard = asks[path].heard,
                             ![path].said = Said(path, <<>>)]
    BY <1>1, <1>3 DEF Refuse, Ask
  <2>4. net' = net
    BY <1>3 DEF Refuse
  <2> QED
    BY <1>1, <1>2, <2>1, <2>2, <2>3, <2>4
<1>4. CASE Forward(path)
  BY <1>4, ForwardKeeps
<1>5. CASE Flood(path)
  <2>1. PICK made_up \in Answers :
           asks' = [asks EXCEPT ![path].status = "replied",
                                ![path].said = Marked([i \in 1..max_hearsay_answers + 1
                                                         |-> made_up], "FirstHand")]
    BY <1>5 DEF Flood
  <2> DEFINE slate == [i \in 1..max_hearsay_answers + 1 |-> made_up]
  <2>2. slate \in Seq(Answers)
    BY DiscoveryAssumption
  <2>3. Marked(slate, "FirstHand") \in Seq(SaidAnswer)
    BY <2>2, MarkedType DEF Provenance
  <2>4. asks' = [asks EXCEPT ![path].status = "replied",
                             ![path].refusal = asks[path].refusal,
                             ![path].heard = asks[path].heard,
                             ![path].said = Marked(slate, "FirstHand")]
    BY <1>1, <2>1 DEF Ask
  <2>5. net' = net
    BY <1>5 DEF Flood
  <2> QED
    BY <1>1, <1>2, <2>3, <2>4, <2>5
<1>6. CASE Hear(path)
  <2> DEFINE asker == Parent(path)
             told == [i \in DOMAIN asks[path].said |-> asks[path].said[i].answer]
             closed == [asks[path] EXCEPT !.status = "closed", !.said = <<>>]
             hearing == [asks[asker] EXCEPT !.heard = @ \o told]
  <2>1. told \in Seq(Answers)
    BY <1>1, HeardType DEF Ask, SaidAnswer
  <2>2. asker # path
    BY <1>6, NodeType DEF Hear, IInv, TypeInv, TypeOK, Parent
  <2>3. CASE asker \notin Paths
    <3>1. asks' = [asks EXCEPT ![path] = closed]
      BY <1>6, <2>3, <2>2 DEF Hear, Paths
    <3>2. asks' = [asks EXCEPT ![path].status = "closed",
                               ![path].refusal = asks[path].refusal,
                               ![path].heard = asks[path].heard,
                               ![path].said = <<>>]
      BY <1>1, <3>1 DEF Ask
    <3>3. net' = net
      BY <1>6 DEF Hear
    <3> QED
      BY <1>1, <1>2, <3>2, <3>3
  <2>4. CASE asker \in Paths
    <3>1. asks[asker] \in Ask
      BY <1>1, <2>4
    <3>2. hearing.heard \in Seq(Answers)
      BY <2>1, <3>1, ConcatProperties DEF Ask
    <3>3. closed \in Ask /\ closed.hops = asks[path].hops /\ closed.status = "closed"
      BY <1>1 DEF Ask, Status, SaidAnswer
    <3>4. /\ hearing \in Ask /\ hearing.hops = asks[asker].hops
          /\ hearing.status = asks[asker].status
      BY <3>1, <3>2 DEF Ask
    <3>5. asks' = [asks EXCEPT ![path] = closed, ![asker] = hearing]
      BY <1>6, <2>2, <2>4 DEF Hear, Paths
    <3> HIDE DEF closed, hearing, asker
    <3>6. /\ asks' \in [Paths -> Ask] /\ asks'[asker] = hearing /\ asks'[path] = closed
          /\ \A p \in Paths \ {asker, path} : asks'[p] = asks[p]
      BY <1>1, <2>2, <2>4, <3>3, <3>4, <3>5
    <3>7. Unmoved
      BY <1>6, <3>3, <3>4, <3>6 DEF Hear, Unmoved
    <3> QED
      BY <3>7, UnmovedKeeps
  <2> QED
    BY <2>3, <2>4
<1>7. CASE Reply(path) \/ Deadline(path)
  <2>1. Said(path, asks[path].heard) \in Seq(SaidAnswer)
    BY <1>1, SaidType DEF IInv, Ask
  <2>2. asks' = [asks EXCEPT ![path].status = "replied",
                             ![path].refusal = asks[path].refusal,
                             ![path].heard = <<>>,
                             ![path].said = Said(path, asks[path].heard)]
    BY <1>1, <1>7 DEF Reply, Deadline, Answer, Ask
  <2> QED
    BY <1>1, <1>2, <1>7, <2>1, <2>2 DEF Reply, Deadline, Answer
<1>8. CASE Lose(path)
  <2>1. asks' = [asks EXCEPT ![path].status = "closed",
                             ![path].refusal = asks[path].refusal,
                             ![path].heard = asks[path].heard,
                             ![path].said = <<>>]
    BY <1>1, <1>8 DEF Lose, Ask
  <2>2. net' = net
    BY <1>8 DEF Lose
  <2> QED
    BY <1>1, <1>2, <2>1, <2>2
<1> QED
  BY <1>3, <1>4, <1>5, <1>6, <1>7, <1>8 DEF Step

\* The invariant holds of every behaviour.
THEOREM Invariance == Spec => []IInv
<1>1. Init => IInv
  BY InitInv
<1>2. IInv /\ [Next]_vars => IInv'
  <2> SUFFICES ASSUME IInv, [Next]_vars PROVE IInv'
    OBVIOUS
  <2>1. CASE Next
    BY <2>1, StepKeeps DEF Next
  <2>2. CASE UNCHANGED vars
    BY <2>2 DEF vars, IInv, TypeInv, TypeOK, BudgetIsSpent, ChainIsCut, Relaying,
                RelaysWithinCeiling, Paths
  <2> QED
    BY <2>1, <2>2
<1> QED
  BY <1>1, <1>2, PTL DEF Spec

\* Every ask and answer is well formed in every network.
THEOREM TypeCorrect == Spec => []TypeOK
<1>1. IInv => TypeOK
  BY DEF IInv, TypeInv
<1> QED
  BY <1>1, Invariance, PTL

\* Nobody is asked through a node that does not say yes (discovery.rs:24-25).
THEOREM ChainCut == Spec => []ChainIsCut
<1>1. IInv => ChainIsCut
  BY DEF IInv
<1> QED
  BY <1>1, Invariance, PTL

\* No node relays more than its ceiling at once, however many ways asks reach
\* it.
THEOREM RelaysBounded == Spec => []RelaysWithinCeiling
<1>1. IInv => RelaysWithinCeiling
  BY DEF IInv
<1> QED
  BY <1>1, Invariance, PTL

\* No ask travels further than the budget its miss came with, and a miss
\* without a readable budget stays where it is.
THEOREM PathsBounded == Spec => []PathsWithinBudget
<1>1. IInv => PathsWithinBudget
  BY DEF IInv, BudgetIsSpent, PathsWithinBudget
<1> QED
  BY <1>1, Invariance, PTL

\* Only within the budget, through nodes that say yes, under every ceiling.
THEOREM ReachLimited == Spec => []ReachIsLimited
  BY PathsBounded, ChainCut, RelaysBounded, PTL DEF ReachIsLimited

-----------------------------------------------------------------------------
(* Paths and their prefixes *)

Path == Seq(Nodes) \ {<<>>}

Honest(p) == NodeOf(p) \notin net.flooders

\* A prefix of a path is a path.
LEMMA PrefixParts ==
    ASSUME NEW p \in Path, NEW i \in 1..Len(p)
    PROVE  /\ SubSeq(p, 1, i) \in Path
           /\ Len(SubSeq(p, 1, i)) = i
           /\ \A j \in 1..i : SubSeq(p, 1, i)[j] = p[j]
<1>1. Len(p) \in Nat \ {0} /\ i \in Int /\ 1 \in Int /\ i >= 1 /\ i <= Len(p)
  BY EmptySeq DEF Path
<1>2. \A j \in 1..i : p[j] \in Nodes
  <2> SUFFICES ASSUME NEW j \in 1..i PROVE p[j] \in Nodes
    OBVIOUS
  <2>1. j \in 1..Len(p)
    BY <1>1
  <2> QED
    BY <2>1, ElementOfSeq DEF Path
<1>3. /\ SubSeq(p, 1, i) \in Seq(Nodes)
      /\ Len(SubSeq(p, 1, i)) = IF 1 <= i THEN i - 1 + 1 ELSE 0
      /\ \A j \in 1..(i - 1 + 1) : SubSeq(p, 1, i)[j] = p[1 + j - 1]
  BY <1>1, <1>2, SubSeqProperties
<1>4. Len(SubSeq(p, 1, i)) = i
  BY <1>1, <1>3
<1>5. \A j \in 1..i : SubSeq(p, 1, i)[j] = p[j]
  <2> SUFFICES ASSUME NEW j \in 1..i PROVE SubSeq(p, 1, i)[j] = p[j]
    OBVIOUS
  <2>1. j \in 1..(i - 1 + 1) /\ 1 + j - 1 = j
    BY <1>1
  <2> QED
    BY <1>3, <2>1
<1>6. SubSeq(p, 1, i) # <<>>
  BY <1>1, <1>4, EmptySeq
<1> QED
  BY <1>3, <1>4, <1>5, <1>6 DEF Path

\* A path that agrees with the start of another is a prefix of it.
LEMMA PrefixIs ==
    ASSUME NEW p \in Path, NEW q \in Path
    PROVE  /\ IsPrefix(p, q) <=> Len(p) <= Len(q) /\ p = SubSeq(q, 1, Len(p))
           /\ IsStrictPrefix(p, q) <=> Len(p) < Len(q) /\ p = SubSeq(q, 1, Len(p))
           /\ Len(p) <= Len(q) /\ (\A j \in 1..Len(p) : p[j] = q[j]) => p = SubSeq(q, 1, Len(p))
           /\ SubSeq(p, 1, Len(p)) = p
<1>1. Len(p) \in Nat \ {0} /\ Len(q) \in Nat \ {0}
  BY EmptySeq DEF Path
<1>2. SubSeq(p, 1, Len(p)) = p /\ SubSeq(q, 1, Len(q)) = q
  BY SubSeqFull DEF Path
<1>3. IsPrefix(p, q) <=> Len(p) <= Len(q) /\ p = SubSeq(q, 1, Len(p))
  BY <1>2 DEF IsPrefix
<1>4. IsStrictPrefix(p, q) <=> Len(p) < Len(q) /\ p = SubSeq(q, 1, Len(p))
  BY <1>1, <1>2, <1>3, PrefixParts DEF IsStrictPrefix
<1>5. ASSUME Len(p) <= Len(q), \A j \in 1..Len(p) : p[j] = q[j]
      PROVE  p = SubSeq(q, 1, Len(p))
  <2>1. Len(p) \in 1..Len(q)
    BY <1>1, <1>5
  <2>2. /\ SubSeq(q, 1, Len(p)) \in Seq(Nodes) /\ Len(SubSeq(q, 1, Len(p))) = Len(p)
        /\ \A j \in 1..Len(p) : SubSeq(q, 1, Len(p))[j] = q[j]
    BY <2>1, PrefixParts DEF Path
  <2> QED
    BY <1>5, <2>2, SeqEqual DEF Path
<1> QED
  BY <1>2, <1>3, <1>4, <1>5

\* Prefixes of prefixes are prefixes.
LEMMA PrefixOfPrefix ==
    ASSUME NEW p \in Path, NEW j \in 1..Len(p), NEW i \in 1..j
    PROVE  i \in 1..Len(p) /\ SubSeq(SubSeq(p, 1, j), 1, i) = SubSeq(p, 1, i)
<1>1. Len(p) \in Nat /\ i \in 1..Len(p)
  BY EmptySeq DEF Path
<1>2. /\ SubSeq(p, 1, j) \in Path /\ Len(SubSeq(p, 1, j)) = j
      /\ \A k \in 1..j : SubSeq(p, 1, j)[k] = p[k]
  BY PrefixParts
<1>3. /\ SubSeq(p, 1, i) \in Path /\ Len(SubSeq(p, 1, i)) = i
      /\ \A k \in 1..i : SubSeq(p, 1, i)[k] = p[k]
  BY <1>1, PrefixParts
<1>4. \A k \in 1..i : k \in 1..j
  BY <1>1
<1>5. SubSeq(p, 1, i) = SubSeq(SubSeq(p, 1, j), 1, i)
  BY <1>1, <1>2, <1>3, <1>4, PrefixIs
<1> QED
  BY <1>1, <1>5

\* What appending a node does to a path's prefixes.
LEMMA AppendedPath ==
    ASSUME NEW p \in Path, NEW n \in Nodes
    PROVE  LET q == Append(p, n)
           IN  /\ q \in Path /\ Len(q) = Len(p) + 1 /\ q[Len(q)] = n
               /\ Parent(q) = p /\ NodeOf(q) = n
               /\ \A i \in 1..Len(p) : SubSeq(q, 1, i) = SubSeq(p, 1, i)
               /\ SubSeq(q, 1, Len(p)) = p /\ SubSeq(q, 1, Len(q)) = q
               /\ \A r \in Path : Len(r) = Len(p) + 1 /\ SubSeq(r, 1, Len(p)) = p
                                    => r = Append(p, r[Len(r)])
<1> DEFINE q == Append(p, n)
<1>1. q \in Path /\ Len(q) = Len(p) + 1 /\ q[Len(q)] = n
      /\ \A i \in 1..Len(p) : q[i] = p[i]
  BY AppendProperties DEF Path
<1>2. Len(p) \in Nat \ {0}
  BY EmptySeq DEF Path
<1> HIDE DEF q
<1>3. \A i \in 1..Len(p) : SubSeq(q, 1, i) = SubSeq(p, 1, i)
  <2> SUFFICES ASSUME NEW i \in 1..Len(p) PROVE SubSeq(q, 1, i) = SubSeq(p, 1, i)
    OBVIOUS
  <2>1. i \in 1..Len(q) /\ \A k \in 1..i : k \in 1..Len(p)
    BY <1>1, <1>2
  <2>2. /\ SubSeq(p, 1, i) \in Path /\ Len(SubSeq(p, 1, i)) = i
        /\ \A k \in 1..i : SubSeq(p, 1, i)[k] = p[k]
    BY PrefixParts
  <2> QED
    BY <1>1, <2>1, <2>2, PrefixIs
<1>4. SubSeq(p, 1, Len(p)) = p /\ SubSeq(q, 1, Len(q)) = q
  BY <1>1, PrefixIs
<1>5. SubSeq(q, 1, Len(p)) = p
  BY <1>2, <1>3, <1>4
<1>6. Parent(q) = p /\ NodeOf(q) = n
  BY <1>1, <1>2, <1>5 DEF Parent, NodeOf
<1>7. ASSUME NEW r \in Path, Len(r) = Len(p) + 1, SubSeq(r, 1, Len(p)) = p
      PROVE  r = Append(p, r[Len(r)])
  <2>1. r[Len(r)] \in Nodes
    BY <1>2, <1>7, ElementOfSeq DEF Path
  <2>2. LET s == Append(p, r[Len(r)])
        IN s \in Path /\ Len(s) = Len(p) + 1 /\ s[Len(s)] = r[Len(r)]
           /\ \A i \in 1..Len(p) : s[i] = p[i]
    BY <2>1, AppendProperties DEF Path
  <2>3. \A i \in 1..Len(p) : r[i] = p[i]
    <3>1. Len(p) \in 1..Len(r)
      BY <1>2, <1>7
    <3> QED
      BY <1>7, <3>1, PrefixParts
  <2>4. \A i \in 1..Len(r) : r[i] = Append(p, r[Len(r)])[i]
    BY <1>2, <1>7, <2>2, <2>3
  <2> QED
    BY <1>7, <2>2, <2>4, SeqEqual DEF Path
<1> QED
  BY <1>1, <1>3, <1>4, <1>5, <1>6, <1>7 DEF q

-----------------------------------------------------------------------------
(* What a step changes *)

\* The ask of this path, and no other, now is answered or over.
Replaced(path, status, refusal, heard, said) ==
    /\ asks'[path].status = status /\ asks'[path].refusal = refusal
    /\ asks'[path].heard = heard /\ asks'[path].said = said

SameBut(path) == \A p \in Paths \ {path} : asks'[p] = asks[p]

\* What the invariant says of each ask.
LEMMA PathsType ==
    ASSUME TypeInv
    PROVE  /\ Paths \subseteq Path /\ asks \in [Paths -> Ask] /\ net \in Network
           /\ \A p \in Paths : /\ Len(p) \in Nat \ {0} /\ NodeOf(p) \in Nodes
                               /\ asks[p].heard \in Seq(Answers)
                               /\ asks[p].said \in Seq(SaidAnswer)
                               /\ net.first_hand[NodeOf(p)] \in Seq(Answers)
<1>1. Paths \subseteq Path /\ asks \in [Paths -> Ask] /\ net \in Network
  BY DEF TypeInv, TypeOK, Path
<1>2. ASSUME NEW p \in Paths
      PROVE  /\ Len(p) \in Nat \ {0} /\ NodeOf(p) \in Nodes
             /\ asks[p].heard \in Seq(Answers)
             /\ asks[p].said \in Seq(SaidAnswer)
             /\ net.first_hand[NodeOf(p)] \in Seq(Answers)
  <2>1. Len(p) \in Nat \ {0} /\ NodeOf(p) \in Nodes
    BY <1>1, NodeType DEF Path
  <2>2. asks[p] \in Ask
    BY <1>1
  <2>3. asks[p].heard \in Seq(Answers) /\ asks[p].said \in Seq(SaidAnswer)
    BY <2>2 DEF Ask, SaidAnswer
  <2>4. net.first_hand[NodeOf(p)] \in Seq(Answers)
    BY <1>1, <2>1 DEF Network
  <2> QED
    BY <2>1, <2>3, <2>4
<1> QED
  BY <1>1, <1>2

\* An ask rewritten in place: what the steps but Forward and Hear do.
LEMMA OneChanges ==
    ASSUME TypeInv, NEW path \in Paths, NEW status, NEW refusal, NEW heard, NEW said,
           asks' = [asks EXCEPT ![path].status = status, ![path].refusal = refusal,
                                ![path].heard = heard, ![path].said = said]
    PROVE  /\ Paths' = Paths /\ SameBut(path)
           /\ asks'[path].hops = asks[path].hops
           /\ Replaced(path, status, refusal, heard, said)
<1>1. asks \in [Paths -> Ask] /\ asks[path] \in Ask
  BY DEF TypeInv, TypeOK
<1> QED
  BY <1>1 DEF Paths, SameBut, Replaced, Ask

\* Refusing answers with what is known.
LEMMA RefuseChanges ==
    ASSUME TypeInv, NEW path \in Paths, Refuse(path)
    PROVE  /\ net' = net /\ Paths' = Paths /\ SameBut(path)
           /\ asks'[path].hops = asks[path].hops
           /\ Replaced(path, "replied", Refusals(path), asks[path].heard, Said(path, <<>>))
<1>1. asks[path] \in Ask
  BY DEF TypeInv, TypeOK
<1>2. asks' = [asks EXCEPT ![path].status = "replied", ![path].refusal = Refusals(path),
                           ![path].heard = asks[path].heard, ![path].said = Said(path, <<>>)]
  BY <1>1 DEF Refuse, Ask
<1>3. net' = net
  BY DEF Refuse
<1> QED
  BY <1>2, <1>3, OneChanges

\* Flooding answers with what is made up.
LEMMA FloodChanges ==
    ASSUME TypeInv, NEW path \in Paths, Flood(path)
    PROVE  /\ net' = net /\ Paths' = Paths /\ SameBut(path)
           /\ asks'[path].hops = asks[path].hops
           /\ \E said : /\ Replaced(path, "replied", asks[path].refusal, asks[path].heard, said)
                        /\ Len(said) = max_hearsay_answers + 1
<1>1. asks[path] \in Ask /\ max_hearsay_answers + 1 \in Nat
  BY DiscoveryAssumption DEF TypeInv, TypeOK
<1>2. PICK made_up \in Answers :
        asks' = [asks EXCEPT ![path].status = "replied",
                             ![path].said = Marked([i \in 1..max_hearsay_answers + 1
                                                      |-> made_up], "FirstHand")]
  BY DEF Flood
<1> DEFINE said == Marked([i \in 1..max_hearsay_answers + 1 |-> made_up], "FirstHand")
<1>3. asks' = [asks EXCEPT ![path].status = "replied", ![path].refusal = asks[path].refusal,
                           ![path].heard = asks[path].heard, ![path].said = said]
  BY <1>1, <1>2 DEF Ask
<1>4. Len(said) = max_hearsay_answers + 1
  BY <1>1 DEF Marked
<1> HIDE DEF said
<1>5. net' = net
  BY DEF Flood
<1> QED
  BY <1>3, <1>4, <1>5, OneChanges

\* Answering merges what was heard.
LEMMA AnswerChanges ==
    ASSUME TypeInv, NEW path \in Paths, Answer(path)
    PROVE  /\ net' = net /\ Paths' = Paths /\ SameBut(path)
           /\ asks'[path].hops = asks[path].hops
           /\ Replaced(path, "replied", asks[path].refusal, <<>>, Said(path, asks[path].heard))
<1>1. asks[path] \in Ask
  BY DEF TypeInv, TypeOK
<1>2. asks' = [asks EXCEPT ![path].status = "replied", ![path].refusal = asks[path].refusal,
                           ![path].heard = <<>>, ![path].said = Said(path, asks[path].heard)]
  BY <1>1 DEF Answer, Ask
<1>3. net' = net
  BY DEF Answer
<1> QED
  BY <1>2, <1>3, OneChanges

\* Losing an ask or an answer ends it.
LEMMA LoseChanges ==
    ASSUME TypeInv, NEW path \in Paths, Lose(path)
    PROVE  /\ net' = net /\ Paths' = Paths /\ SameBut(path)
           /\ asks'[path].hops = asks[path].hops
           /\ Replaced(path, "closed", asks[path].refusal, asks[path].heard, <<>>)
<1>1. asks[path] \in Ask
  BY DEF TypeInv, TypeOK
<1>2. asks' = [asks EXCEPT ![path].status = "closed", ![path].refusal = asks[path].refusal,
                           ![path].heard = asks[path].heard, ![path].said = <<>>]
  BY <1>1 DEF Lose, Ask
<1>3. net' = net
  BY DEF Lose
<1> QED
  BY <1>2, <1>3, OneChanges

\* An answer leaves the ask it answers and joins what the asker heard.
Told(path) == [i \in DOMAIN asks[path].said |-> asks[path].said[i].answer]

\* Hearing ends one ask and adds to what another heard.
LEMMA HearChanges ==
    ASSUME TypeInv, NEW path \in Paths, Parent(path) \in Paths, Hear(path)
    PROVE  LET asker == Parent(path)
           IN  /\ net' = net /\ Paths' = Paths /\ asker # path
               /\ \A p \in Paths \ {path, asker} : asks'[p] = asks[p]
               /\ asks'[path].hops = asks[path].hops /\ asks'[asker].hops = asks[asker].hops
               /\ Replaced(path, "closed", asks[path].refusal, asks[path].heard, <<>>)
               /\ Replaced(asker, "waiting", asks[asker].refusal,
                           asks[asker].heard \o Told(path), asks[asker].said)
<1> DEFINE asker == Parent(path)
<1>1. asks \in [Paths -> Ask] /\ asks[path] \in Ask /\ asks[asker] \in Ask
  BY DEF TypeInv, TypeOK
<1>2. asker # path
  BY NodeType DEF Hear, TypeInv, TypeOK, Parent
<1>3. /\ asks' = [asks EXCEPT ![path].status = "closed", ![path].said = <<>>,
                              ![asker].heard = @ \o Told(path)]
      /\ asks[asker].status = "waiting" /\ net' = net
  BY DEF Hear, Told
<1> HIDE DEF asker
<1>4. asks' = [asks EXCEPT ![path] = [asks[path] EXCEPT !.status = "closed", !.said = <<>>],
                           ![asker] = [asks[asker] EXCEPT !.heard = @ \o Told(path)]]
  BY <1>1, <1>2, <1>3
<1>5. /\ asks'[path] = [asks[path] EXCEPT !.status = "closed", !.said = <<>>]
      /\ asks'[asker] = [asks[asker] EXCEPT !.heard = @ \o Told(path)]
      /\ \A p \in Paths \ {path, asker} : asks'[p] = asks[p]
  BY <1>1, <1>2, <1>4 DEF asker
<1>6. Paths' = Paths
  BY <1>1, <1>4 DEF Paths
<1> HIDE DEF Told
<1>7. /\ Replaced(path, "closed", asks[path].refusal, asks[path].heard, <<>>)
      /\ asks'[path].hops = asks[path].hops
  BY <1>1, <1>5 DEF Replaced, Ask
<1>8. /\ Replaced(asker, "waiting", asks[asker].refusal,
                  asks[asker].heard \o Told(path), asks[asker].said)
      /\ asks'[asker].hops = asks[asker].hops
  <2> DEFINE told == Told(path)
  <2>1. asks'[asker] = [asks[asker] EXCEPT !.heard = asks[asker].heard \o told]
    BY <1>5
  <2> HIDE DEF told
  <2>2. /\ asks'[asker].status = asks[asker].status /\ asks'[asker].hops = asks[asker].hops
        /\ asks'[asker].refusal = asks[asker].refusal /\ asks'[asker].said = asks[asker].said
        /\ asks'[asker].heard = asks[asker].heard \o told
    BY <1>1, <2>1 DEF Ask
  <2> QED
    BY <1>3, <2>2 DEF Replaced, told
<1> QED
  BY <1>2, <1>3, <1>5, <1>6, <1>7, <1>8 DEF asker

\* Forwarding adds an ask for every peer of a slate.
LEMMA ForwardChanges ==
    ASSUME TypeInv, NEW path \in Paths, Forward(path)
    PROVE  /\ net' = net /\ asks[path].status = "asked" /\ Refusals(path) = {}
           /\ Honest(path)
           /\ \E peers \in Slates(path) :
                 /\ peers \subseteq Nodes
                 /\ Paths' = Paths \cup {Append(path, n) : n \in peers}
                 /\ \A n \in peers : Append(path, n) \notin Paths =>
                       asks'[Append(path, n)] = Asked(Budget(path))
           /\ SameBut(path)
           /\ asks'[path].hops = asks[path].hops
           /\ Replaced(path, "waiting", asks[path].refusal, asks[path].heard, asks[path].said)
<1>1. asks[path] \in Ask /\ path \in Path /\ NodeOf(path) \in Nodes /\ net \in Network
  BY PathsType
<1>2. PICK peers \in Slates(path) :
         asks' = [p \in Paths \cup {Append(path, n) : n \in peers} |->
                    IF p = path THEN [asks[p] EXCEPT !.status = "waiting"]
                    ELSE IF p \in Paths THEN asks[p]
                    ELSE Asked(Budget(path))]
  BY DEF Forward
<1>3. peers \subseteq Nodes
  BY <1>1 DEF Slates, eligible, Network
<1>4. Paths' = Paths \cup {Append(path, n) : n \in peers}
  BY <1>2 DEF Paths
<1>5. \A n \in peers : Append(path, n) \notin Paths =>
         asks'[Append(path, n)] = Asked(Budget(path))
  BY <1>2
<1>6. SameBut(path) /\ asks'[path] = [asks[path] EXCEPT !.status = "waiting"]
  BY <1>2 DEF SameBut
<1>7. /\ asks'[path].hops = asks[path].hops
      /\ Replaced(path, "waiting", asks[path].refusal, asks[path].heard, asks[path].said)
  BY <1>1, <1>6 DEF Replaced, Ask
<1> QED
  BY <1>3, <1>4, <1>5, <1>6, <1>7 DEF Forward, Honest

-----------------------------------------------------------------------------
(* The asks of a miss are a tree *)

\* It has one root, and holds every prefix of what it holds.
Rooted ==
    /\ <<net.start>> \in Paths
    /\ \A p \in Paths :
          /\ p[1] = net.start
          /\ \A i \in 1..Len(p) : SubSeq(p, 1, i) \in Paths

\* An ask that is on its way has not branched, and none branches further than
\* the fan-out.
Branching ==
    \A p \in Paths :
        /\ asks[p].status = "asked" => Children(p) = {}
        /\ IsFiniteSet(Children(p))
        /\ Cardinality(Children(p)) <= fan_out

TreeInv == IInv /\ Rooted /\ Branching

\* A step that adds no path, and puts no ask back on its way, leaves the tree
\* as it is.
LEMMA SameTree ==
    ASSUME TreeInv, net' = net, Paths' = Paths,
           \A p \in Paths : asks'[p].status = "asked" => asks[p].status = "asked"
    PROVE  Rooted' /\ Branching'
<1>1. Rooted'
  BY DEF TreeInv, Rooted
<1>2. \A p : Children(p)' = Children(p)
  BY DEF Children
<1> QED
  BY <1>1, <1>2 DEF TreeInv, Branching

\* Whoever asked is still there.
LEMMA AskerIsThere ==
    ASSUME TreeInv, NEW path \in Paths, Len(path) > 1
    PROVE  Parent(path) \in Paths /\ Len(Parent(path)) = Len(path) - 1
<1>1. path \in Path /\ Len(path) \in Nat \ {0}
  BY PathsType DEF TreeInv, IInv
<1>2. Len(path) - 1 \in 1..Len(path)
  BY <1>1
<1> QED
  BY <1>1, <1>2, PrefixParts DEF Parent, TreeInv, Rooted

\* A slate is finite, and no larger than the fan-out.
LEMMA SlateSize ==
    ASSUME IInv, NEW path \in Paths, NEW peers \in Slates(path)
    PROVE  /\ peers \subseteq Nodes /\ IsFiniteSet(peers)
           /\ Cardinality(peers) <= fan_out
<1>1. NodeOf(path) \in Nodes /\ net \in Network /\ fan_out \in Nat /\ IsFiniteSet(Nodes)
  BY PathsType, DiscoveryAssumption DEF IInv
<1>2. eligible(path) \subseteq Nodes /\ peers \subseteq eligible(path)
  BY <1>1 DEF Slates, eligible, Network
<1>3. IsFiniteSet(eligible(path)) /\ IsFiniteSet(peers)
  BY <1>1, <1>2, FS_Subset
<1>4. Cardinality(eligible(path)) \in Nat
  BY <1>3, FS_CardinalityType
<1>5. Cardinality(peers) = Min({fan_out, Cardinality(eligible(path))})
  BY DEF Slates
<1>6. Min({Cardinality(eligible(path)), fan_out}) <= fan_out
  BY <1>1, <1>4, MinOfTwo
<1>7. {Cardinality(eligible(path)), fan_out} = {fan_out, Cardinality(eligible(path))}
  OBVIOUS
<1> QED
  BY <1>2, <1>1, <1>3, <1>5, <1>6, <1>7

\* Forwarding adds the slate as children of an ask that had none.
LEMMA ForwardBranches ==
    ASSUME TreeInv, NEW path \in Paths, Forward(path)
    PROVE  Rooted' /\ Branching'
<1>1. PICK peers \in Slates(path) :
         /\ peers \subseteq Nodes
         /\ Paths' = Paths \cup {Append(path, n) : n \in peers}
         /\ \A n \in peers : Append(path, n) \notin Paths =>
               asks'[Append(path, n)] = Asked(Budget(path))
  BY ForwardChanges DEF TreeInv, IInv
<1>2. /\ net' = net /\ asks[path].status = "asked" /\ SameBut(path)
      /\ asks'[path].status = "waiting"
  BY ForwardChanges DEF TreeInv, IInv, Replaced
<1>3. path \in Path /\ Paths \subseteq Path /\ Len(path) \in Nat \ {0}
  BY PathsType DEF TreeInv, IInv
<1>4. Children(path) = {}
  BY <1>2 DEF TreeInv, Branching
<1> DEFINE new == {Append(path, n) : n \in peers}
<1>5. \A n \in peers :
         LET q == Append(path, n)
         IN  /\ q \in Path /\ Len(q) = Len(path) + 1 /\ Parent(q) = path
             /\ \A i \in 1..Len(path) : SubSeq(q, 1, i) = SubSeq(path, 1, i)
             /\ SubSeq(q, 1, Len(q)) = q /\ q[1] = path[1]
             /\ q \notin Paths
  <2> SUFFICES ASSUME NEW n \in peers
               PROVE  LET q == Append(path, n)
                      IN  /\ q \in Path /\ Len(q) = Len(path) + 1 /\ Parent(q) = path
                          /\ \A i \in 1..Len(path) : SubSeq(q, 1, i) = SubSeq(path, 1, i)
                          /\ SubSeq(q, 1, Len(q)) = q /\ q[1] = path[1]
                          /\ q \notin Paths
    OBVIOUS
  <2> DEFINE q == Append(path, n)
  <2>1. /\ q \in Path /\ Len(q) = Len(path) + 1 /\ Parent(q) = path
        /\ \A i \in 1..Len(path) : SubSeq(q, 1, i) = SubSeq(path, 1, i)
        /\ SubSeq(q, 1, Len(q)) = q
    BY <1>1, <1>3, AppendedPath
  <2>2. q[1] = path[1]
    BY <1>1, <1>3, AppendProperties DEF Path
  <2>3. q \notin Paths
    BY <1>4, <2>1 DEF Children
  <2> QED
    BY <2>1, <2>2, <2>3
<1> HIDE DEF new
<1>6. Rooted'
  <2>1. ASSUME NEW p \in new
        PROVE  p[1] = net.start /\ \A i \in 1..Len(p) : SubSeq(p, 1, i) \in Paths \cup new
    <3>1. PICK n \in peers : p = Append(path, n)
      BY <2>1 DEF new
    <3>2. /\ Len(p) = Len(path) + 1 /\ SubSeq(p, 1, Len(p)) = p /\ p[1] = path[1]
          /\ \A i \in 1..Len(path) : SubSeq(p, 1, i) = SubSeq(path, 1, i)
      BY <1>5, <3>1
    <3>3. p[1] = net.start /\ \A i \in 1..Len(path) : SubSeq(p, 1, i) \in Paths
      BY <3>2 DEF TreeInv, Rooted
    <3>4. \A i \in 1..Len(p) : i \in 1..Len(path) \/ i = Len(p)
      BY <1>3, <3>2
    <3> QED
      BY <2>1, <3>2, <3>3, <3>4
  <2>2. Paths' = Paths \cup new
    BY <1>1 DEF new
  <2> QED
    BY <1>2, <2>1, <2>2 DEF TreeInv, Rooted
<1>7. Children(path)' = new
  BY <1>1, <1>4, <1>5 DEF Children, new
<1>8. ASSUME NEW p, p # path
      PROVE  Children(p)' = Children(p)
  BY <1>1, <1>5, <1>8 DEF Children
<1>9. IsFiniteSet(new) /\ Cardinality(new) <= Cardinality(peers)
  <2>1. IsFiniteSet(peers)
    BY SlateSize DEF TreeInv
  <2> DEFINE f == [n \in peers |-> Append(path, n)]
  <2>2. f \in Surjection(peers, new)
    BY Fun_IsSurj DEF new
  <2> QED
    BY <2>1, <2>2, FS_Surjection
<1>10. IsFiniteSet(new) /\ Cardinality(new) <= fan_out
  <2>1. IsFiniteSet(peers) /\ Cardinality(peers) <= fan_out
    BY SlateSize DEF TreeInv
  <2>2. Cardinality(peers) \in Nat /\ Cardinality(new) \in Nat /\ fan_out \in Nat
    BY <1>9, <2>1, FS_CardinalityType, DiscoveryAssumption
  <2> QED
    BY <1>9, <2>1, <2>2
<1>11. ASSUME NEW p \in new
       PROVE  Children(p)' = {} /\ p # path
  <2>1. PICK n \in peers : p = Append(path, n)
    BY <1>11 DEF new
  <2>2. p \in Path /\ Len(p) = Len(path) + 1 /\ p \notin Paths
    BY <1>5, <2>1
  <2>3. ASSUME NEW c \in Paths', Parent(c) = p, Len(c) = Len(p) + 1
        PROVE  FALSE
    <3>1. CASE c \in Paths
      <4>1. c \in Path /\ Len(c) \in Nat \ {0}
        BY <1>3, <3>1, PathsType DEF TreeInv, IInv
      <4>2. Len(c) - 1 \in 1..Len(c) /\ Parent(c) = SubSeq(c, 1, Len(c) - 1)
        BY <1>3, <2>2, <2>3, <4>1 DEF Parent
      <4>3. Parent(c) \in Paths
        BY <3>1, <4>2 DEF TreeInv, Rooted
      <4> QED
        BY <2>2, <2>3, <4>3
    <3>2. CASE c \in new
      <4>1. Len(c) = Len(path) + 1
        BY <1>5, <3>2 DEF new
      <4> QED
        BY <1>3, <2>2, <2>3, <4>1
    <3> QED
      BY <1>1, <2>3, <3>1, <3>2 DEF new
  <2>4. Children(p)' = {}
    BY <2>3 DEF Children
  <2> QED
    BY <1>3, <2>2, <2>4
<1>12. Branching'
  <2>1. Paths' = Paths \cup new
    BY <1>1 DEF new
  <2> SUFFICES ASSUME NEW p \in Paths \cup new
               PROVE  /\ asks'[p].status = "asked" => Children(p)' = {}
                      /\ IsFiniteSet(Children(p)')
                      /\ Cardinality(Children(p)') <= fan_out
    BY <2>1 DEF Branching
  <2>2. CASE p \in new
    <3>1. Children(p)' = {} /\ 0 <= fan_out
      BY <1>11, <2>2, DiscoveryAssumption
    <3>2. IsFiniteSet({}) /\ Cardinality({}) = 0
      BY FS_EmptySet
    <3> QED
      BY <3>1, <3>2
  <2>3. CASE p = path
    BY <1>2, <1>7, <1>10, <2>3
  <2>4. CASE p \in Paths \ {path}
    <3>1. asks'[p] = asks[p] /\ Children(p)' = Children(p)
      BY <1>2, <1>8, <2>4 DEF SameBut
    <3> QED
      BY <2>4, <3>1 DEF TreeInv, Branching
  <2> QED
    BY <2>2, <2>3, <2>4
<1> QED
  BY <1>6, <1>12

\* Answers, floods and losses leave the tree alone.
LEMMA StepBranches ==
    ASSUME TreeInv, NEW path \in Paths, Step(path) \/ Lose(path)
    PROVE  Rooted' /\ Branching'
<1>1. TypeInv
  BY DEF TreeInv, IInv
<1>2. CASE Forward(path)
  BY <1>2, ForwardBranches
<1>3. CASE Refuse(path)
  <2>1. net' = net /\ Paths' = Paths /\ SameBut(path) /\ asks'[path].status = "replied"
    BY <1>1, <1>3, RefuseChanges DEF Replaced
  <2> QED
    BY <2>1, SameTree DEF SameBut
<1>4. CASE Flood(path)
  <2>1. net' = net /\ Paths' = Paths /\ SameBut(path) /\ asks'[path].status = "replied"
    BY <1>1, <1>4, FloodChanges DEF Replaced
  <2> QED
    BY <2>1, SameTree DEF SameBut
<1>5. CASE Hear(path)
  <2>1. Parent(path) \in Paths
    BY <1>5, AskerIsThere DEF Hear
  <2>2. /\ net' = net /\ Paths' = Paths
        /\ \A p \in Paths \ {path, Parent(path)} : asks'[p] = asks[p]
        /\ asks'[path].status = "closed" /\ asks'[Parent(path)].status = "waiting"
    BY <1>1, <1>5, <2>1, HearChanges DEF Replaced
  <2>3. \A p \in Paths : asks'[p].status = "asked" => asks[p].status = "asked"
    BY <2>2
  <2> QED
    BY <2>2, <2>3, SameTree
<1>6. CASE Answer(path)
  <2>1. net' = net /\ Paths' = Paths /\ SameBut(path) /\ asks'[path].status = "replied"
    BY <1>1, <1>6, AnswerChanges DEF Replaced
  <2> QED
    BY <2>1, SameTree DEF SameBut
<1>7. CASE Lose(path)
  <2>1. net' = net /\ Paths' = Paths /\ SameBut(path) /\ asks'[path].status = "closed"
    BY <1>1, <1>7, LoseChanges DEF Replaced
  <2> QED
    BY <2>1, SameTree DEF SameBut
<1> QED
  BY <1>2, <1>3, <1>4, <1>5, <1>6, <1>7 DEF Step, Reply, Deadline

\* The tree starts as its root.
LEMMA InitTree ==
    ASSUME Init
    PROVE  TreeInv
<1> DEFINE root == <<net.start>>
<1>1. IInv
  BY InitInv
<1>2. Paths = {root}
  BY DEF Init, Paths
<1>3. root[1] = net.start /\ Len(root) = 1 /\ net.start \in Nodes /\ root \in Path
  <2>1. net.start \in Nodes
    BY <1>1 DEF IInv, TypeInv, TypeOK, Network
  <2> QED
    BY <2>1 DEF Path
<1> HIDE DEF root
<1>4. SubSeq(root, 1, 1) = root
  BY <1>3, PrefixIs
<1>5. 1..1 = {1}
  OBVIOUS
<1>6. Rooted
  BY <1>2, <1>3, <1>4, <1>5 DEF Rooted, root
<1>7. Children(root) = {}
  BY <1>2, <1>3 DEF Children
<1>8. IsFiniteSet({}) /\ Cardinality({}) = 0 /\ 0 <= fan_out
  BY FS_EmptySet, DiscoveryAssumption
<1>9. Branching
  BY <1>2, <1>7, <1>8 DEF Branching
<1> QED
  BY <1>1, <1>6, <1>9 DEF TreeInv

\* The asks stay a tree.
LEMMA TreeStep ==
    ASSUME TreeInv, [Next]_vars
    PROVE  TreeInv'
<1>1. CASE Next
  <2>1. PICK path \in Paths : Step(path) \/ Lose(path)
    BY <1>1 DEF Next
  <2>2. IInv'
    BY <2>1, StepKeeps DEF TreeInv
  <2>3. Rooted' /\ Branching'
    BY <2>1, StepBranches
  <2> QED
    BY <2>2, <2>3 DEF TreeInv
<1>2. CASE UNCHANGED vars
  <2>1. net' = net /\ asks' = asks
    BY <1>2 DEF vars
  <2>2. IInv'
    BY <2>1 DEF TreeInv, IInv, TypeInv, TypeOK, BudgetIsSpent, ChainIsCut,
                RelaysWithinCeiling, Relaying, Paths
  <2>3. Rooted' /\ Branching'
    BY <2>1, SameTree DEF Paths
  <2> QED
    BY <2>2, <2>3 DEF TreeInv
<1> QED
  BY <1>1, <1>2

\* The asks are a tree at every moment.
LEMMA TreeInvariance == Spec => []TreeInv
<1>1. TreeInv /\ [Next]_vars => TreeInv'
  BY TreeStep
<1> QED
  BY <1>1, InitTree, PTL DEF Spec

-----------------------------------------------------------------------------
(* A path is one of the picks *)

\* A set of numbers that is not empty has a least one.
LEMMA LeastOf ==
    ASSUME NEW S \in SUBSET Nat, S # {}
    PROVE  \E x \in S : \A y \in S : x <= y
<1>1. PICK x \in S : \A y \in S : <<y, x>> \notin OpToRel(<, Nat)
  BY NatLessThanWellFounded, WFMin
<1>2. \A y \in S : ~(y < x)
  BY <1>1 DEF OpToRel
<1> QED
  BY <1>2

\* The picks are a finite set.
LEMMA PicksFinite ==
    ASSUME NEW k \in Nat
    PROVE  IsFiniteSet(Picks(k))
<1> DEFINE choice(i) == [1..i -> 1..fan_out]
           choices   == {choice(i) : i \in 1..k}
           byLength  == [i \in 1..k |-> choice(i)]
<1>1. fan_out \in Nat
  BY DiscoveryAssumption
<1>2. ASSUME NEW i \in 1..k
      PROVE  IsFiniteSet(choice(i))
  <2> DEFINE graph == [f \in choice(i) |-> {<<x, f[x]>> : x \in 1..i}]
             pairs == (1..i) \X (1..fan_out)
  <2>1. IsFiniteSet(SUBSET pairs)
    <3>1. IsFiniteSet(1..i) /\ IsFiniteSet(1..fan_out)
      BY <1>1, FS_Interval
    <3> QED
      BY <3>1, FS_Product, FS_SUBSET
  <2>2. graph \in [choice(i) -> SUBSET pairs]
    OBVIOUS
  <2>3. ASSUME NEW f \in choice(i), NEW g \in choice(i), graph[f] = graph[g]
        PROVE  f = g
    <3>1. \A x \in 1..i : f[x] = g[x]
      <4> SUFFICES ASSUME NEW x \in 1..i PROVE f[x] = g[x]
        OBVIOUS
      <4>1. <<x, f[x]>> \in graph[g]
        BY <2>3
      <4> QED
        BY <4>1
    <3> QED
      BY <3>1
  <2>4. graph \in Injection(choice(i), SUBSET pairs)
    <3> HIDE DEF graph, pairs, choice
    <3> QED
      BY <2>2, <2>3, Fun_IsInj
  <2> HIDE DEF graph, pairs, choice
  <2> QED
    BY <2>1, <2>4, FS_Injection
<1>3. IsFiniteSet(choices)
  <2>1. byLength \in Surjection(1..k, choices)
    <3> HIDE DEF choice
    <3> QED
      BY Fun_IsSurj
  <2>2. IsFiniteSet(1..k)
    BY FS_Interval
  <2> HIDE DEF byLength, choices
  <2> QED
    BY <2>1, <2>2, FS_Surjection
<1>4. Picks(k) = UNION choices
  BY DEF Picks
<1>5. \A c \in choices : IsFiniteSet(c)
  BY <1>2
<1> HIDE DEF choices
<1> QED
  BY <1>3, <1>4, <1>5, FS_UNION

\* The children of an ask can be numbered within the fan-out.
LEMMA Numbered ==
    ASSUME TreeInv, NEW p \in Paths
    PROVE  Injection(Children(p), 1..fan_out) # {}
<1> DEFINE S == Children(p)
           c == Cardinality(S)
<1>1. IsFiniteSet(S) /\ c <= fan_out /\ fan_out \in Nat
  BY DiscoveryAssumption DEF TreeInv, Branching
<1>2. c \in Nat /\ ExistsBijection(1..c, S)
  BY <1>1, FS_CardinalityType
<1>3. PICK b : b \in Bijection(1..c, S)
  BY <1>2 DEF ExistsBijection
<1> HIDE DEF S, c
<1> DEFINE numbers == 1..c
<1>4. \A s \in S : \E i \in 1..c : b[i] = s
  <2>1. b \in Bijection(numbers, S)
    BY <1>3
  <2> HIDE DEF numbers
  <2>2. \A s \in S : \E i \in numbers : b[i] = s
    BY <2>1, Fun_BijectionProperties
  <2> QED
    BY <2>2 DEF numbers
<1> DEFINE number == [s \in S |-> CHOOSE i \in 1..c : b[i] = s]
<1>5. \A s \in S : number[s] \in 1..c /\ b[number[s]] = s
  BY <1>4
<1>6. \A i \in 1..c : i \in 1..fan_out
  BY <1>1, <1>2
<1> DEFINE within == 1..fan_out
<1>7. number \in [S -> within]
  BY <1>5, <1>6
<1>8. \A s, t \in S : number[s] = number[t] => s = t
  BY <1>5
<1> HIDE DEF number, within
<1>9. number \in Injection(S, within)
  BY <1>7, <1>8, Fun_IsInj
<1> QED
  BY <1>9 DEF S, within

\* The children's numbers, and what they spell along a path.
Number(p) == CHOOSE f : f \in Injection(Children(p), 1..fan_out)

Word(p) == [i \in 1..Len(p) - 1 |-> Number(SubSeq(p, 1, i))[SubSeq(p, 1, i + 1)]]

\* Different children have different numbers.
LEMMA NumberIs ==
    ASSUME TreeInv, NEW p \in Paths
    PROVE  /\ \A s \in Children(p) : Number(p)[s] \in 1..fan_out
           /\ \A s, t \in Children(p) : Number(p)[s] = Number(p)[t] => s = t
<1>1. Number(p) \in Injection(Children(p), 1..fan_out)
  BY Numbered DEF Number
<1>2. /\ Number(p) \in [Children(p) -> 1..fan_out]
      /\ \A s, t \in Children(p) : Number(p)[s] = Number(p)[t] => s = t
  BY <1>1, Fun_InjectionProperties
<1> QED
  BY <1>2

\* Along a path, each prefix is a child of the one before.
LEMMA NextPrefix ==
    ASSUME TreeInv, NEW p \in Paths, NEW i \in 1..Len(p) - 1
    PROVE  /\ i \in 1..Len(p) /\ i + 1 \in 1..Len(p)
           /\ SubSeq(p, 1, i) \in Paths
           /\ SubSeq(p, 1, i + 1) \in Children(SubSeq(p, 1, i))
<1>1. p \in Path /\ Len(p) \in Nat
  BY PathsType DEF TreeInv, IInv
<1>2. /\ i \in 1..Len(p) /\ i + 1 \in 1..Len(p) /\ i \in 1..i + 1 /\ i \in Nat
      /\ (i + 1) - 1 = i
  BY <1>1
<1> DEFINE j == i + 1
<1>3. SubSeq(p, 1, i) \in Paths /\ SubSeq(p, 1, j) \in Paths
  BY <1>2 DEF TreeInv, Rooted
<1>4. j \in 1..Len(p) /\ i \in 1..j /\ j - 1 = i
  BY <1>2
<1> HIDE DEF j
<1>5. Len(SubSeq(p, 1, i)) = i /\ Len(SubSeq(p, 1, j)) = j
  BY <1>1, <1>2, <1>4, PrefixParts
<1>6. SubSeq(SubSeq(p, 1, j), 1, i) = SubSeq(p, 1, i)
  BY <1>1, <1>4, PrefixOfPrefix
<1>7. SubSeq(p, 1, j) \in Children(SubSeq(p, 1, i))
  BY <1>3, <1>4, <1>5, <1>6 DEF Children, Parent, j
<1> QED
  BY <1>2, <1>3, <1>7 DEF j

\* Paths that spell the same are the same.
LEMMA WordTells ==
    ASSUME TreeInv, NEW p \in Paths, NEW q \in Paths, Len(p) = Len(q), Word(p) = Word(q)
    PROVE  p = q
<1>1. p \in Path /\ q \in Path /\ Len(p) \in Nat \ {0}
  BY PathsType DEF TreeInv, IInv
<1> DEFINE apart == {i \in 1..Len(p) : SubSeq(p, 1, i) # SubSeq(q, 1, i)}
<1>2. CASE apart = {}
  <2>1. Len(p) \in 1..Len(p)
    BY <1>1
  <2>2. SubSeq(p, 1, Len(p)) = SubSeq(q, 1, Len(p))
    BY <1>2, <2>1
  <2> QED
    BY <1>1, <2>2, PrefixIs
<1>3. CASE apart # {}
  <2>1. apart \in SUBSET Nat
    OBVIOUS
  <2>2. PICK x \in apart : \A y \in apart : x <= y
    BY <1>3, <2>1, LeastOf
  <2>3. CASE x = 1
    <3>1. 1 \in 1..Len(p) /\ 1 \in 1..1
      BY <1>1
    <3>2. /\ SubSeq(p, 1, 1) \in Path /\ SubSeq(q, 1, 1) \in Path
          /\ Len(SubSeq(p, 1, 1)) = 1 /\ Len(SubSeq(q, 1, 1)) = 1
          /\ SubSeq(p, 1, 1)[1] = p[1] /\ SubSeq(q, 1, 1)[1] = q[1]
      BY <1>1, <3>1, PrefixParts
    <3>3. p[1] = q[1]
      BY DEF TreeInv, Rooted
    <3>4. \A i \in 1..1 : SubSeq(p, 1, 1)[i] = SubSeq(q, 1, 1)[i]
      BY <3>2, <3>3
    <3>5. SubSeq(p, 1, 1) = SubSeq(q, 1, 1)
      BY <3>2, <3>4, SeqEqual DEF Path
    <3> QED
      BY <2>2, <2>3, <3>5
  <2>4. CASE x # 1
    <3> DEFINE i == x - 1
    <3>1. i \in 1..Len(p) - 1 /\ i + 1 = x /\ i \in 1..Len(p) /\ ~(x <= i)
      BY <1>1, <2>2, <2>4
    <3> HIDE DEF i
    <3>2. SubSeq(p, 1, i) = SubSeq(q, 1, i)
      BY <2>2, <3>1
    <3>3. /\ SubSeq(p, 1, i) \in Paths
          /\ SubSeq(p, 1, x) \in Children(SubSeq(p, 1, i))
          /\ SubSeq(q, 1, x) \in Children(SubSeq(p, 1, i))
      BY <3>1, <3>2, NextPrefix
    <3>4. Word(p)[i] = Word(q)[i]
      OBVIOUS
    <3>5. Number(SubSeq(p, 1, i))[SubSeq(p, 1, x)] = Number(SubSeq(p, 1, i))[SubSeq(q, 1, x)]
      BY <3>1, <3>2, <3>4 DEF Word
    <3>6. SubSeq(p, 1, x) = SubSeq(q, 1, x)
      BY <3>3, <3>5, NumberIs
    <3> QED
      BY <2>2, <3>6
  <2> QED
    BY <2>3, <2>4
<1> QED
  BY <1>2, <1>3

\* A budget is a number of hops.
LEMMA BudgetIsNat ==
    ASSUME TreeInv, NEW k \in net.hops
    PROVE  k \in Nat
<1>1. net \in Network
  BY DEF TreeInv, IInv, TypeInv, TypeOK
<1>2. k \in 0..255
  BY <1>1 DEF Network, Budgets
<1> QED
  BY <1>2

\* Apart from the root, there are no more asks than picks.
LEMMA FewerThanPicks ==
    ASSUME TreeInv, NEW k \in net.hops
    PROVE  /\ IsFiniteSet(Paths \ {<<net.start>>})
           /\ Cardinality(Paths \ {<<net.start>>}) <= Cardinality(Picks(k))
<1> DEFINE others == Paths \ {<<net.start>>}
           word == [p \in others |-> Word(p)]
           picks == Picks(k)
<1>1. k \in Nat
  BY BudgetIsNat
<1>2. ASSUME NEW p \in others
      PROVE  /\ Len(p) - 1 \in 1..k
             /\ Word(p) \in [1..Len(p) - 1 -> 1..fan_out]
  <2>1. p \in Path /\ Len(p) \in Nat \ {0} /\ p[1] = net.start
    BY PathsType DEF TreeInv, IInv, Rooted
  <2>2. Len(p) <= k + 1
    BY DEF TreeInv, IInv, BudgetIsSpent
  <2>3. Len(p) # 1
    <3> SUFFICES ASSUME Len(p) = 1 PROVE FALSE
      OBVIOUS
    <3>1. net.start \in Nodes
      BY PathsType DEF TreeInv, IInv, Network
    <3>2. <<net.start>> \in Seq(Nodes) /\ Len(<<net.start>>) = 1 /\ <<net.start>>[1] = p[1]
      BY <2>1, <3>1
    <3>3. \A i \in 1..1 : i = 1
      OBVIOUS
    <3>4. p = <<net.start>>
      BY <2>1, <3>2, <3>3, SeqEqual DEF Path
    <3> QED
      BY <3>4
  <2> DEFINE len == Len(p)
  <2>4. len - 1 \in 1..k
    <3>1. len \in Nat \ {0} /\ len <= k + 1 /\ len # 1
      BY <2>1, <2>2, <2>3
    <3> HIDE DEF len
    <3> QED
      BY <1>1, <3>1
  <2>5. \A i \in 1..Len(p) - 1 :
           Number(SubSeq(p, 1, i))[SubSeq(p, 1, i + 1)] \in 1..fan_out
    BY NextPrefix, NumberIs
  <2> QED
    BY <2>4, <2>5 DEF Word
<1>3. \A p \in others : Word(p) \in picks
  BY <1>2 DEF Picks
<1>4. ASSUME NEW p \in others, NEW q \in others, Word(p) = Word(q)
      PROVE  p = q
  <2>1. DOMAIN Word(p) = 1..Len(p) - 1 /\ DOMAIN Word(q) = 1..Len(q) - 1
    BY DEF Word
  <2>2. Len(p) - 1 \in 1..k /\ Len(q) - 1 \in 1..k /\ Len(p) \in Nat /\ Len(q) \in Nat
    BY <1>2, PathsType DEF TreeInv, IInv
  <2>3. Len(p) - 1 \in 1..Len(q) - 1 /\ Len(q) - 1 \in 1..Len(p) - 1
    <3>1. 1..Len(p) - 1 = 1..Len(q) - 1
      BY <1>4, <2>1
    <3>2. Len(p) - 1 \in 1..Len(p) - 1 /\ Len(q) - 1 \in 1..Len(q) - 1
      BY <2>2
    <3> QED
      BY <3>1, <3>2
  <2>4. Len(p) = Len(q)
    BY <2>2, <2>3
  <2> QED
    BY <1>4, <2>4, WordTells
<1>5. word \in [others -> picks]
  BY <1>3
<1>6. \A p, q \in others : word[p] = word[q] => p = q
  BY <1>4
<1> HIDE DEF word, others, picks
<1>7. word \in Injection(others, picks)
  BY <1>5, <1>6, Fun_IsInj
<1>8. IsFiniteSet(picks)
  BY <1>1, PicksFinite DEF picks
<1> QED
  BY <1>7, <1>8, FS_Injection DEF others, picks

\* What one admitted request can recruit is no more than the geometric sum of
\* the fan-out, and nobody when the budget cannot be read: for any network,
\* fan-out and budget.
THEOREM MissReachesThisFar == Spec => []ReachIsGeometric
<1>1. ASSUME TreeInv PROVE ReachIsGeometric
  <2> DEFINE root == <<net.start>>
  <2>1. root \in Paths
    BY <1>1 DEF TreeInv, Rooted
  <2>2. CASE net.hops = {}
    <3>1. ASSUME NEW p \in Paths PROVE p = root
      <4>1. Len(p) = 1 /\ p[1] = net.start /\ p \in Seq(Nodes) /\ net.start \in Nodes
        BY <1>1, <2>2, PathsType
           DEF TreeInv, IInv, BudgetIsSpent, Rooted, Path, Network
      <4>2. root \in Seq(Nodes) /\ Len(root) = 1 /\ root[1] = p[1]
        BY <4>1
      <4>3. \A i \in 1..1 : i = 1
        OBVIOUS
      <4> HIDE DEF root
      <4> QED
        BY <4>1, <4>2, <4>3, SeqEqual
    <3>2. Paths = {root}
      BY <2>1, <3>1
    <3>3. Cardinality(Paths) = 1
      BY <3>2, FS_Singleton
    <3> QED
      BY <2>2, <3>3 DEF ReachIsGeometric
  <2>3. CASE net.hops # {}
    <3> SUFFICES ASSUME NEW k \in net.hops
                 PROVE  Cardinality(Paths) - 1 <= Radius(k)
      BY <2>3 DEF ReachIsGeometric
    <3> DEFINE others == Paths \ {root}
    <3>1. IsFiniteSet(others) /\ Cardinality(others) <= Radius(k)
      BY <1>1, FewerThanPicks DEF Radius
    <3>2. Paths = others \cup {root} /\ root \notin others
      BY <2>1
    <3>3. IsFiniteSet(Picks(k))
      BY <1>1, BudgetIsNat, PicksFinite
    <3>4. Radius(k) \in Nat /\ Cardinality(others) \in Nat
      BY <3>1, <3>3, FS_CardinalityType DEF Radius
    <3> HIDE DEF others, root
    <3>5. Cardinality(Paths) = Cardinality(others) + 1
      BY <3>1, <3>2, FS_AddElement
    <3> QED
      BY <3>1, <3>4, <3>5
  <2> QED
    BY <2>2, <2>3
<1> QED
  BY <1>1, TreeInvariance, PTL

-----------------------------------------------------------------------------
(* What a node says is what it knows and what it heard *)

\* How much of what was heard is passed on.
Kept(heard) == IF max_hearsay_answers <= Len(heard) THEN max_hearsay_answers ELSE Len(heard)

\* It is no more than was heard, and no more than the cap.
LEMMA KeptIs ==
    ASSUME NEW heard \in Seq(Answers)
    PROVE  /\ Kept(heard) = Min({max_hearsay_answers, Len(heard)})
           /\ Kept(heard) \in 0..Len(heard) /\ Kept(heard) <= max_hearsay_answers
<1> DEFINE m == max_hearsay_answers
           n == Len(heard)
           least == Min({m, n})
<1>1. m \in Nat /\ n \in Nat
  BY LenProperties, DiscoveryAssumption
<1> HIDE DEF m, n
<1>2. Min({m, n}) \in {m, n} /\ Min({m, n}) <= n
  BY <1>1, MinOfTwo
<1>3. Min({n, m}) \in {n, m} /\ Min({n, m}) <= m
  BY <1>1, MinOfTwo
<1>4. {m, n} = {n, m}
  OBVIOUS
<1>5. least \in {m, n} /\ least <= n /\ least <= m
  BY <1>2, <1>3, <1>4
<1> HIDE DEF least
<1>6. least = IF m <= n THEN m ELSE n
  BY <1>1, <1>5
<1> QED
  BY <1>1, <1>5, <1>6 DEF Kept, m, n, least

\* Place by place: first all it knows, then what is kept of what it heard.
LEMMA SaidIs ==
    ASSUME TypeInv, NEW path \in Paths, NEW heard \in Seq(Answers)
    PROVE  LET said  == Said(path, heard)
               known == net.first_hand[NodeOf(path)]
           IN  /\ Len(known) \in Nat /\ Len(said) = Len(known) + Kept(heard)
               /\ DOMAIN said = 1..Len(said)
               /\ \A i \in 1..Len(known) :
                     said[i] = [answer |-> known[i], provenance |-> "FirstHand"]
               /\ \A i \in 1..Kept(heard) :
                     said[Len(known) + i] = [answer |-> heard[i], provenance |-> "Hearsay"]
<1> DEFINE known == net.first_hand[NodeOf(path)]
           n == Kept(heard)
           kept == SubSeq(heard, 1, n)
           own == Marked(known, "FirstHand")
           others == Marked(kept, "Hearsay")
<1>1. known \in Seq(Answers)
  BY PathsType
<1>2. Len(known) \in Nat /\ DOMAIN known = 1..Len(known) /\ Len(heard) \in Nat
  BY <1>1, LenProperties
<1>3. n \in 0..Len(heard) /\ n = Min({max_hearsay_answers, Len(heard)})
  BY KeptIs
<1> HIDE DEF n
<1>4. /\ kept \in Seq(Answers) /\ Len(kept) = n /\ DOMAIN kept = 1..n
      /\ \A i \in 1..n : kept[i] = heard[i]
  <2>1. \A i \in 1..n : heard[i] \in Answers
    BY <1>2, <1>3, ElementOfSeq
  <2>2. n \in Int /\ n >= 0 /\ 1 \in Int
    BY <1>3
  <2>3. /\ SubSeq(heard, 1, n) \in Seq(Answers)
        /\ Len(SubSeq(heard, 1, n)) = IF 1 <= n THEN n - 1 + 1 ELSE 0
        /\ \A i \in 1..(n - 1 + 1) : SubSeq(heard, 1, n)[i] = heard[1 + i - 1]
    BY <2>1, <2>2, SubSeqProperties
  <2>4. Len(kept) = n
    BY <2>2, <2>3
  <2>5. DOMAIN kept = 1..n
    BY <2>3, <2>4, LenProperties
  <2>6. \A i \in 1..n : i \in 1..(n - 1 + 1) /\ 1 + i - 1 = i
    BY <2>2
  <2>7. \A i \in 1..n : kept[i] = heard[i]
    BY <2>3, <2>6
  <2> QED
    BY <2>3, <2>4, <2>5, <2>7
<1>5. own \in Seq(SaidAnswer) /\ others \in Seq(SaidAnswer)
  BY <1>1, <1>4, MarkedType DEF Provenance
<1> HIDE DEF known, kept
<1>6. /\ Len(own) = Len(known)
      /\ \A i \in 1..Len(known) : own[i] = [answer |-> known[i], provenance |-> "FirstHand"]
  <2>1. DOMAIN own = 1..Len(known)
    BY <1>2 DEF Marked
  <2>2. Len(own) = Len(known)
    BY <1>2, <1>5, <2>1, LenProperties DEF own
  <2> QED
    BY <1>2, <2>2 DEF Marked
<1>7. /\ Len(others) = n
      /\ \A i \in 1..n : others[i] = [answer |-> heard[i], provenance |-> "Hearsay"]
  <2>1. DOMAIN others = 1..n
    BY <1>4 DEF Marked
  <2>2. Len(others) = n
    BY <1>3, <1>5, <2>1, LenProperties
  <2> QED
    BY <1>4, <2>2 DEF Marked
<1>8. Said(path, heard) = own \o others
  BY <1>3 DEF Said, merge_answers, known, kept
<1> HIDE DEF own, others
<1>9. /\ own \o others \in Seq(SaidAnswer)
      /\ Len(own \o others) = Len(own) + Len(others)
      /\ \A i \in 1..Len(own) + Len(others) :
            (own \o others)[i] = IF i <= Len(own) THEN own[i] ELSE others[i - Len(own)]
  BY <1>5, ConcatProperties
<1>10. \A i \in 1..Len(known) : (own \o others)[i] = own[i]
  BY <1>2, <1>3, <1>6, <1>7, <1>9
<1>11. \A i \in 1..n : (own \o others)[Len(known) + i] = others[i]
  <2> SUFFICES ASSUME NEW i \in 1..n
               PROVE  (own \o others)[Len(known) + i] = others[i]
    OBVIOUS
  <2>1. /\ Len(known) + i \in 1..Len(own) + Len(others) /\ ~(Len(known) + i <= Len(own))
        /\ Len(known) + i - Len(own) = i
    BY <1>2, <1>3, <1>6, <1>7
  <2> QED
    BY <1>9, <2>1
<1>12. DOMAIN (own \o others) = 1..Len(own \o others)
  BY <1>9, LenProperties
<1> QED
  BY <1>2, <1>6, <1>7, <1>8, <1>9, <1>10, <1>11, <1>12 DEF known, n

-----------------------------------------------------------------------------
(* Hearsay comes from below *)

\* Being below is transitive.
LEMMA UnderTransitive ==
    ASSUME NEW p \in Path, NEW q \in Path, NEW r \in Path
    PROVE  /\ IsPrefix(p, q) /\ IsPrefix(q, r) => IsPrefix(p, r)
           /\ IsStrictPrefix(p, q) /\ IsPrefix(q, r) => IsStrictPrefix(p, r)
           /\ IsStrictPrefix(p, q) => IsPrefix(p, q)
           /\ IsPrefix(p, p)
<1>1. Len(p) \in Nat \ {0} /\ Len(q) \in Nat \ {0} /\ Len(r) \in Nat \ {0}
  BY EmptySeq DEF Path
<1>2. ASSUME IsPrefix(p, q), IsPrefix(q, r)
      PROVE  IsPrefix(p, r)
  <2>1. Len(p) <= Len(q) /\ p = SubSeq(q, 1, Len(p)) /\ Len(q) <= Len(r) /\ q = SubSeq(r, 1, Len(q))
    BY <1>2, PrefixIs
  <2>2. Len(q) \in 1..Len(r) /\ Len(p) \in 1..Len(q) /\ Len(p) <= Len(r)
    BY <1>1, <2>1
  <2>3. SubSeq(SubSeq(r, 1, Len(q)), 1, Len(p)) = SubSeq(r, 1, Len(p))
    BY <2>2, PrefixOfPrefix
  <2> QED
    BY <2>1, <2>2, <2>3, PrefixIs
<1>3. IsStrictPrefix(p, q) => IsPrefix(p, q) /\ Len(p) < Len(q)
  BY <1>1, PrefixIs
<1>4. IsPrefix(q, r) => Len(q) <= Len(r)
  BY PrefixIs
<1>5. ASSUME IsStrictPrefix(p, q), IsPrefix(q, r)
      PROVE  IsStrictPrefix(p, r)
  <2>1. IsPrefix(p, r) /\ Len(p) < Len(r)
    BY <1>1, <1>2, <1>3, <1>4, <1>5
  <2> QED
    BY <2>1, PrefixIs
<1>6. IsPrefix(p, p)
  BY <1>1, PrefixIs
<1> QED
  BY <1>2, <1>3, <1>5, <1>6

\* An asker stands strictly inside the path it asked.
LEMMA AskerIsUnder ==
    ASSUME TreeInv, NEW path \in Paths, Len(path) > 1
    PROVE  IsStrictPrefix(Parent(path), path)
<1>1. path \in Path /\ Len(path) \in Nat \ {0} /\ Parent(path) \in Path
  BY AskerIsThere, PathsType DEF TreeInv, IInv
<1>2. Len(Parent(path)) = Len(path) - 1
  BY AskerIsThere
<1>3. Len(Parent(path)) < Len(path) /\ Parent(path) = SubSeq(path, 1, Len(Parent(path)))
  BY <1>1, <1>2 DEF Parent
<1> QED
  BY <1>1, <1>3, PrefixIs

\* Someone asked below this path, who would say this.
HasSource(paths, path, answer) ==
    \E p \in paths :
        /\ IsStrictPrefix(path, p)
        /\ \/ NodeOf(p) \in net.flooders
           \/ answer \in ToSet(net.first_hand[NodeOf(p)])

HeardHasSource ==
    \A path \in Paths : \A i \in DOMAIN asks[path].heard :
        HasSource(Paths, path, asks[path].heard[i])

\* What HearsayStaysHearsay asks of an answer.
WellSaid(paths, path, said) ==
    LET known == net.first_hand[NodeOf(path)]
    IN  /\ Len(said) \in Len(known)..(Len(known) + max_hearsay_answers)
        /\ \A i \in DOMAIN said :
              \/ /\ i <= Len(known)
                 /\ said[i] = [answer |-> known[i], provenance |-> "FirstHand"]
              \/ /\ i > Len(known)
                 /\ said[i].provenance = "Hearsay"
                 /\ HasSource(paths, path, said[i].answer)

\* HearsayStaysHearsay says that of every answer, before and after a step.
LEMMA HearsayIs ==
    /\ HearsayStaysHearsay <=>
         \A path \in Paths : asks[path].status = "replied" /\ Honest(path)
                                => WellSaid(Paths, path, asks[path].said)
    /\ net' = net => (HearsayStaysHearsay' <=>
         \A path \in Paths' : asks'[path].status = "replied" /\ Honest(path)
                                => WellSaid(Paths', path, asks'[path].said))
  BY DEF HearsayStaysHearsay, WellSaid, HasSource, Honest

HearsayInv == TreeInv /\ HeardHasSource /\ HearsayStaysHearsay

\* Sources stay where they are.
LEMMA SourcesStay ==
    ASSUME NEW paths, NEW more, paths \subseteq more, NEW path
    PROVE  /\ \A answer : HasSource(paths, path, answer) => HasSource(more, path, answer)
           /\ \A said : WellSaid(paths, path, said) => WellSaid(more, path, said)
<1>1. \A answer : HasSource(paths, path, answer) => HasSource(more, path, answer)
  BY DEF HasSource
<1> QED
  BY <1>1 DEF WellSaid

\* An answer merged from what was heard is well said.
LEMMA MergedIsWellSaid ==
    ASSUME TypeInv, NEW path \in Paths, NEW heard \in Seq(Answers), NEW paths,
           \A i \in DOMAIN heard : HasSource(paths, path, heard[i])
    PROVE  WellSaid(paths, path, Said(path, heard))
<1> DEFINE said  == Said(path, heard)
           known == net.first_hand[NodeOf(path)]
           k == Len(known)
<1>1. /\ k \in Nat /\ Len(said) = k + Kept(heard) /\ DOMAIN said = 1..Len(said)
      /\ \A i \in 1..k : said[i] = [answer |-> known[i], provenance |-> "FirstHand"]
      /\ \A i \in 1..Kept(heard) :
            said[k + i] = [answer |-> heard[i], provenance |-> "Hearsay"]
  BY SaidIs
<1>2. /\ Kept(heard) \in 0..Len(heard) /\ Kept(heard) <= max_hearsay_answers
      /\ Len(heard) \in Nat /\ DOMAIN heard = 1..Len(heard) /\ max_hearsay_answers \in Nat
  BY KeptIs, LenProperties, DiscoveryAssumption
<1> HIDE DEF said, known, k
<1>3. Len(said) \in k..(k + max_hearsay_answers)
  BY <1>1, <1>2
<1>4. ASSUME NEW i \in DOMAIN said
      PROVE  \/ i <= k /\ said[i] = [answer |-> known[i], provenance |-> "FirstHand"]
             \/ /\ i > k /\ said[i].provenance = "Hearsay"
                /\ HasSource(paths, path, said[i].answer)
  <2>1. CASE i <= k
    <3>1. i \in 1..k
      BY <1>1, <1>2, <2>1
    <3> QED
      BY <1>1, <2>1, <3>1
  <2>2. CASE ~(i <= k)
    <3> DEFINE j == i - k
    <3>1. j \in 1..Kept(heard) /\ k + j = i /\ i > k /\ j \in 1..Len(heard)
      BY <1>1, <1>2, <2>2
    <3> HIDE DEF j
    <3>2. said[i] = [answer |-> heard[j], provenance |-> "Hearsay"]
      BY <1>1, <3>1
    <3>3. HasSource(paths, path, heard[j])
      BY <1>2, <3>1
    <3> QED
      BY <3>1, <3>2, <3>3
  <2> QED
    BY <2>1, <2>2
<1> QED
  BY <1>3, <1>4 DEF WellSaid, said, known, k

\* A step that has no node hear anything, and answers only by what was heard,
\* keeps the sources.
LEMMA QuietKeeps ==
    ASSUME HearsayInv, net' = net, NEW path \in Paths, Paths \subseteq Paths',
           \A p \in Paths' \ Paths : asks'[p].heard = <<>> /\ asks'[p].status = "asked",
           SameBut(path),
           asks'[path].heard \in {<<>>, asks[path].heard},
           asks'[path].status = "replied" /\ Honest(path) =>
               WellSaid(Paths, path, asks'[path].said)
    PROVE  HeardHasSource' /\ HearsayStaysHearsay'
<1>1. ASSUME NEW p \in Paths', NEW i \in DOMAIN asks'[p].heard
      PROVE  HasSource(Paths', p, asks'[p].heard[i])
  <2>1. asks'[p].heard # <<>>
    BY <1>1
  <2>2. p \in Paths /\ asks'[p].heard = asks[p].heard
    BY <2>1 DEF SameBut
  <2>3. HasSource(Paths, p, asks[p].heard[i])
    BY <1>1, <2>2 DEF HearsayInv, HeardHasSource
  <2> QED
    BY <2>2, <2>3, SourcesStay
<1>2. HeardHasSource'
  BY <1>1 DEF HeardHasSource, HasSource
<1>3. ASSUME NEW p \in Paths', asks'[p].status = "replied", Honest(p)
      PROVE  WellSaid(Paths', p, asks'[p].said)
  <2>1. p \in Paths
    BY <1>3
  <2>2. WellSaid(Paths, p, asks'[p].said)
    <3>1. CASE p = path
      BY <1>3, <3>1
    <3>2. CASE p # path
      <4>1. asks'[p] = asks[p]
        BY <2>1, <3>2 DEF SameBut
      <4>2. WellSaid(Paths, p, asks[p].said)
        BY <1>3, <2>1, <4>1, HearsayIs DEF HearsayInv
      <4> QED
        BY <4>1, <4>2
    <3> QED
      BY <3>1, <3>2
  <2> QED
    BY <2>2, SourcesStay
<1>4. HearsayStaysHearsay'
  BY <1>3, HearsayIs
<1> QED
  BY <1>2, <1>4

\* What an asker hears has a source below it: the node asked, or whoever that
\* node heard it from.
LEMMA HearKeeps ==
    ASSUME HearsayInv, NEW path \in Paths, Hear(path)
    PROVE  HeardHasSource' /\ HearsayStaysHearsay'
<1> DEFINE asker == Parent(path)
           said == asks[path].said
           told == Told(path)
<1>1. TreeInv /\ TypeInv /\ Len(path) > 1 /\ asks[path].status = "replied"
  BY DEF HearsayInv, TreeInv, IInv, Hear
<1>2. asker \in Paths /\ IsStrictPrefix(asker, path)
  BY <1>1, AskerIsThere, AskerIsUnder
<1>3. /\ net' = net /\ Paths' = Paths /\ asker # path
      /\ \A p \in Paths \ {path, asker} : asks'[p] = asks[p]
      /\ asks'[path].heard = asks[path].heard /\ asks'[path].status = "closed"
      /\ asks'[asker].heard = asks[asker].heard \o told /\ asks'[asker].status = "waiting"
  BY <1>1, <1>2, HearChanges DEF Replaced
<1>4. /\ Paths \subseteq Path /\ said \in Seq(SaidAnswer)
      /\ asks[asker].heard \in Seq(Answers)
  BY <1>1, <1>2, PathsType
<1>5. /\ DOMAIN said = 1..Len(said) /\ Len(said) \in Nat
      /\ told \in Seq(Answers) /\ Len(told) = Len(said)
      /\ \A i \in 1..Len(said) : told[i] = said[i].answer
  <2>1. DOMAIN said = 1..Len(said) /\ Len(said) \in Nat
    BY <1>4, LenProperties
  <2>2. told \in Seq(Answers)
    BY <1>4, HeardType DEF Told
  <2>3. DOMAIN told = 1..Len(said)
    BY <2>1 DEF Told
  <2>4. Len(told) = Len(said)
    BY <2>1, <2>2, <2>3, LenProperties
  <2>5. \A i \in 1..Len(said) : told[i] = said[i].answer
    BY <2>1 DEF Told
  <2> HIDE DEF told, said
  <2> QED
    BY <2>1, <2>2, <2>4, <2>5
<1> HIDE DEF asker, told
<1>6. ASSUME NEW i \in 1..Len(said)
      PROVE  HasSource(Paths, asker, told[i])
  <2>1. told[i] = said[i].answer
    BY <1>5
  <2>2. CASE ~Honest(path)
    BY <1>2, <2>2 DEF HasSource, Honest
  <2>3. CASE Honest(path)
    <3>1. WellSaid(Paths, path, said)
      BY <1>1, <2>3, HearsayIs DEF HearsayInv
    <3> DEFINE known == net.first_hand[NodeOf(path)]
    <3>2. CASE i <= Len(known) /\ said[i] = [answer |-> known[i], provenance |-> "FirstHand"]
      <4>1. known \in Seq(Answers) /\ i \in DOMAIN known
        <5>1. known \in Seq(Answers)
          BY <1>1, PathsType
        <5>2. Len(known) \in Nat /\ DOMAIN known = 1..Len(known)
          BY <5>1, LenProperties
        <5> QED
          BY <1>5, <3>2, <5>1, <5>2
      <4> HIDE DEF known
      <4>2. told[i] = known[i]
        BY <2>1, <3>2
      <4>3. told[i] \in ToSet(known)
        BY <4>1, <4>2 DEF ToSet
      <4> QED
        BY <1>2, <4>3 DEF HasSource, known
    <3>3. CASE HasSource(Paths, path, said[i].answer)
      <4>1. PICK p \in Paths :
               /\ IsStrictPrefix(path, p)
               /\ \/ NodeOf(p) \in net.flooders
                  \/ said[i].answer \in ToSet(net.first_hand[NodeOf(p)])
        BY <3>3 DEF HasSource
      <4>2. IsStrictPrefix(asker, p)
        BY <1>2, <1>4, <4>1, UnderTransitive
      <4> QED
        BY <2>1, <4>1, <4>2 DEF HasSource
    <3>4. i \in DOMAIN said
      BY <1>5
    <3> QED
      BY <3>1, <3>2, <3>3, <3>4 DEF WellSaid
  <2> QED
    BY <2>2, <2>3
<1>7. ASSUME NEW i \in DOMAIN asks'[asker].heard
      PROVE  HasSource(Paths, asker, asks'[asker].heard[i])
  <2> DEFINE heard == asks[asker].heard
  <2>1. /\ Len(heard) \in Nat /\ DOMAIN heard = 1..Len(heard)
        /\ DOMAIN (heard \o told) = 1..Len(heard) + Len(told)
        /\ \A j \in 1..Len(heard) + Len(told) :
              (heard \o told)[j] = IF j <= Len(heard) THEN heard[j] ELSE told[j - Len(heard)]
    <3>1. heard \in Seq(Answers) /\ told \in Seq(Answers)
      BY <1>4, <1>5
    <3> HIDE DEF heard
    <3>2. /\ heard \o told \in Seq(Answers)
          /\ Len(heard \o told) = Len(heard) + Len(told)
          /\ \A j \in 1..Len(heard) + Len(told) :
                (heard \o told)[j] = IF j <= Len(heard) THEN heard[j] ELSE told[j - Len(heard)]
      BY <3>1, ConcatProperties
    <3>3. /\ Len(heard) \in Nat /\ DOMAIN heard = 1..Len(heard)
          /\ DOMAIN (heard \o told) = 1..Len(heard \o told)
      BY <3>1, <3>2, LenProperties
    <3> QED
      BY <3>2, <3>3
  <2>2. i \in 1..Len(heard) + Len(told) /\ asks'[asker].heard = heard \o told
    BY <1>3, <1>7, <2>1
  <2> HIDE DEF heard
  <2>3. CASE i <= Len(heard)
    <3>1. i \in DOMAIN heard /\ asks'[asker].heard[i] = heard[i]
      BY <2>1, <2>2, <2>3
    <3>2. HasSource(Paths, asker, heard[i])
      BY <1>2, <3>1 DEF HearsayInv, HeardHasSource, heard
    <3> QED
      BY <3>1, <3>2
  <2>4. CASE ~(i <= Len(heard))
    <3> DEFINE j == i - Len(heard)
    <3>1. j \in 1..Len(said) /\ asks'[asker].heard[i] = told[j]
      BY <1>5, <2>1, <2>2, <2>4
    <3> QED
      BY <1>6, <3>1
  <2> QED
    BY <2>3, <2>4
<1>8. HeardHasSource'
  <2>1. ASSUME NEW p \in Paths, NEW i \in DOMAIN asks'[p].heard
        PROVE  HasSource(Paths, p, asks'[p].heard[i])
    <3>1. CASE p = asker
      BY <1>7, <2>1, <3>1
    <3>2. CASE p # asker
      <4>1. asks'[p].heard = asks[p].heard
        BY <1>3, <3>2
      <4> QED
        BY <2>1, <4>1 DEF HearsayInv, HeardHasSource
    <3> QED
      BY <3>1, <3>2
  <2> QED
    BY <1>3, <2>1 DEF HeardHasSource, HasSource
<1>9. HearsayStaysHearsay'
  <2>1. ASSUME NEW p \in Paths, asks'[p].status = "replied", Honest(p)
        PROVE  WellSaid(Paths, p, asks'[p].said)
    <3>1. asks'[p] = asks[p]
      BY <1>3, <2>1
    <3> QED
      BY <2>1, <3>1, HearsayIs DEF HearsayInv
  <2> QED
    BY <1>3, <2>1, HearsayIs
<1> QED
  BY <1>8, <1>9

\* Every step keeps what is said true to its sources.
LEMMA StepKeepsSources ==
    ASSUME HearsayInv, NEW path \in Paths, Step(path) \/ Lose(path)
    PROVE  HeardHasSource' /\ HearsayStaysHearsay'
<1>1. TypeInv /\ TreeInv
  BY DEF HearsayInv, TreeInv, IInv
<1>2. CASE Refuse(path)
  <2>1. /\ net' = net /\ Paths' = Paths /\ SameBut(path)
        /\ asks'[path].heard = asks[path].heard /\ asks'[path].said = Said(path, <<>>)
    BY <1>1, <1>2, RefuseChanges DEF Replaced
  <2>2. <<>> \in Seq(Answers) /\ \A i \in DOMAIN <<>> : HasSource(Paths, path, <<>>[i])
    OBVIOUS
  <2>3. WellSaid(Paths, path, asks'[path].said)
    BY <1>1, <2>1, <2>2, MergedIsWellSaid
  <2> QED
    BY <2>1, <2>3, QuietKeeps
<1>3. CASE Forward(path)
  <2>1. PICK peers \in Slates(path) :
           /\ Paths' = Paths \cup {Append(path, n) : n \in peers}
           /\ \A n \in peers : Append(path, n) \notin Paths =>
                 asks'[Append(path, n)] = Asked(Budget(path))
    BY <1>1, <1>3, ForwardChanges
  <2>2. /\ net' = net /\ SameBut(path) /\ asks'[path].status = "waiting"
        /\ asks'[path].heard = asks[path].heard
    BY <1>1, <1>3, ForwardChanges DEF Replaced
  <2>3. \A p \in Paths' \ Paths : asks'[p].heard = <<>> /\ asks'[p].status = "asked"
    <3>1. /\ Asked(Budget(path)).heard = <<>>
          /\ Asked(Budget(path)).status = "asked"
      BY DEF Asked
    <3>2. \A p \in Paths' \ Paths : asks'[p] = Asked(Budget(path))
      BY <2>1
    <3> QED
      BY <3>1, <3>2
  <2> QED
    BY <2>1, <2>2, <2>3, QuietKeeps
<1>4. CASE Flood(path)
  <2>1. /\ net' = net /\ Paths' = Paths /\ SameBut(path)
        /\ asks'[path].heard = asks[path].heard
    BY <1>1, <1>4, FloodChanges DEF Replaced
  <2>2. ~Honest(path)
    BY <1>4 DEF Flood, Honest
  <2> QED
    BY <2>1, <2>2, QuietKeeps
<1>5. CASE Hear(path)
  BY <1>5, HearKeeps
<1>6. CASE Answer(path)
  <2>1. /\ net' = net /\ Paths' = Paths /\ SameBut(path)
        /\ asks'[path].heard = <<>> /\ asks'[path].said = Said(path, asks[path].heard)
    BY <1>1, <1>6, AnswerChanges DEF Replaced
  <2>2. asks[path].heard \in Seq(Answers)
    BY <1>1, PathsType
  <2>3. WellSaid(Paths, path, asks'[path].said)
    BY <1>1, <2>1, <2>2, MergedIsWellSaid DEF HearsayInv, HeardHasSource
  <2> QED
    BY <2>1, <2>3, QuietKeeps
<1>7. CASE Lose(path)
  <2>1. /\ net' = net /\ Paths' = Paths /\ SameBut(path)
        /\ asks'[path].heard = asks[path].heard /\ asks'[path].status = "closed"
    BY <1>1, <1>7, LoseChanges DEF Replaced
  <2> QED
    BY <2>1, QuietKeeps
<1> QED
  BY <1>2, <1>3, <1>4, <1>5, <1>6, <1>7 DEF Step, Reply, Deadline

\* What is heard and said has its sources at every moment.
LEMMA HearsayInvariance == Spec => []HearsayInv
<1>1. ASSUME Init PROVE HearsayInv
  <2>1. TreeInv
    BY <1>1, InitTree
  <2>2. Paths = {<<net.start>>} /\ asks[<<net.start>>] = Asked(net.hops)
    BY <1>1 DEF Init, Paths
  <2>3. HeardHasSource /\ HearsayStaysHearsay
    BY <2>2 DEF HeardHasSource, HearsayStaysHearsay, Asked
  <2> QED
    BY <2>1, <2>3 DEF HearsayInv
<1>2. HearsayInv /\ [Next]_vars => HearsayInv'
  <2> SUFFICES ASSUME HearsayInv, [Next]_vars
               PROVE  HeardHasSource' /\ HearsayStaysHearsay' /\ TreeInv'
    BY DEF HearsayInv
  <2>1. TreeInv'
    BY TreeStep DEF HearsayInv
  <2>2. CASE Next
    <3>1. PICK path \in Paths : Step(path) \/ Lose(path)
      BY <2>2 DEF Next
    <3> QED
      BY <2>1, <3>1, StepKeepsSources
  <2>3. CASE UNCHANGED vars
    BY <2>1, <2>3 DEF vars, HearsayInv, HeardHasSource, HearsayStaysHearsay, HasSource, Paths
  <2> QED
    BY <2>2, <2>3
<1> QED
  BY <1>1, <1>2, PTL DEF Spec

\* Through any chain of relays, whatever is lost and whatever floods in, a
\* node's answer is all it knows, as its own, and then a bounded number of
\* others' answers, each from a node asked on its behalf.
THEOREM AnswersAreSourced == Spec => []HearsayStaysHearsay
<1>1. HearsayInv => HearsayStaysHearsay
  BY DEF HearsayInv
<1> QED
  BY <1>1, HearsayInvariance, PTL

-----------------------------------------------------------------------------
(* What is carried up when nothing is lost *)

Known(q) == ToSet(net.first_hand[NodeOf(q)])

Spoken(said) == {said[i].answer : i \in DOMAIN said}

\* The part of a longer path that is one step below a shorter one.
Toward(p, q) == SubSeq(q, 1, Len(p) + 1)

\* When an ask is answered, all below it is over.
FinishedIn(a) ==
    \A p, q \in DOMAIN a :
        a[p].status \in {"replied", "closed"} /\ IsStrictPrefix(p, q)
            => a[q].status = "closed"

\* An answer holds what any node below it knows, or its hearsay is full.
SaidIn(a) ==
    \A p, q \in DOMAIN a :
        a[p].status = "replied" /\ IsPrefix(p, q) /\ Honest(p) /\ Honest(q) =>
            \/ Len(a[p].said) = Len(net.first_hand[NodeOf(p)]) + max_hearsay_answers
            \/ Known(q) \subseteq Spoken(a[p].said)

\* So does what was heard so far, of the nodes below an answer taken in.
HeardIn(a) ==
    \A p, q \in DOMAIN a :
        a[p].status = "waiting" /\ IsStrictPrefix(p, q) /\ Honest(q)
                                /\ a[Toward(p, q)].status = "closed" =>
            \/ Len(a[p].heard) >= max_hearsay_answers
            \/ Known(q) \subseteq ToSet(a[p].heard)

\* A flooder relays nothing, and fills whatever hears it.
FloodsIn(a) ==
    \A p \in DOMAIN a :
        ~Honest(p) => /\ a[p].status # "waiting"
                      /\ a[p].status = "replied" => Len(a[p].said) = max_hearsay_answers + 1

\* An ask that was decided on was refused for a reason that still stands, or
\* was put to a whole slate.
DecidedOn(a, p) ==
    \/ a[p].refusal = {"RelayBudgetSpent"}
    \/ ~enabled(NodeOf(p))
    \/ a[p].hops \in {{}, {0}}
    \/ Slates(p) = {{}}
    \/ \E peers \in Slates(p) : \A n \in peers : Append(p, n) \in DOMAIN a

DecidedIn(a) ==
    \A p \in DOMAIN a : a[p].status = "asked" \/ ~Honest(p) \/ DecidedOn(a, p)

CarriedIn(a) == FinishedIn(a) /\ SaidIn(a) /\ HeardIn(a) /\ FloodsIn(a) /\ DecidedIn(a)

CarriedUp == net.lossless => CarriedIn(asks)

CarriedInv == TreeInv /\ CarriedUp

\* What is carried up after a step is said of the asks after it.
LEMMA CarriedAfter ==
    ASSUME net' = net, net.lossless => CarriedIn(asks')
    PROVE  CarriedUp'
  BY DEF CarriedUp, CarriedIn, FinishedIn, SaidIn, HeardIn, FloodsIn, DecidedIn, DecidedOn,
         Known, Spoken, Toward, Honest, enabled, Slates, eligible

\* Where a longer path goes from a shorter one.
LEMMA TowardIs ==
    ASSUME TreeInv, NEW p \in Paths, NEW q \in Paths, IsStrictPrefix(p, q)
    PROVE  LET c == Toward(p, q)
           IN  /\ c \in Paths /\ c \in Children(p) /\ Len(c) = Len(p) + 1 /\ Parent(c) = p
               /\ IsPrefix(c, q) /\ IsStrictPrefix(p, c)
               /\ c = q \/ IsStrictPrefix(c, q)
<1> DEFINE j == Len(p) + 1
           c == SubSeq(q, 1, j)
<1>1. p \in Path /\ q \in Path /\ Len(p) \in Nat \ {0} /\ Len(q) \in Nat \ {0}
  BY PathsType DEF TreeInv, IInv
<1>2. Len(p) < Len(q) /\ p = SubSeq(q, 1, Len(p))
  BY <1>1, PrefixIs
<1>3. j \in 1..Len(q) /\ Len(p) \in 1..j /\ j - 1 = Len(p)
  BY <1>1, <1>2
<1>4. j = Len(p) + 1
  OBVIOUS
<1> HIDE DEF j
<1>5. c \in Path /\ Len(c) = j
  BY <1>1, <1>3, PrefixParts
<1>6. SubSeq(c, 1, Len(p)) = p
  BY <1>1, <1>2, <1>3, PrefixOfPrefix
<1>7. c \in Paths
  BY <1>3 DEF TreeInv, Rooted
<1>8. Parent(c) = p
  BY <1>3, <1>5, <1>6 DEF Parent
<1>9. Len(c) <= Len(q) /\ Len(p) < Len(c) /\ c = SubSeq(q, 1, Len(c)) /\ p = SubSeq(c, 1, Len(p))
  BY <1>1, <1>3, <1>4, <1>5, <1>6
<1> HIDE DEF c
<1>10. IsPrefix(c, q) /\ IsStrictPrefix(p, c)
  BY <1>1, <1>5, <1>9, PrefixIs
<1>11. c = q \/ IsStrictPrefix(c, q)
  BY <1>10 DEF IsStrictPrefix
<1>12. c \in Children(p)
  BY <1>4, <1>5, <1>7, <1>8 DEF Children
<1> QED
  BY <1>4, <1>5, <1>7, <1>8, <1>10, <1>11, <1>12 DEF Toward, c, j

\* Nobody is below an ask on its way.
LEMMA NoneBelow ==
    ASSUME TreeInv, NEW path \in Paths, asks[path].status = "asked", NEW q \in Paths
    PROVE  ~IsStrictPrefix(path, q) /\ (IsPrefix(path, q) => path = q)
<1>1. ~IsStrictPrefix(path, q)
  BY TowardIs DEF TreeInv, Branching
<1> QED
  BY <1>1 DEF IsStrictPrefix

\* An ask is answered: what is carried up so far is kept, if what it says is
\* carried up.
LEMMA RepliedKeeps ==
    ASSUME CarriedInv, net.lossless, net' = net, Paths' = Paths,
           NEW path \in Paths, SameBut(path),
           asks[path].status \in {"asked", "waiting"}, asks'[path].status = "replied",
           \A q \in Paths : IsStrictPrefix(path, q) => asks[q].status = "closed",
           \A q \in Paths : IsPrefix(path, q) /\ Honest(path) /\ Honest(q) =>
               \/ Len(asks'[path].said) = Len(net.first_hand[NodeOf(path)]) + max_hearsay_answers
               \/ Known(q) \subseteq Spoken(asks'[path].said),
           ~Honest(path) => Len(asks'[path].said) = max_hearsay_answers + 1,
           Honest(path) => DecidedOn(asks', path)
    PROVE  CarriedIn(asks')
<1>1. CarriedIn(asks) /\ TreeInv /\ DOMAIN asks' = Paths /\ DOMAIN asks = Paths
  BY DEF CarriedInv, CarriedUp, Paths
<1>2. \A p \in Paths \ {path} : asks'[p] = asks[p]
  BY DEF SameBut
<1>3. FinishedIn(asks')
  <2> SUFFICES ASSUME NEW p \in Paths, NEW q \in Paths,
                      asks'[p].status \in {"replied", "closed"}, IsStrictPrefix(p, q)
               PROVE  asks'[q].status = "closed"
    BY <1>1 DEF FinishedIn
  <2>1. asks[q].status = "closed"
    BY <1>1, <1>2 DEF CarriedIn, FinishedIn
  <2>2. q # path
    BY <2>1
  <2> QED
    BY <1>2, <2>1, <2>2
<1>4. SaidIn(asks')
  <2> SUFFICES ASSUME NEW p \in Paths, NEW q \in Paths, asks'[p].status = "replied",
                      IsPrefix(p, q), Honest(p), Honest(q)
               PROVE  \/ Len(asks'[p].said) = Len(net.first_hand[NodeOf(p)]) + max_hearsay_answers
                      \/ Known(q) \subseteq Spoken(asks'[p].said)
    BY <1>1 DEF SaidIn
  <2>1. CASE p = path
    BY <2>1
  <2>2. CASE p # path
    <3>1. asks'[p] = asks[p]
      BY <1>2, <2>2
    <3> QED
      BY <1>1, <3>1 DEF CarriedIn, SaidIn
  <2> QED
    BY <2>1, <2>2
<1>5. HeardIn(asks')
  <2> SUFFICES ASSUME NEW p \in Paths, NEW q \in Paths, asks'[p].status = "waiting",
                      IsStrictPrefix(p, q), Honest(q), asks'[Toward(p, q)].status = "closed"
               PROVE  \/ Len(asks'[p].heard) >= max_hearsay_answers
                      \/ Known(q) \subseteq ToSet(asks'[p].heard)
    BY <1>1 DEF HeardIn
  <2>1. p # path /\ Toward(p, q) \in Paths /\ Toward(p, q) # path
    BY <1>1, TowardIs
  <2>2. asks'[p] = asks[p] /\ asks'[Toward(p, q)] = asks[Toward(p, q)]
    BY <1>2, <2>1
  <2> QED
    BY <1>1, <2>2 DEF CarriedIn, HeardIn
<1>6. FloodsIn(asks')
  <2> SUFFICES ASSUME NEW p \in Paths, ~Honest(p)
               PROVE  /\ asks'[p].status # "waiting"
                      /\ asks'[p].status = "replied" =>
                            Len(asks'[p].said) = max_hearsay_answers + 1
    BY <1>1 DEF FloodsIn
  <2>1. CASE p = path
    BY <2>1
  <2>2. CASE p # path
    <3>1. asks'[p] = asks[p]
      BY <1>2, <2>2
    <3> QED
      BY <1>1, <3>1 DEF CarriedIn, FloodsIn
  <2> QED
    BY <2>1, <2>2
<1>7. DecidedIn(asks')
  <2> SUFFICES ASSUME NEW p \in Paths, asks'[p].status # "asked", Honest(p)
               PROVE  DecidedOn(asks', p)
    BY <1>1 DEF DecidedIn
  <2>1. CASE p = path
    BY <2>1
  <2>2. CASE p # path
    <3>1. asks'[p] = asks[p]
      BY <1>2, <2>2
    <3>2. DecidedOn(asks, p)
      BY <1>1, <3>1 DEF CarriedIn, DecidedIn
    <3> QED
      BY <1>1, <3>1, <3>2 DEF DecidedOn
  <2> QED
    BY <2>1, <2>2
<1> QED
  BY <1>3, <1>4, <1>5, <1>6, <1>7 DEF CarriedIn

\* A node says all it knows.
LEMMA OwnIsSpoken ==
    ASSUME TypeInv, NEW path \in Paths, NEW heard \in Seq(Answers)
    PROVE  Known(path) \subseteq Spoken(Said(path, heard))
<1> DEFINE known == net.first_hand[NodeOf(path)]
           said  == Said(path, heard)
           k == Len(known)
<1>1. known \in Seq(Answers)
  BY PathsType
<1>2. /\ k \in Nat /\ Len(said) = k + Kept(heard) /\ DOMAIN said = 1..Len(said)
      /\ \A i \in 1..k : said[i] = [answer |-> known[i], provenance |-> "FirstHand"]
  BY SaidIs
<1>3. Kept(heard) \in Nat /\ DOMAIN known = 1..k
  <2>1. Kept(heard) \in 0..Len(heard) /\ Len(heard) \in Nat
    BY KeptIs, LenProperties
  <2>2. DOMAIN known = 1..k
    BY <1>1, LenProperties
  <2> QED
    BY <2>1, <2>2
<1> HIDE DEF known, said, k
<1>4. \A i \in 1..k : i \in DOMAIN said /\ said[i].answer = known[i]
  <2> SUFFICES ASSUME NEW i \in 1..k PROVE i \in DOMAIN said /\ said[i].answer = known[i]
    OBVIOUS
  <2>1. i \in 1..Len(said) /\ DOMAIN said = 1..Len(said)
    BY <1>2, <1>3
  <2>2. said[i] = [answer |-> known[i], provenance |-> "FirstHand"]
    BY <1>2
  <2>3. said[i].answer = known[i]
    BY <2>2
  <2> QED
    BY <2>1, <2>3
<1>5. ToSet(known) \subseteq Spoken(said)
  BY <1>3, <1>4 DEF ToSet, Spoken
<1> QED
  BY <1>5 DEF Known, known, said

\* And all it heard, if all of it is kept.
LEMMA AllIsSpoken ==
    ASSUME TypeInv, NEW path \in Paths, NEW heard \in Seq(Answers), Kept(heard) = Len(heard)
    PROVE  ToSet(heard) \subseteq Spoken(Said(path, heard))
<1> DEFINE said == Said(path, heard)
           k == Len(net.first_hand[NodeOf(path)])
<1>1. /\ k \in Nat /\ Len(said) = k + Len(heard) /\ DOMAIN said = 1..Len(said)
      /\ \A i \in 1..Len(heard) :
            said[k + i] = [answer |-> heard[i], provenance |-> "Hearsay"]
  BY SaidIs
<1>2. Len(heard) \in Nat /\ DOMAIN heard = 1..Len(heard)
  BY LenProperties
<1> HIDE DEF said, k
<1>3. \A i \in 1..Len(heard) : k + i \in DOMAIN said /\ said[k + i].answer = heard[i]
  <2> SUFFICES ASSUME NEW i \in 1..Len(heard)
               PROVE  k + i \in DOMAIN said /\ said[k + i].answer = heard[i]
    OBVIOUS
  <2>1. k + i \in 1..Len(said) /\ DOMAIN said = 1..Len(said)
    BY <1>1, <1>2
  <2>2. said[k + i] = [answer |-> heard[i], provenance |-> "Hearsay"]
    BY <1>1
  <2>3. said[k + i].answer = heard[i]
    BY <2>2
  <2> QED
    BY <2>1, <2>3
<1>4. ToSet(heard) \subseteq Spoken(said)
  BY <1>2, <1>3 DEF ToSet, Spoken
<1> QED
  BY <1>4 DEF said

\* Refusing: nobody is below, and all that is known is said.
LEMMA RefuseCarries ==
    ASSUME CarriedInv, net.lossless, NEW path \in Paths, Refuse(path)
    PROVE  CarriedIn(asks')
<1>1. TypeInv /\ TreeInv
  BY DEF CarriedInv, TreeInv, IInv
<1>2. /\ net' = net /\ Paths' = Paths /\ SameBut(path) /\ asks'[path].status = "replied"
      /\ asks'[path].refusal = Refusals(path) /\ asks'[path].hops = asks[path].hops
      /\ asks'[path].said = Said(path, <<>>)
  BY <1>1, RefuseChanges DEF Replaced
<1>3. asks[path].status = "asked" /\ Honest(path) /\ Refusals(path) # {}
  BY DEF Refuse, Honest
<1>4. \A q \in Paths : ~IsStrictPrefix(path, q) /\ (IsPrefix(path, q) => path = q)
  BY <1>1, <1>3, NoneBelow
<1>5. Known(path) \subseteq Spoken(asks'[path].said)
  <2>1. <<>> \in Seq(Answers)
    OBVIOUS
  <2> QED
    BY <1>1, <1>2, <2>1, OwnIsSpoken
<1>6. DecidedOn(asks', path)
  BY <1>2, <1>3 DEF DecidedOn, Refusals
<1> QED
  BY <1>2, <1>3, <1>4, <1>5, <1>6, RepliedKeeps

\* Flooding: nobody is below.
LEMMA FloodCarries ==
    ASSUME CarriedInv, net.lossless, NEW path \in Paths, Flood(path)
    PROVE  CarriedIn(asks')
<1>1. TypeInv /\ TreeInv
  BY DEF CarriedInv, TreeInv, IInv
<1>2. /\ net' = net /\ Paths' = Paths /\ SameBut(path) /\ asks'[path].status = "replied"
      /\ Len(asks'[path].said) = max_hearsay_answers + 1
  BY <1>1, FloodChanges DEF Replaced
<1>3. asks[path].status = "asked" /\ ~Honest(path)
  BY DEF Flood, Honest
<1>4. \A q \in Paths : ~IsStrictPrefix(path, q)
  BY <1>1, <1>3, NoneBelow
<1> QED
  BY <1>2, <1>3, <1>4, RepliedKeeps

\* Replying: all below is over, so what was heard holds what they know.
LEMMA ReplyCarries ==
    ASSUME CarriedInv, net.lossless, NEW path \in Paths, Reply(path)
    PROVE  CarriedIn(asks')
<1> DEFINE heard == asks[path].heard
           known == net.first_hand[NodeOf(path)]
<1>1. TypeInv /\ TreeInv /\ CarriedIn(asks) /\ DOMAIN asks = Paths
  BY DEF CarriedInv, CarriedUp, TreeInv, IInv, Paths
<1>2. asks[path].status = "waiting" /\ AllHeard(path) /\ Answer(path)
  BY DEF Reply
<1>3. /\ net' = net /\ Paths' = Paths /\ SameBut(path) /\ asks'[path].status = "replied"
      /\ asks'[path].refusal = asks[path].refusal /\ asks'[path].hops = asks[path].hops
      /\ asks'[path].said = Said(path, heard)
  BY <1>1, <1>2, AnswerChanges DEF Replaced
<1>4. Honest(path)
  BY <1>1, <1>2 DEF CarriedIn, FloodsIn
<1>5. ASSUME NEW q \in Paths, IsStrictPrefix(path, q)
      PROVE  asks[q].status = "closed" /\ asks[Toward(path, q)].status = "closed"
  <2> DEFINE c == Toward(path, q)
  <2>1. c \in Children(path) /\ c \in Paths /\ (c = q \/ IsStrictPrefix(c, q))
    BY <1>1, <1>5, TowardIs
  <2>2. asks[c].status = "closed"
    BY <1>2, <2>1 DEF AllHeard
  <2> HIDE DEF c
  <2>3. asks[q].status = "closed"
    BY <1>1, <2>1, <2>2 DEF CarriedIn, FinishedIn
  <2> QED
    BY <2>2, <2>3 DEF c
<1>6. ASSUME NEW q \in Paths, IsPrefix(path, q), Honest(q)
      PROVE  \/ Len(asks'[path].said) = Len(known) + max_hearsay_answers
             \/ Known(q) \subseteq Spoken(asks'[path].said)
  <2>1. heard \in Seq(Answers) /\ Len(heard) \in Nat /\ max_hearsay_answers \in Nat
    BY <1>1, PathsType, LenProperties, DiscoveryAssumption
  <2>2. CASE q = path
    BY <1>1, <1>3, <2>1, <2>2, OwnIsSpoken
  <2>3. CASE q # path
    <3>1. IsStrictPrefix(path, q)
      BY <1>6, <2>3 DEF IsStrictPrefix
    <3>2. \/ Len(heard) >= max_hearsay_answers
          \/ Known(q) \subseteq ToSet(heard)
      BY <1>1, <1>2, <1>5, <1>6, <3>1 DEF CarriedIn, HeardIn
    <3>3. CASE Len(heard) >= max_hearsay_answers
      <4>1. Kept(heard) = max_hearsay_answers
        BY <2>1, <3>3 DEF Kept
      <4> QED
        BY <1>1, <1>3, <2>1, <4>1, SaidIs
    <3>4. CASE ~(Len(heard) >= max_hearsay_answers) /\ Known(q) \subseteq ToSet(heard)
      <4>1. Kept(heard) = Len(heard)
        BY <2>1, <3>4 DEF Kept
      <4>2. ToSet(heard) \subseteq Spoken(asks'[path].said)
        BY <1>1, <1>3, <2>1, <4>1, AllIsSpoken
      <4> QED
        BY <3>4, <4>2
    <3> QED
      BY <3>2, <3>3, <3>4
  <2> QED
    BY <2>2, <2>3
<1>7. DecidedOn(asks', path)
  <2>1. DecidedOn(asks, path)
    BY <1>1, <1>2, <1>4 DEF CarriedIn, DecidedIn
  <2> QED
    BY <1>3, <2>1 DEF DecidedOn, Paths
<1> QED
  BY <1>2, <1>3, <1>4, <1>5, <1>6, <1>7, RepliedKeeps

\* Forwarding: the new asks stand below nothing that is over, and none of
\* them is over.
LEMMA ForwardCarries ==
    ASSUME CarriedInv, net.lossless, NEW path \in Paths, Forward(path)
    PROVE  CarriedIn(asks')
<1>1. TypeInv /\ TreeInv /\ CarriedIn(asks) /\ DOMAIN asks = Paths /\ DOMAIN asks' = Paths'
  BY DEF CarriedInv, CarriedUp, TreeInv, IInv, Paths
<1>2. PICK peers \in Slates(path) :
         /\ peers \subseteq Nodes
         /\ Paths' = Paths \cup {Append(path, n) : n \in peers}
         /\ \A n \in peers : Append(path, n) \notin Paths =>
               asks'[Append(path, n)] = Asked(Budget(path))
  BY <1>1, ForwardChanges
<1>3. /\ asks[path].status = "asked" /\ SameBut(path)
      /\ asks'[path].status = "waiting" /\ Honest(path)
  BY <1>1, ForwardChanges DEF Replaced
<1>4. path \in Path /\ Paths \subseteq Path /\ Children(path) = {}
  BY <1>1, <1>3, PathsType DEF TreeInv, Branching
<1> DEFINE new == {Append(path, n) : n \in peers}
<1>5. ASSUME NEW c \in new
      PROVE  /\ c \in Path /\ c \notin Paths /\ Len(c) = Len(path) + 1
             /\ SubSeq(c, 1, Len(path)) = path /\ Parent(c) = path
             /\ \A i \in 1..Len(path) : SubSeq(c, 1, i) = SubSeq(path, 1, i)
             /\ asks'[c].status = "asked"
  <2>1. PICK n \in peers : c = Append(path, n)
    BY <1>5
  <2>2. /\ c \in Path /\ Len(c) = Len(path) + 1 /\ Parent(c) = path
        /\ SubSeq(c, 1, Len(path)) = path
        /\ \A i \in 1..Len(path) : SubSeq(c, 1, i) = SubSeq(path, 1, i)
    BY <1>2, <1>4, <2>1, AppendedPath
  <2>3. c \notin Paths
    BY <1>4, <2>2 DEF Children
  <2>4. asks'[c] = Asked(Budget(path))
    BY <1>2, <2>1, <2>3
  <2>5. asks'[c].status = "asked"
    BY <2>4 DEF Asked
  <2> QED
    BY <2>2, <2>3, <2>5
<1>6. Paths' = Paths \cup new
  BY <1>2
<1> HIDE DEF new
<1>7. \A p \in Paths \ {path} : asks'[p] = asks[p]
  BY <1>3 DEF SameBut
\* Whoever stands above a new ask stands above this one, or is it.
<1>8. ASSUME NEW p \in Paths, NEW c \in new, IsPrefix(p, c)
      PROVE  p = path \/ (IsStrictPrefix(p, path) /\ Toward(p, c) = Toward(p, path))
  <2>1. p \in Path /\ Len(p) \in Nat \ {0} /\ Len(path) \in Nat \ {0} /\ c \in Path /\ p # c
    BY <1>1, <1>5, PathsType
  <2>2. Len(p) <= Len(c) /\ p = SubSeq(c, 1, Len(p)) /\ Len(c) = Len(path) + 1
    BY <1>5, <1>8, <2>1, PrefixIs
  <2>3. Len(p) # Len(c)
    BY <2>1, <2>2, PrefixIs
  <2>4. Len(p) \in 1..Len(path)
    <3>1. Len(p) \in Nat \ {0} /\ Len(path) \in Nat /\ Len(p) <= Len(path) + 1
          /\ Len(p) # Len(path) + 1
      BY <2>1, <2>2, <2>3
    <3> QED
      BY ONLY <3>1
  <2>5. p = SubSeq(path, 1, Len(p))
    BY <1>5, <2>2, <2>4
  <2>6. CASE Len(p) = Len(path)
    BY <1>4, <2>5, <2>6, PrefixIs
  <2>7. CASE Len(p) # Len(path)
    <3>1. Len(p) < Len(path) /\ Len(p) + 1 \in 1..Len(path)
      BY <2>1, <2>4, <2>7
    <3>2. IsStrictPrefix(p, path)
      BY <1>4, <2>1, <2>5, <3>1, PrefixIs
    <3>3. Toward(p, c) = Toward(p, path)
      BY <1>5, <3>1 DEF Toward
    <3> QED
      BY <3>2, <3>3
  <2> QED
    BY <2>6, <2>7
\* And what stands above this one is not over.
<1>9. ASSUME NEW p \in Paths, NEW c \in new, IsPrefix(p, c)
      PROVE  asks'[p].status \notin {"replied", "closed"}
  <2>1. CASE p = path
    BY <1>3, <2>1
  <2>2. CASE IsStrictPrefix(p, path) /\ p # path
    <3>1. asks[p].status \notin {"replied", "closed"}
      BY <1>1, <1>3, <2>2 DEF CarriedIn, FinishedIn
    <3> QED
      BY <1>7, <2>2, <3>1
  <2> QED
    BY <1>8, <1>9, <2>1, <2>2
<1>10. FinishedIn(asks')
  <2> SUFFICES ASSUME NEW p \in Paths', NEW q \in Paths',
                      asks'[p].status \in {"replied", "closed"}, IsStrictPrefix(p, q)
               PROVE  asks'[q].status = "closed"
    BY <1>1 DEF FinishedIn
  <2>1. p \in Paths /\ p # path
    BY <1>3, <1>5, <1>6
  <2>2. q \notin new
    BY <1>9, <2>1 DEF IsStrictPrefix
  <2>3. q \in Paths /\ asks'[p] = asks[p]
    BY <1>6, <1>7, <2>1, <2>2
  <2>4. asks[q].status = "closed"
    BY <1>1, <2>1, <2>3 DEF CarriedIn, FinishedIn
  <2> QED
    BY <1>3, <1>7, <2>3, <2>4
<1>11. SaidIn(asks')
  <2> SUFFICES ASSUME NEW p \in Paths', NEW q \in Paths', asks'[p].status = "replied",
                      IsPrefix(p, q), Honest(p), Honest(q)
               PROVE  \/ Len(asks'[p].said) = Len(net.first_hand[NodeOf(p)]) + max_hearsay_answers
                      \/ Known(q) \subseteq Spoken(asks'[p].said)
    BY <1>1 DEF SaidIn
  <2>1. p \in Paths /\ p # path
    BY <1>3, <1>5, <1>6
  <2>2. q \in Paths
    BY <1>6, <1>9, <2>1
  <2>3. asks'[p] = asks[p]
    BY <1>7, <2>1
  <2> QED
    BY <1>1, <2>1, <2>2, <2>3 DEF CarriedIn, SaidIn
<1>12. HeardIn(asks')
  <2> SUFFICES ASSUME NEW p \in Paths', NEW q \in Paths', asks'[p].status = "waiting",
                      IsStrictPrefix(p, q), Honest(q), asks'[Toward(p, q)].status = "closed"
               PROVE  \/ Len(asks'[p].heard) >= max_hearsay_answers
                      \/ Known(q) \subseteq ToSet(asks'[p].heard)
    BY <1>1 DEF HeardIn
  <2>1. p \in Paths /\ p \in Path
    BY <1>4, <1>5, <1>6
  <2>2. CASE q \in new
    <3>1. p = path \/ (IsStrictPrefix(p, path) /\ Toward(p, q) = Toward(p, path))
      BY <1>8, <2>1, <2>2 DEF IsStrictPrefix
    <3>2. CASE p = path
      <4>1. /\ Len(q) = Len(path) + 1 /\ q \in Path /\ SubSeq(q, 1, Len(q)) = q
        BY <1>5, <2>2, PrefixIs
      <4>2. Toward(p, q) = q
        BY <3>2, <4>1 DEF Toward
      <4> QED
        BY <1>5, <2>2, <4>2
    <3>3. CASE IsStrictPrefix(p, path) /\ Toward(p, q) = Toward(p, path)
      <4> DEFINE c == Toward(p, path)
      <4>1. c \in Paths /\ (c = path \/ IsStrictPrefix(c, path)) /\ asks'[c].status = "closed"
        BY <1>1, <2>1, <3>3, TowardIs
      <4> HIDE DEF c
      <4>2. c # path /\ asks'[c] = asks[c]
        BY <1>3, <1>7, <4>1
      <4>3. asks[path].status = "closed"
        BY <1>1, <4>1, <4>2 DEF CarriedIn, FinishedIn
      <4> QED
        BY <1>3, <4>3
    <3> QED
      BY <3>1, <3>2, <3>3
  <2>3. CASE q \in Paths
    <3>1. p # path
      BY <1>1, <1>3, <2>3, NoneBelow
    <3>2. asks'[p] = asks[p]
      BY <1>7, <2>1, <3>1
    <3>3. Toward(p, q) \in Paths /\ Toward(p, q) # path
      BY <1>1, <1>3, <2>1, <2>3, TowardIs
    <3>4. asks[Toward(p, q)].status = "closed"
      BY <1>7, <3>3
    <3> QED
      BY <1>1, <2>1, <2>3, <3>2, <3>4 DEF CarriedIn, HeardIn
  <2> QED
    BY <1>6, <2>2, <2>3
<1>13. FloodsIn(asks')
  <2> SUFFICES ASSUME NEW p \in Paths', ~Honest(p)
               PROVE  /\ asks'[p].status # "waiting"
                      /\ asks'[p].status = "replied" =>
                            Len(asks'[p].said) = max_hearsay_answers + 1
    BY <1>1 DEF FloodsIn
  <2>1. CASE p \in new
    BY <1>5, <2>1
  <2>2. CASE p \in Paths
    <3>1. asks'[p] = asks[p]
      BY <1>3, <1>7, <2>2
    <3> QED
      BY <1>1, <2>2, <3>1 DEF CarriedIn, FloodsIn
  <2> QED
    BY <1>6, <2>1, <2>2
<1>14. DecidedIn(asks')
  <2> SUFFICES ASSUME NEW p \in Paths', asks'[p].status # "asked", Honest(p)
               PROVE  DecidedOn(asks', p)
    BY <1>1 DEF DecidedIn
  <2>1. CASE p \in new
    BY <1>5, <2>1
  <2>2. CASE p = path
    <3>1. \A n \in peers : Append(p, n) \in DOMAIN asks'
      BY <1>1, <1>2, <2>2
    <3> QED
      BY <2>2, <3>1 DEF DecidedOn
  <2>3. CASE p \in Paths \ {path}
    <3>1. asks'[p] = asks[p]
      BY <1>7, <2>3
    <3>2. DecidedOn(asks, p)
      BY <1>1, <2>3, <3>1 DEF CarriedIn, DecidedIn
    <3> QED
      BY <1>1, <1>6, <3>1, <3>2 DEF DecidedOn
  <2> QED
    BY <1>6, <2>1, <2>2, <2>3
<1> QED
  BY <1>10, <1>11, <1>12, <1>13, <1>14 DEF CarriedIn

\* Joining two sequences loses nothing of either.
LEMMA Joined ==
    ASSUME NEW s \in Seq(Answers), NEW t \in Seq(Answers)
    PROVE  /\ Len(s) \in Nat /\ Len(s \o t) = Len(s) + Len(t)
           /\ ToSet(s) \subseteq ToSet(s \o t) /\ ToSet(t) \subseteq ToSet(s \o t)
<1>1. /\ s \o t \in Seq(Answers) /\ Len(s \o t) = Len(s) + Len(t)
      /\ \A i \in 1..Len(s) + Len(t) :
            (s \o t)[i] = IF i <= Len(s) THEN s[i] ELSE t[i - Len(s)]
  BY ConcatProperties
<1>2. /\ Len(s) \in Nat /\ Len(t) \in Nat /\ DOMAIN s = 1..Len(s) /\ DOMAIN t = 1..Len(t)
      /\ DOMAIN (s \o t) = 1..Len(s \o t)
  BY <1>1, LenProperties
<1> DEFINE u == s \o t
<1>3. \A i \in 1..Len(s) : i \in DOMAIN u /\ u[i] = s[i]
  BY <1>1, <1>2
<1>4. ASSUME NEW i \in 1..Len(t)
      PROVE  Len(s) + i \in DOMAIN u /\ u[Len(s) + i] = t[i]
  <2>1. Len(s) + i \in 1..Len(s) + Len(t) /\ ~(Len(s) + i <= Len(s)) /\ Len(s) + i - Len(s) = i
    BY <1>2
  <2> QED
    BY <1>1, <1>2, <2>1
<1> HIDE DEF u
<1>5. ToSet(s) \subseteq ToSet(u) /\ ToSet(t) \subseteq ToSet(u)
  BY <1>2, <1>3, <1>4 DEF ToSet
<1> QED
  BY <1>1, <1>2, <1>5 DEF u

\* Hearing: what the asker hears is what the node said, and so what anyone
\* below that node knows, unless it fills the asker's answer.
LEMMA HearCarries ==
    ASSUME CarriedInv, net.lossless, NEW path \in Paths, Hear(path)
    PROVE  CarriedIn(asks')
<1> DEFINE asker == Parent(path)
           said == asks[path].said
           told == Told(path)
<1>1. /\ TypeInv /\ TreeInv /\ CarriedIn(asks) /\ DOMAIN asks = Paths /\ DOMAIN asks' = Paths'
      /\ Len(path) > 1 /\ asks[path].status = "replied" /\ asks[asker].status = "waiting"
  BY DEF CarriedInv, CarriedUp, TreeInv, IInv, Paths, Hear
<1>2. asker \in Paths
  BY <1>1, AskerIsThere
<1>3. /\ net' = net /\ Paths' = Paths /\ asker # path
      /\ \A p \in Paths \ {path, asker} : asks'[p] = asks[p]
      /\ asks'[path].status = "closed"
      /\ asks'[asker].heard = asks[asker].heard \o told /\ asks'[asker].status = "waiting"
      /\ asks'[path].hops = asks[path].hops /\ asks'[asker].hops = asks[asker].hops
      /\ asks'[path].refusal = asks[path].refusal /\ asks'[asker].refusal = asks[asker].refusal
  BY <1>1, <1>2, HearChanges DEF Replaced
<1>4. /\ said \in Seq(SaidAnswer) /\ told \in Seq(Answers) /\ asks[asker].heard \in Seq(Answers)
      /\ ToSet(told) = Spoken(said) /\ Len(told) = Len(said) /\ Len(said) \in Nat
  <2>1. said \in Seq(SaidAnswer) /\ asks[asker].heard \in Seq(Answers)
    BY <1>1, <1>2, PathsType
  <2>2. DOMAIN said = 1..Len(said) /\ Len(said) \in Nat
    BY <2>1, LenProperties
  <2>3. told \in Seq(Answers)
    BY <2>1, HeardType DEF Told
  <2>4. DOMAIN told = 1..Len(said)
    BY <2>2 DEF Told
  <2>5. Len(told) = Len(said)
    BY <2>2, <2>3, <2>4, LenProperties
  <2>6. ToSet(told) = Spoken(said)
    BY DEF Told, ToSet, Spoken
  <2> HIDE DEF told, said
  <2> QED
    BY <2>1, <2>2, <2>3, <2>5, <2>6
<1> DEFINE heard == asks[asker].heard
<1>5. /\ Len(heard) \in Nat /\ Len(heard \o told) = Len(heard) + Len(told)
      /\ ToSet(heard) \subseteq ToSet(heard \o told)
      /\ ToSet(told) \subseteq ToSet(heard \o told)
  <2> HIDE DEF heard, told
  <2>1. heard \in Seq(Answers) /\ told \in Seq(Answers)
    BY <1>4 DEF heard
  <2> QED
    BY <2>1, Joined
<1> HIDE DEF asker, told, heard
<1>6. FinishedIn(asks')
  <2> SUFFICES ASSUME NEW p \in Paths, NEW q \in Paths,
                      asks'[p].status \in {"replied", "closed"}, IsStrictPrefix(p, q)
               PROVE  asks'[q].status = "closed"
    BY <1>1, <1>3 DEF FinishedIn
  <2>1. asks[p].status \in {"replied", "closed"}
    BY <1>1, <1>3
  <2>2. asks[q].status = "closed"
    BY <1>1, <2>1 DEF CarriedIn, FinishedIn
  <2>3. q # asker
    BY <1>1, <2>2 DEF asker
  <2> QED
    BY <1>3, <2>2, <2>3
<1>7. SaidIn(asks')
  <2> SUFFICES ASSUME NEW p \in Paths, NEW q \in Paths, asks'[p].status = "replied",
                      IsPrefix(p, q), Honest(p), Honest(q)
               PROVE  \/ Len(asks'[p].said) = Len(net.first_hand[NodeOf(p)]) + max_hearsay_answers
                      \/ Known(q) \subseteq Spoken(asks'[p].said)
    BY <1>1, <1>3 DEF SaidIn
  <2>1. asks'[p] = asks[p]
    BY <1>3
  <2> QED
    BY <1>1, <2>1 DEF CarriedIn, SaidIn
<1>8. HeardIn(asks')
  <2> SUFFICES ASSUME NEW p \in Paths, NEW q \in Paths, asks'[p].status = "waiting",
                      IsStrictPrefix(p, q), Honest(q), asks'[Toward(p, q)].status = "closed"
               PROVE  \/ Len(asks'[p].heard) >= max_hearsay_answers
                      \/ Known(q) \subseteq ToSet(asks'[p].heard)
    BY <1>1, <1>3 DEF HeardIn
  <2> DEFINE c == Toward(p, q)
  <2>1. /\ c \in Paths /\ Parent(c) = p /\ IsPrefix(c, q) /\ asks'[c].status = "closed"
        /\ max_hearsay_answers \in Nat
    BY <1>1, TowardIs, DiscoveryAssumption
  <2>2. c # asker /\ asks[p].status = "waiting"
    BY <1>1, <1>3, <2>1 DEF asker
  <2>3. CASE c = path
    <3>1. p = asker /\ asks'[p].heard = heard \o told
      BY <1>3, <2>1, <2>3 DEF asker, heard
    <3>2. \/ Len(said) >= max_hearsay_answers
          \/ Known(q) \subseteq Spoken(said)
      <4>1. CASE Honest(path)
        <5>1. \/ Len(said) = Len(net.first_hand[NodeOf(path)]) + max_hearsay_answers
              \/ Known(q) \subseteq Spoken(said)
          BY <1>1, <2>1, <2>3, <4>1 DEF CarriedIn, SaidIn
        <5>2. Len(net.first_hand[NodeOf(path)]) \in Nat
          BY <1>1, PathsType, LenProperties
        <5> QED
          BY <2>1, <5>1, <5>2
      <4>2. CASE ~Honest(path)
        <5>1. Len(said) = max_hearsay_answers + 1
          BY <1>1, <4>2 DEF CarriedIn, FloodsIn
        <5> QED
          BY <2>1, <5>1
      <4> QED
        BY <4>1, <4>2
    <3>3. CASE Len(said) >= max_hearsay_answers
      BY <1>4, <1>5, <2>1, <3>1, <3>3
    <3>4. CASE Known(q) \subseteq Spoken(said)
      BY <1>4, <1>5, <3>1, <3>4
    <3> QED
      BY <3>2, <3>3, <3>4
  <2>4. CASE c # path
    <3>1. asks[c].status = "closed"
      BY <1>3, <2>1, <2>2, <2>4
    <3>2. \/ Len(asks[p].heard) >= max_hearsay_answers
          \/ Known(q) \subseteq ToSet(asks[p].heard)
      BY <1>1, <2>2, <3>1 DEF CarriedIn, HeardIn
    <3>3. CASE p = asker
      <4>1. asks'[p].heard = heard \o told /\ asks[p].heard = heard
        BY <1>3, <3>3 DEF heard
      <4>2. CASE Len(heard) >= max_hearsay_answers
        BY <1>4, <1>5, <2>1, <4>1, <4>2
      <4>3. CASE Known(q) \subseteq ToSet(heard)
        BY <1>5, <4>1, <4>3
      <4> QED
        BY <3>2, <4>1, <4>2, <4>3
    <3>4. CASE p # asker
      <4>1. asks'[p] = asks[p]
        BY <1>3, <3>4
      <4> QED
        BY <3>2, <4>1
    <3> QED
      BY <3>3, <3>4
  <2> QED
    BY <2>3, <2>4
<1>9. FloodsIn(asks')
  <2> SUFFICES ASSUME NEW p \in Paths, ~Honest(p)
               PROVE  /\ asks'[p].status # "waiting"
                      /\ asks'[p].status = "replied" =>
                            Len(asks'[p].said) = max_hearsay_answers + 1
    BY <1>1, <1>3 DEF FloodsIn
  <2>1. p # asker
    BY <1>1 DEF CarriedIn, FloodsIn, asker
  <2>2. CASE p = path
    BY <1>3, <2>2
  <2>3. CASE p # path
    <3>1. asks'[p] = asks[p]
      BY <1>3, <2>1, <2>3
    <3> QED
      BY <1>1, <3>1 DEF CarriedIn, FloodsIn
  <2> QED
    BY <2>2, <2>3
<1>10. DecidedIn(asks')
  <2> SUFFICES ASSUME NEW p \in Paths, asks'[p].status # "asked", Honest(p)
               PROVE  DecidedOn(asks', p)
    BY <1>1, <1>3 DEF DecidedIn
  <2>1. asks[p].status # "asked"
    BY <1>1, <1>3 DEF asker
  <2>2. DecidedOn(asks, p)
    BY <1>1, <2>1 DEF CarriedIn, DecidedIn
  <2>3. asks'[p].refusal = asks[p].refusal /\ asks'[p].hops = asks[p].hops
    BY <1>3
  <2> QED
    BY <1>1, <1>3, <2>2, <2>3 DEF DecidedOn
<1> QED
  BY <1>6, <1>7, <1>8, <1>9, <1>10 DEF CarriedIn

\* When nothing is lost, what is known is carried up at every moment.
LEMMA CarriedInvariance == Spec => []CarriedInv
<1>1. ASSUME Init PROVE CarriedInv
  <2> DEFINE root == <<net.start>>
  <2>1. TreeInv /\ Paths \subseteq Path
    BY <1>1, InitTree, PathsType DEF TreeInv, IInv
  <2>2. DOMAIN asks = {root} /\ asks[root] = Asked(net.hops) /\ Paths = {root}
    BY <1>1 DEF Init, Paths
  <2>3. asks[root].status = "asked" /\ ~IsStrictPrefix(root, root)
    BY <2>2 DEF Asked, IsStrictPrefix
  <2> HIDE DEF root
  <2>4. CarriedIn(asks)
    BY <2>2, <2>3 DEF CarriedIn, FinishedIn, SaidIn, HeardIn, FloodsIn, DecidedIn
  <2> QED
    BY <2>1, <2>4 DEF CarriedInv, CarriedUp
<1>2. CarriedInv /\ [Next]_vars => CarriedInv'
  <2> SUFFICES ASSUME CarriedInv, [Next]_vars
               PROVE  TreeInv' /\ CarriedUp'
    BY DEF CarriedInv
  <2>1. TreeInv'
    BY TreeStep DEF CarriedInv
  <2>2. CASE Next
    <3>1. PICK path \in Paths : Step(path) \/ Lose(path)
      BY <2>2 DEF Next
    <3>2. net' = net
      BY <3>1 DEF Step, Refuse, Forward, Flood, Hear, Reply, Deadline, Lose, Answer
    <3>3. ASSUME net.lossless
          PROVE  CarriedIn(asks')
      <4>1. ~Lose(path) /\ ~Deadline(path)
        BY <3>3 DEF Lose, Deadline
      <4> QED
        BY <3>1, <3>3, <4>1, RefuseCarries, ForwardCarries, FloodCarries, HearCarries,
           ReplyCarries DEF Step
    <3> QED
      BY <2>1, <3>2, <3>3, CarriedAfter
  <2>3. CASE UNCHANGED vars
    <3>1. net' = net /\ asks' = asks
      BY <2>3 DEF vars
    <3>2. net.lossless => CarriedIn(asks')
      BY <3>1 DEF CarriedInv, CarriedUp
    <3> QED
      BY <2>1, <3>1, <3>2, CarriedAfter
  <2> QED
    BY <2>2, <2>3
<1> QED
  BY <1>1, <1>2, PTL DEF Spec

-----------------------------------------------------------------------------
(* Near holders are heard *)

\* When every candidate fits a slate, they are the slate.
LEMMA WholeSlate ==
    ASSUME TypeInv, NEW path \in Paths, Cardinality(eligible(path)) <= fan_out,
           NEW peers \in Slates(path)
    PROVE  peers = eligible(path)
<1> DEFINE e == eligible(path)
           c == Cardinality(e)
<1>1. IsFiniteSet(e)
  <2>1. NodeOf(path) \in Nodes /\ net \in Network /\ IsFiniteSet(Nodes)
    BY PathsType, DiscoveryAssumption
  <2>2. e \subseteq Nodes
    BY <2>1 DEF eligible, Network
  <2> HIDE DEF e
  <2> QED
    BY <2>1, <2>2, FS_Subset
<1>2. c \in Nat /\ fan_out \in Nat /\ c <= fan_out
  BY <1>1, FS_CardinalityType, DiscoveryAssumption
<1>3. peers \subseteq e /\ Cardinality(peers) = Min({fan_out, c})
  BY DEF Slates
<1> HIDE DEF e, c
<1>4. Min({fan_out, c}) \in {fan_out, c} /\ Min({fan_out, c}) <= c
  BY <1>2, MinOfTwo
<1>5. Cardinality(peers) = c
  BY <1>2, <1>3, <1>4
<1>6. peers = e
  BY <1>1, <1>3, <1>5, FS_Subset DEF c
<1> QED
  BY <1>6 DEF e

\* A slate can always be drawn, and when every candidate fits, all are drawn.
LEMMA WholeSlateIsDrawn ==
    ASSUME TypeInv, NEW path \in Paths, Cardinality(eligible(path)) <= fan_out
    PROVE  eligible(path) \in Slates(path)
<1> DEFINE e == eligible(path)
           c == Cardinality(e)
<1>1. IsFiniteSet(e)
  <2>1. NodeOf(path) \in Nodes /\ net \in Network /\ IsFiniteSet(Nodes)
    BY PathsType, DiscoveryAssumption
  <2>2. e \subseteq Nodes
    BY <2>1 DEF eligible, Network
  <2> HIDE DEF e
  <2> QED
    BY <2>1, <2>2, FS_Subset
<1>2. c \in Nat /\ fan_out \in Nat /\ c <= fan_out
  BY <1>1, FS_CardinalityType, DiscoveryAssumption
<1> HIDE DEF c
<1>3. Min({fan_out, c}) \in {fan_out, c} /\ Min({fan_out, c}) <= c
  BY <1>2, MinOfTwo
<1>4. Min({fan_out, c}) = c
  BY <1>2, <1>3
<1> QED
  BY <1>4 DEF Slates, c

\* Every ask is below the root.
LEMMA RootIsUnder ==
    ASSUME TreeInv, NEW q \in Paths
    PROVE  IsPrefix(<<net.start>>, q)
<1> DEFINE root == <<net.start>>
<1>1. root \in Path /\ q \in Path /\ Len(root) = 1 /\ root[1] = net.start
      /\ q[1] = net.start /\ Len(q) \in Nat \ {0}
  BY PathsType DEF TreeInv, IInv, Rooted
<1>2. 1..1 = {1} /\ 1 <= Len(q)
  BY <1>1
<1> HIDE DEF root
<1>3. Len(root) <= Len(q) /\ \A j \in 1..Len(root) : root[j] = q[j]
  BY <1>1, <1>2
<1>4. IsPrefix(root, q)
  BY <1>1, <1>3, PrefixIs
<1> QED
  BY <1>4 DEF root

\* Along a way, each node is asked, at most as many hops away as along the
\* way.
LEMMA AskedAlong ==
    ASSUME CarriedInv, Unhindered, asks[<<net.start>>].status = "replied",
           NEW n \in Nodes, NEW way \in Ways(n), NEW i \in 1..Len(way)
    PROVE  \E q \in Paths : Len(q) <= i /\ NodeOf(q) = way[i]
<1> DEFINE root == <<net.start>>
           reached(j) == \E q \in Paths : Len(q) <= j /\ NodeOf(q) = way[j]
           missed == {j \in 1..Len(way) : ~reached(j)}
<1>1. /\ TypeInv /\ TreeInv /\ net.lossless /\ CarriedIn(asks) /\ DOMAIN asks = Paths
      /\ Paths \subseteq Path
  BY PathsType DEF CarriedInv, CarriedUp, Unhindered, TreeInv, IInv, Paths
<1>2. PICK k \in Nat : way \in [1..k -> Nodes] /\ k >= 1
  BY DEF Ways
<1>3. Len(way) = k /\ DOMAIN way = 1..k
  <2>1. way \in Seq(Nodes)
    BY <1>2
  <2>2. Len(way) \in Nat /\ DOMAIN way = 1..Len(way)
    BY <2>1, LenProperties
  <2>3. 1..Len(way) = 1..k
    BY <1>2, <2>2
  <2>4. k \in 1..Len(way)
    BY <1>2, <2>3
  <2>5. Len(way) \in 1..k
    BY <1>2, <2>2, <2>3, <2>4
  <2> QED
    BY <1>2, <2>2, <2>4, <2>5
<1>4. /\ way[1] = net.start
      /\ \E hops \in net.hops : Len(way) <= hops + 1
      /\ \A j \in 1..Len(way) - 1 :
            /\ way[j + 1] \in net.known_peers[way[j]]
            /\ enabled(way[j])
            /\ way[j] \notin net.flooders
  BY DEF Ways
<1>5. PICK budget \in net.hops : Len(way) <= budget + 1
  BY <1>4
<1>6. budget \in Nat
  BY <1>1, BudgetIsNat
<1>7. root \in Paths /\ Len(root) = 1 /\ NodeOf(root) = net.start
  BY <1>1 DEF TreeInv, Rooted, NodeOf
<1>8. reached(1)
  <2> HIDE DEF root
  <2>1. Len(root) <= 1 /\ NodeOf(root) = way[1]
    BY <1>4, <1>7
  <2> QED
    BY <1>7, <2>1
\* One node further.
<1>9. ASSUME NEW j \in 1..Len(way) - 1, reached(j)
      PROVE  reached(j + 1)
  <2> DEFINE m == way[j + 1]
  <2>1. PICK q \in Paths : Len(q) <= j /\ NodeOf(q) = way[j]
    BY <1>9
  <2>2. /\ q \in Path /\ Len(q) \in Nat \ {0} /\ NodeOf(q) \in Nodes /\ net \in Network
        /\ j \in Nat /\ j + 1 \in 1..k /\ j + 1 <= budget + 1
    BY <1>1, <1>2, <1>3, <1>5, <1>6, PathsType
  <2>3. m \in net.known_peers[NodeOf(q)] /\ enabled(NodeOf(q)) /\ Honest(q) /\ m \in Nodes
    BY <1>2, <1>4, <2>1, <2>2 DEF Honest
  <2> HIDE DEF m
  <2>4. CASE m = NodeOf(q)
    <3>1. Len(q) <= j + 1
      BY <2>1, <2>2
    <3> QED
      BY <2>4, <3>1 DEF m
  <2>5. CASE m = Requestor(q)
    <3>1. Len(q) # 1
      BY <2>3, <2>5, DiscoveryAssumption DEF Requestor
    <3>2. Len(q) > 1 /\ m = q[Len(q) - 1] /\ Len(q) - 1 \in 1..Len(q)
      <4>1. Len(q) \in Nat \ {0}
        BY <2>2
      <4>2. Len(q) > 1 /\ Len(q) - 1 \in 1..Len(q)
        <5>1. \A x \in Nat \ {0} : x # 1 => x > 1 /\ x - 1 \in 1..x
          OBVIOUS
        <5> QED
          BY <3>1, <4>1, <5>1
      <4>3. m = q[Len(q) - 1]
        BY <2>5, <3>1 DEF Requestor
      <4> QED
        BY <4>2, <4>3
    <3>3. Parent(q) \in Paths /\ Len(Parent(q)) = Len(q) - 1
      BY <1>1, <3>2, AskerIsThere
    <3>4. Parent(q)[Len(q) - 1] = q[Len(q) - 1]
      <4> DEFINE l == Len(q) - 1
      <4>1. l \in 1..Len(q) /\ l \in 1..l
        BY <2>2, <3>2
      <4> HIDE DEF l
      <4>2. SubSeq(q, 1, l)[l] = q[l]
        BY <2>2, <4>1, PrefixParts
      <4> QED
        BY <4>2 DEF Parent, l
    <3>5. NodeOf(Parent(q)) = m
      BY <3>2, <3>3, <3>4 DEF NodeOf
    <3>6. Len(Parent(q)) <= j + 1
      BY <2>1, <2>2, <3>3
    <3> QED
      BY <3>3, <3>5, <3>6 DEF m
  <2>6. CASE m # NodeOf(q) /\ m # Requestor(q)
    <3>1. m \in eligible(q)
      BY <2>3, <2>6 DEF eligible
    <3>2. asks[q].status # "asked"
      <4>1. CASE q = root
        BY <4>1
      <4>2. CASE q # root
        <5>1. IsStrictPrefix(root, q)
          BY <1>1, <4>2, RootIsUnder DEF IsStrictPrefix
        <5>2. asks[q].status = "closed"
          BY <1>1, <1>7, <5>1 DEF CarriedIn, FinishedIn
        <5> QED
          BY <5>2
      <4> QED
        BY <4>1, <4>2
    <3>3. DecidedOn(asks, q)
      BY <1>1, <2>3, <3>2 DEF CarriedIn, DecidedIn
    <3>4. asks[q].refusal # {"RelayBudgetSpent"} /\ Cardinality(eligible(q)) <= fan_out
      BY DEF Unhindered
    <3>5. asks[q].hops \notin {{}, {0}}
      <4>1. asks[q].hops = {budget + 1 - Len(q)}
        BY <1>1 DEF TreeInv, IInv, BudgetIsSpent
      <4>2. budget + 1 - Len(q) # 0
        BY <1>6, <2>1, <2>2
      <4> QED
        BY <4>1, <4>2
    <3>6. Slates(q) # {{}}
      BY <1>1, <3>1, <3>4, WholeSlateIsDrawn
    <3>7. PICK peers \in Slates(q) : \A x \in peers : Append(q, x) \in Paths
      BY <1>1, <2>3, <3>3, <3>4, <3>5, <3>6 DEF DecidedOn
    <3>8. m \in peers
      BY <1>1, <3>1, <3>4, <3>7, WholeSlate
    <3>9. Append(q, m) \in Paths /\ Len(Append(q, m)) = Len(q) + 1 /\ NodeOf(Append(q, m)) = m
      BY <2>2, <2>3, <3>7, <3>8, AppendedPath
    <3>10. Len(Append(q, m)) <= j + 1
      BY <2>1, <2>2, <3>9
    <3> QED
      BY <3>9, <3>10 DEF m
  <2> QED
    BY <2>4, <2>5, <2>6
<1> HIDE DEF reached
<1>10. CASE missed = {}
  <2>1. reached(i)
    BY <1>10
  <2> QED
    BY <2>1 DEF reached
<1>11. CASE missed # {}
  <2>1. missed \in SUBSET Nat
    BY <1>2, <1>3
  <2>2. PICK j \in missed : \A l \in missed : j <= l
    BY <1>11, <2>1, LeastOf
  <2>3. j # 1 /\ j \in 1..k
    BY <1>3, <1>8, <2>2
  <2> DEFINE l == j - 1
  <2>4. l \in 1..Len(way) - 1 /\ l + 1 = j /\ l \in 1..Len(way) /\ ~(j <= l)
    BY <1>2, <1>3, <2>3
  <2> HIDE DEF l
  <2>5. reached(l)
    BY <2>2, <2>4
  <2>6. reached(j)
    BY <1>9, <2>4, <2>5
  <2> QED
    BY <2>2, <2>6
<1> QED
  BY <1>10, <1>11

\* A full answer: as much hearsay as is kept.
LEMMA FullOfHearsay ==
    ASSUME TypeInv, NEW path \in Paths, WellSaid(Paths, path, asks[path].said),
           Len(asks[path].said) = Len(net.first_hand[NodeOf(path)]) + max_hearsay_answers
    PROVE  Cardinality({i \in DOMAIN asks[path].said :
                           asks[path].said[i].provenance = "Hearsay"}) = max_hearsay_answers
<1> DEFINE said == asks[path].said
           known == net.first_hand[NodeOf(path)]
           k == Len(known)
           hearsay == {i \in DOMAIN said : said[i].provenance = "Hearsay"}
<1>1. k \in Nat /\ max_hearsay_answers \in Nat
  BY PathsType, LenProperties, DiscoveryAssumption
<1>2. said \in Seq(SaidAnswer)
  BY PathsType
<1>3. DOMAIN said = 1..Len(said) /\ Len(said) = k + max_hearsay_answers
  BY <1>2, LenProperties
<1>4. \A i \in DOMAIN said :
         \/ i <= k /\ said[i] = [answer |-> known[i], provenance |-> "FirstHand"]
         \/ i > k /\ said[i].provenance = "Hearsay"
  BY DEF WellSaid
<1> HIDE DEF said, known, k
<1>5. \A i \in DOMAIN said : said[i].provenance = "Hearsay" <=> i > k
  <2> SUFFICES ASSUME NEW i \in DOMAIN said
               PROVE  said[i].provenance = "Hearsay" <=> i > k
    OBVIOUS
  <2>1. CASE i <= k /\ said[i] = [answer |-> known[i], provenance |-> "FirstHand"]
    <3>1. said[i].provenance = "FirstHand"
      BY <2>1
    <3> QED
      BY <1>1, <1>3, <2>1, <3>1
  <2>2. CASE i > k /\ said[i].provenance = "Hearsay"
    BY <2>2
  <2> QED
    BY <1>4, <2>1, <2>2
<1>6. hearsay = k + 1..k + max_hearsay_answers
  BY <1>1, <1>3, <1>5
<1>7. Cardinality(k + 1..k + max_hearsay_answers) = max_hearsay_answers
  <2> DEFINE first == k + 1
             last == k + max_hearsay_answers
  <2>1. first \in Int /\ last \in Int
    BY <1>1
  <2>2. (IF first > last THEN 0 ELSE last - first + 1) = max_hearsay_answers
    BY <1>1
  <2> HIDE DEF first, last
  <2>3. Cardinality(first..last) = IF first > last THEN 0 ELSE last - first + 1
    BY <2>1, FS_Interval
  <2> QED
    BY <2>2, <2>3 DEF first, last
<1> QED
  BY <1>6, <1>7 DEF said

\* The miss finds what is near: when nothing is lost or refused for load, the
\* client hears of every provider known within the hop budget, unless hearsay
\* fills the answer; in any network, with cycles and flooders in it.
THEOREM NearIsHeard == Spec => []NearHolderIsHeard
<1>1. ASSUME CarriedInv, HearsayInv PROVE NearHolderIsHeard
  <2> DEFINE root == <<net.start>>
             said == asks[root].said
  <2> SUFFICES ASSUME asks[root].status = "replied", Unhindered,
                      NEW n \in Nodes \ net.flooders, NEW way \in Ways(n)
               PROVE  \/ ToSet(net.first_hand[n]) \subseteq {said[i].answer : i \in DOMAIN said}
                      \/ Cardinality({i \in DOMAIN said : said[i].provenance = "Hearsay"})
                            = max_hearsay_answers
    BY DEF NearHolderIsHeard
  <2>1. /\ TypeInv /\ TreeInv /\ CarriedIn(asks) /\ DOMAIN asks = Paths
        /\ root \in Paths /\ NodeOf(root) = net.start
    BY <1>1 DEF CarriedInv, CarriedUp, Unhindered, TreeInv, IInv, Paths, Rooted, NodeOf
  <2>2. way[1] = net.start /\ way[Len(way)] = n /\ Len(way) \in Nat \ {0}
        /\ \A i \in 1..Len(way) - 1 : way[i] \notin net.flooders
    <3>1. PICK k \in Nat : way \in [1..k -> Nodes] /\ k >= 1
      BY DEF Ways
    <3>2. way \in Seq(Nodes)
      BY <3>1
    <3>3. Len(way) \in Nat /\ 1..Len(way) = 1..k
      BY <3>1, <3>2, LenProperties
    <3>4. k \in 1..Len(way)
      BY <3>1, <3>3
    <3>5. Len(way) \in Nat \ {0}
      BY <3>3, <3>4
    <3> QED
      BY <3>5 DEF Ways
  <2>3. Honest(root)
    <3>1. CASE Len(way) = 1
      BY <2>1, <2>2, <3>1 DEF Honest
    <3>2. CASE Len(way) # 1
      <4>1. 1 \in 1..Len(way) - 1
        BY <2>2, <3>2
      <4> QED
        BY <2>1, <2>2, <4>1 DEF Honest
    <3> QED
      BY <3>1, <3>2
  <2>4. PICK q \in Paths : NodeOf(q) = n
    <3>1. Len(way) \in 1..Len(way)
      BY <2>2
    <3> QED
      BY <1>1, <2>2, <3>1, AskedAlong
  <2>5. Honest(q) /\ IsPrefix(root, q)
    BY <2>1, <2>4, RootIsUnder DEF Honest
  <2>6. \/ Len(said) = Len(net.first_hand[NodeOf(root)]) + max_hearsay_answers
        \/ Known(q) \subseteq Spoken(said)
    BY <2>1, <2>3, <2>5 DEF CarriedIn, SaidIn
  <2>7. WellSaid(Paths, root, said)
    BY <1>1, <2>1, <2>3, HearsayIs DEF HearsayInv
  <2>8. CASE Known(q) \subseteq Spoken(said)
    BY <2>4, <2>8 DEF Known, Spoken
  <2>9. CASE Len(said) = Len(net.first_hand[NodeOf(root)]) + max_hearsay_answers
    BY <2>1, <2>7, <2>9, FullOfHearsay
  <2> QED
    BY <2>6, <2>8, <2>9
<1> QED
  BY <1>1, CarriedInvariance, HearsayInvariance, PTL
=============================================================================
