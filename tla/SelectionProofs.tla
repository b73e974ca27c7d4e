-------------------------- MODULE SelectionProofs --------------------------
(***************************************************************************)
(* Theorems about select_within_capacity, for every slice, capacity,       *)
(* margin and shuffle, and about a full cache that runs it twice.          *)
(*                                                                         *)
(* The walk passes over a candidate that does not fit and still tries the  *)
(* next one.  That a reject nevertheless never ends up ahead of a retained *)
(* candidate rests on `used` only growing: what did not fit once will not  *)
(* fit later (Full), what the walk has decided is ahead of what it has not *)
(* (Walked), and tiers are walked in order (TurnOrder).                    *)
(*                                                                         *)
(* What a call retains is the one set that its arguments allow (Outcome,   *)
(* OutcomeUnique).  Repeated passes settle because the outcome of one is   *)
(* an outcome of the next.  What the caller's pass of a full cache retains *)
(* besides the capsule fills the space of the policy's pass (SeamCarries); *)
(* two sets that fill the same space mirror as many of every tier, because *)
(* neither beats the other (FilledAlike), and so the passes agree up to    *)
(* ties whatever terms each runs under (PassesPart).                       *)
(***************************************************************************)
EXTENDS SelectionRounds, Eviction, FiniteSetTheorems, FunctionTheorems, TLAPS

Decided == (retained \cup Rejected) \ Pins

\* Pins come first, and nothing else before they are all in.
PinsFirst ==
    /\ phase = "pins" => turn = 1 /\ rejected = <<>> /\ retained \subseteq Pins
    /\ phase # "pins" => Pins \subseteq retained
    /\ phase = "done" => turn = 4

\* The walk has decided nothing beyond the tier being offered and left
\* nothing undecided before it.
TurnOrder ==
    /\ \A c \in todo \ Pins : rank(pool[c].tier) <= 3 - turn
    /\ \A c \in Decided : rank(pool[c].tier) >= 3 - turn

\* What is decided of a tier is ahead of what is not.
Walked ==
    \A c \in Decided, d \in todo \ Pins :
        pool[c].tier = pool[d].tier => Ahead(c, d)

\* What did not fit does not fit.
Full ==
    \A c \in Rejected : SaturatingAdd(used, pool[c].size_bytes) > capacity

\* Rejects are noted in the order of the walk until the call returns.
NotedInOrder ==
    phase # "done" =>
        \A i, j \in DOMAIN rejected :
            i < j =>
                \/ rank(pool[rejected[i]].tier) > rank(pool[rejected[j]].tier)
                \/ /\ pool[rejected[i]].tier = pool[rejected[j]].tier
                   /\ Ahead(rejected[i], rejected[j])

IInv ==
    /\ TypeOK
    /\ EveryCandidateOnce
    /\ PinsFirst
    /\ TurnOrder
    /\ Walked
    /\ Full
    /\ SmallestFirst
    /\ NotedInOrder
    /\ EvictionOrder

-----------------------------------------------------------------------------
(* Lemmas about the operators *)

\* The ladder names every tier once, in descending rank.
LEMMA LadderRank ==
    ASSUME NEW tier \in CacheTier, NEW i \in 1..3
    PROVE  tier = Ladder[i] <=> rank(tier) = 3 - i
  BY DEF CacheTier, Ladder, rank

\* Ranks are 0, 1 and 2, and tell the tiers apart.
LEMMA RankType ==
    ASSUME NEW t1 \in CacheTier, NEW t2 \in CacheTier
    PROVE  rank(t1) \in 0..2 /\ (rank(t1) = rank(t2) => t1 = t2)
  BY DEF CacheTier, rank

\* A saturating sum is a u64, at least its first operand, and monotone.
LEMMA SaturatingAddBounds ==
    ASSUME NEW x \in 0..MaxBytes, NEW y \in 0..MaxBytes
    PROVE  /\ SaturatingAdd(x, y) \in 0..MaxBytes
           /\ SaturatingAdd(x, y) >= x
           /\ \A u \in 0..MaxBytes :
                 u >= x => SaturatingAdd(u, y) >= SaturatingAdd(x, y)
           /\ \A v \in 0..MaxBytes :
                 v >= y => SaturatingAdd(x, v) >= SaturatingAdd(x, y)
  BY SelectionAssumption DEF SaturatingAdd

\* A margin is a number between the floor and what scores can be.
LEMMA MarginType ==
    ASSUME NEW requested \in Representable \cup {NaN}
    PROVE  DisplacementMargin(requested) \in Representable
<1>1. 1 \in Representable
  BY DEF Representable, Ulp
<1> QED
  BY <1>1 DEF DisplacementMargin, MIN_DISPLACEMENT_MARGIN

\* What the arguments fix.
LEMMA Frame ==
    ASSUME UNCHANGED arguments
    PROVE  /\ pool' = pool /\ capacity' = capacity
           /\ margin' = margin /\ shuffle' = shuffle
           /\ Positions' = Positions /\ Pins' = Pins
           /\ \A c, d : Ahead(c, d)' <=> Ahead(c, d)
<1>1. pool' = pool /\ capacity' = capacity /\ margin' = margin /\ shuffle' = shuffle
  BY DEF arguments
<1> QED
  BY <1>1 DEF Positions, Pins, Ahead, contested_score

\* The parts of a candidate.
LEMMA CandidateParts ==
    ASSUME TypeOK, NEW c \in Positions
    PROVE  /\ pool[c].tier \in CacheTier
           /\ pool[c].size_bytes \in 0..MaxBytes
           /\ pool[c].score \in Score
           /\ pool[c].pinned \in BOOLEAN
           /\ pool[c].resident \in BOOLEAN
<1>1. pool[c] \in SelectionCandidate
  BY DEF TypeOK, Positions
<1> QED
  BY <1>1 DEF SelectionCandidate

\* The next candidate of a tier is undecided, unpinned, of the tier offered,
\* and ahead of the others of its tier.
LEMMA NextIs ==
    ASSUME TypeOK, turn \in 1..3, NEW c, IsNext(c)
    PROVE  /\ c \in todo \ Pins
           /\ pool[c].tier = Ladder[turn]
           /\ rank(pool[c].tier) = 3 - turn
           /\ \A d \in (todo \ {c}) \ Pins :
                 pool[d].tier = pool[c].tier => Ahead(c, d)
<1>1. c \in todo /\ ~pool[c].pinned /\ pool[c].tier = Ladder[turn]
  BY DEF IsNext, in_tier
<1>2. c \in Positions
  BY <1>1 DEF TypeOK
<1>3. rank(pool[c].tier) = 3 - turn
  BY <1>1, <1>2, CandidateParts, LadderRank
<1>4. ASSUME NEW d \in (todo \ {c}) \ Pins, pool[d].tier = pool[c].tier
      PROVE  Ahead(c, d)
  <2>1. d \in Positions
    BY <1>4 DEF TypeOK
  <2>2. d \in in_tier
    BY <1>1, <1>4, <2>1, CandidateParts DEF in_tier, Pins
  <2> QED
    BY <1>4, <2>2 DEF IsNext
<1> QED
  BY <1>1, <1>2, <1>3, <1>4 DEF Pins

-----------------------------------------------------------------------------
(* The inductive invariant *)

\* The state in which a call starts: nothing decided.
Fresh ==
    /\ phase = "pins" /\ turn = 1 /\ todo = Positions /\ used = 0
    /\ retained = {} /\ rejected = <<>>

\* A call that starts satisfies the invariant.
LEMMA FreshIInv == TypeOK /\ Fresh => IInv
<1> SUFFICES ASSUME TypeOK, Fresh PROVE IInv
  OBVIOUS
<1>1. /\ phase = "pins" /\ turn = 1 /\ todo = Positions /\ used = 0
      /\ retained = {} /\ rejected = <<>>
  BY DEF Fresh
<1>2. Rejected = {} /\ Decided = {} /\ DOMAIN rejected = {}
  BY <1>1 DEF Rejected, Decided
<1>3. TurnOrder
  <2>1. \A c \in Positions : rank(pool[c].tier) \in 0..2
    BY CandidateParts, RankType
  <2> QED
    BY <1>1, <1>2, <2>1 DEF TurnOrder
<1>4. EveryCandidateOnce /\ PinsFirst
  BY <1>1, <1>2 DEF EveryCandidateOnce, PinsFirst
<1>5. Walked /\ Full /\ SmallestFirst
  BY <1>2 DEF Walked, Full, SmallestFirst
<1>6. NotedInOrder /\ EvictionOrder
  BY <1>2 DEF NotedInOrder, EvictionOrder
<1> QED
  BY <1>3, <1>4, <1>5, <1>6 DEF IInv

\* A call with arguments of the right types starts in such a state.
LEMMA CalledFresh ==
    ASSUME NEW slice \in Seq(SelectionCandidate), Len(slice) <= MaxPool,
           NEW bytes \in 0..MaxBytes, NEW m \in Representable \cup {NaN},
           NEW order \in [Slots -> Slots],
           Called(slice, bytes, m, order)
    PROVE  TypeOK /\ Fresh
<1>1. /\ pool = slice /\ capacity = bytes /\ margin = DisplacementMargin(m)
      /\ shuffle = order /\ phase = "pins" /\ turn = 1 /\ todo = DOMAIN slice
      /\ used = 0 /\ retained = {} /\ rejected = <<>>
  BY DEF Called
<1>2. DisplacementMargin(m) \in Representable
  BY MarginType
<1>3. todo = Positions
  BY <1>1 DEF Positions
<1>4. rejected \in Seq(Positions) /\ 0 \in 0..MaxBytes
  BY <1>1, SelectionAssumption
<1> QED
  BY <1>1, <1>2, <1>3, <1>4, SelectionAssumption DEF TypeOK, Fresh

\* The initial states are calls that start.
LEMMA InitFresh == Init => TypeOK /\ Fresh
<1> SUFFICES ASSUME Init PROVE TypeOK /\ Fresh
  OBVIOUS
<1>1. PICK slice \in Slices, bytes \in Capacities, m \in Margins, order \in Shuffles :
        Called(slice, bytes, m, order)
  BY DEF Init
<1>2. /\ slice \in Seq(SelectionCandidate) /\ Len(slice) <= MaxPool /\ bytes \in 0..MaxBytes
      /\ m \in Representable \cup {NaN} /\ order \in [Slots -> Slots]
  BY SelectionAssumption
<1> QED
  BY <1>1, <1>2, CalledFresh

\* A pin is retained whatever it weighs, before anything else is decided.
LEMMA RetainPinIInv ==
    ASSUME IInv, NEW c \in Slots, RetainPin(c)
    PROVE  IInv'
<1>1. /\ phase = "pins" /\ c \in todo /\ c \in Pins
      /\ retained' = retained \cup {c}
      /\ used' = SaturatingAdd(used, pool[c].size_bytes)
      /\ todo' = todo \ {c}
      /\ phase' = phase /\ turn' = turn /\ rejected' = rejected
      /\ UNCHANGED arguments
  BY DEF RetainPin
<1>2. /\ turn = 1 /\ rejected = <<>> /\ retained \subseteq Pins
  BY <1>1 DEF IInv, PinsFirst
<1>3. /\ pool' = pool /\ capacity' = capacity /\ margin' = margin /\ shuffle' = shuffle
      /\ Positions' = Positions /\ Pins' = Pins
  BY <1>1, Frame
<1>4. /\ Rejected = {} /\ Rejected' = {} /\ DOMAIN rejected' = {}
      /\ Decided' = {}
  BY <1>1, <1>2, <1>3 DEF Rejected, Decided
<1>5. used' \in 0..MaxBytes
  BY <1>1, CandidateParts, SaturatingAddBounds DEF IInv, TypeOK
<1>6. TypeOK'
  BY <1>1, <1>3, <1>5 DEF IInv, TypeOK
<1>7. EveryCandidateOnce'
  BY <1>1, <1>2, <1>3, <1>4 DEF IInv, EveryCandidateOnce
<1>8. PinsFirst'
  BY <1>1, <1>2, <1>3 DEF PinsFirst
<1>9. TurnOrder'
  BY <1>1, <1>3, <1>4 DEF IInv, TurnOrder
<1>10. Walked' /\ Full' /\ SmallestFirst'
  BY <1>4 DEF Walked, Full, SmallestFirst
<1>11. NotedInOrder' /\ EvictionOrder'
  BY <1>4 DEF NotedInOrder, EvictionOrder
<1> QED
  BY <1>6, <1>7, <1>8, <1>9, <1>10, <1>11 DEF IInv

\* Once no pin is left the ladder starts.
LEMMA OfferTiersIInv ==
    ASSUME IInv, OfferTiers
    PROVE  IInv'
<1>1. /\ phase = "pins" /\ todo \cap Pins = {} /\ phase' = "tiers"
      /\ UNCHANGED <<turn, todo, used, retained, rejected>>
      /\ UNCHANGED arguments
  BY DEF OfferTiers
<1>2. /\ pool' = pool /\ capacity' = capacity /\ margin' = margin /\ shuffle' = shuffle
      /\ Positions' = Positions /\ Pins' = Pins
      /\ \A c, d : Ahead(c, d)' <=> Ahead(c, d)
  BY <1>1, Frame
<1>3. /\ turn = 1 /\ rejected = <<>> /\ retained \subseteq Pins
  BY <1>1 DEF IInv, PinsFirst
<1>4. Rejected = {} /\ Rejected' = {} /\ Decided' = {} /\ DOMAIN rejected' = {}
  BY <1>1, <1>2, <1>3 DEF Rejected, Decided
<1>5. TypeOK'
  BY <1>1, <1>2 DEF IInv, TypeOK
<1>6. EveryCandidateOnce'
  BY <1>1, <1>2, <1>3, <1>4 DEF IInv, EveryCandidateOnce
<1>7. Pins \subseteq Positions
  BY DEF Pins
<1>8. PinsFirst'
  BY <1>1, <1>2, <1>3, <1>4, <1>7 DEF IInv, PinsFirst, EveryCandidateOnce
<1>9. TurnOrder'
  BY <1>1, <1>2, <1>4 DEF IInv, TurnOrder
<1>10. Walked' /\ Full' /\ SmallestFirst'
  BY <1>4 DEF Walked, Full, SmallestFirst
<1>11. NotedInOrder' /\ EvictionOrder'
  BY <1>4 DEF NotedInOrder, EvictionOrder
<1> QED
  BY <1>5, <1>6, <1>8, <1>9, <1>10, <1>11 DEF IInv

\* What has been decided stays in order when the next candidate joins it.
LEMMA WalkAdvances ==
    ASSUME IInv, phase = "tiers", turn \in 1..3, NEW c, IsNext(c),
           UNCHANGED arguments, turn' = turn, todo' = todo \ {c},
           Decided' = Decided \cup {c}
    PROVE  TurnOrder' /\ Walked'
<1>1. /\ c \in todo \ Pins /\ rank(pool[c].tier) = 3 - turn
      /\ \A d \in (todo \ {c}) \ Pins : pool[d].tier = pool[c].tier => Ahead(c, d)
  BY NextIs DEF IInv
<1>2. /\ pool' = pool /\ Pins' = Pins
      /\ \A a, b : Ahead(a, b)' <=> Ahead(a, b)
  BY Frame
<1>3. TurnOrder'
  BY <1>1, <1>2 DEF IInv, TurnOrder
<1>4. Walked'
  <2> SUFFICES ASSUME NEW a \in Decided', NEW d \in (todo \ {c}) \ Pins,
                      pool[a].tier = pool[d].tier
               PROVE  Ahead(a, d)
    BY <1>2 DEF Walked
  <2>1. CASE a = c
    BY <1>1, <2>1
  <2>2. CASE a \in Decided
    BY <2>2 DEF IInv, Walked
  <2> QED
    BY <2>1, <2>2
<1> QED
  BY <1>3, <1>4

\* What is retained of a tier has no reject of the tier before it: a reject
\* ahead of it would be no larger, and would have fitted.
LEMMA RetainIInv ==
    ASSUME IInv, NEW c \in Slots, Retain(c)
    PROVE  IInv'
<1>1. /\ phase = "tiers" /\ turn \in 1..3 /\ IsNext(c)
      /\ SaturatingAdd(used, pool[c].size_bytes) <= capacity
      /\ used' = SaturatingAdd(used, pool[c].size_bytes)
      /\ retained' = retained \cup {c}
      /\ todo' = todo \ {c}
      /\ phase' = phase /\ turn' = turn /\ rejected' = rejected
      /\ UNCHANGED arguments
  BY DEF Retain
<1>2. /\ pool' = pool /\ capacity' = capacity /\ margin' = margin /\ shuffle' = shuffle
      /\ Positions' = Positions /\ Pins' = Pins
      /\ \A a, b : Ahead(a, b)' <=> Ahead(a, b)
  BY <1>1, Frame
<1>3. c \in todo \ Pins /\ c \in Positions
  BY <1>1, NextIs DEF IInv, TypeOK
<1>4. Rejected' = Rejected /\ Decided' = Decided \cup {c}
  BY <1>1, <1>2, <1>3 DEF Rejected, Decided
<1>5. /\ used \in 0..MaxBytes /\ pool[c].size_bytes \in 0..MaxBytes
      /\ capacity \in 0..MaxBytes
  BY <1>3, CandidateParts DEF IInv, TypeOK
<1>6. used' \in 0..MaxBytes /\ used' >= used
  BY <1>1, <1>5, SaturatingAddBounds
<1>7. TypeOK'
  BY <1>1, <1>2, <1>3, <1>6 DEF IInv, TypeOK
<1>8. EveryCandidateOnce'
  BY <1>1, <1>2, <1>3, <1>4 DEF IInv, EveryCandidateOnce
<1>9. PinsFirst'
  BY <1>1, <1>2 DEF IInv, PinsFirst
<1>10. TurnOrder' /\ Walked'
  BY <1>1, <1>4, WalkAdvances
<1>11. Rejected \subseteq Positions
  BY DEF IInv, EveryCandidateOnce
<1>12. Full'
  <2> SUFFICES ASSUME NEW r \in Rejected
               PROVE  SaturatingAdd(used', pool[r].size_bytes) > capacity
    BY <1>2, <1>4 DEF Full
  <2>1. pool[r].size_bytes \in 0..MaxBytes
    BY <1>11, CandidateParts DEF IInv
  <2>2. SaturatingAdd(used, pool[r].size_bytes) > capacity
    BY DEF IInv, Full
  <2>3. SaturatingAdd(used', pool[r].size_bytes) >= SaturatingAdd(used, pool[r].size_bytes)
    BY <1>5, <1>6, <2>1, SaturatingAddBounds
  <2>4. /\ SaturatingAdd(used, pool[r].size_bytes) \in 0..MaxBytes
        /\ SaturatingAdd(used', pool[r].size_bytes) \in 0..MaxBytes
    BY <1>5, <1>6, <2>1, SaturatingAddBounds
  <2> QED
    BY <1>5, <2>2, <2>3, <2>4
<1>13. SmallestFirst'
  <2> SUFFICES ASSUME NEW r \in Rejected, NEW d \in (retained \cup {c}) \ Pins,
                      pool[r].tier = pool[d].tier
               PROVE  Ahead(d, r)
    BY <1>1, <1>2, <1>4 DEF SmallestFirst
  <2>1. CASE d \in retained
    BY <2>1 DEF IInv, SmallestFirst
  <2>2. CASE d = c
    <3>1. r \in Decided
      BY DEF IInv, EveryCandidateOnce, Decided
    <3>2. Ahead(r, c)
      BY <1>3, <2>2, <3>1 DEF IInv, Walked
    <3>3. pool[r].size_bytes \in 0..MaxBytes
      BY <1>11, CandidateParts DEF IInv
    <3>4. pool[r].size_bytes <= pool[c].size_bytes
      BY <1>5, <3>2, <3>3 DEF Ahead
    <3>5. SaturatingAdd(used, pool[c].size_bytes) >= SaturatingAdd(used, pool[r].size_bytes)
      BY <1>5, <3>3, <3>4, SaturatingAddBounds
    <3>6. /\ SaturatingAdd(used, pool[c].size_bytes) \in 0..MaxBytes
          /\ SaturatingAdd(used, pool[r].size_bytes) \in 0..MaxBytes
      BY <1>5, <3>3, SaturatingAddBounds
    <3>7. SaturatingAdd(used, pool[r].size_bytes) > capacity
      BY DEF IInv, Full
    <3> QED
      BY <1>1, <1>5, <3>5, <3>6, <3>7
  <2> QED
    BY <2>1, <2>2
<1>14. NotedInOrder' /\ EvictionOrder'
  BY <1>1, <1>2 DEF IInv, NotedInOrder, EvictionOrder
<1> QED
  BY <1>7, <1>8, <1>9, <1>10, <1>12, <1>13, <1>14 DEF IInv

\* What does not fit is noted after everything the walk reached before it.
LEMMA RejectIInv ==
    ASSUME IInv, NEW c \in Slots, Reject(c)
    PROVE  IInv'
<1>1. /\ phase = "tiers" /\ turn \in 1..3 /\ IsNext(c)
      /\ SaturatingAdd(used, pool[c].size_bytes) > capacity
      /\ rejected' = Append(rejected, c)
      /\ todo' = todo \ {c}
      /\ phase' = phase /\ turn' = turn /\ used' = used /\ retained' = retained
      /\ UNCHANGED arguments
  BY DEF Reject
<1>2. /\ pool' = pool /\ capacity' = capacity /\ margin' = margin /\ shuffle' = shuffle
      /\ Positions' = Positions /\ Pins' = Pins
      /\ \A a, b : Ahead(a, b)' <=> Ahead(a, b)
  BY <1>1, Frame
<1>3. /\ c \in todo \ Pins /\ c \in Positions
      /\ rank(pool[c].tier) = 3 - turn
  BY <1>1, NextIs DEF IInv, TypeOK
<1>4. rejected \in Seq(Positions)
  BY DEF IInv, TypeOK
<1>5. /\ DOMAIN rejected = 1..Len(rejected)
      /\ DOMAIN rejected' = 1..(Len(rejected) + 1)
      /\ Len(rejected) \in Nat
      /\ \A i \in 1..Len(rejected) : rejected'[i] = rejected[i]
      /\ rejected'[Len(rejected) + 1] = c
      /\ rejected' \in Seq(Positions)
  BY <1>1, <1>3, <1>4
<1>6. Rejected' = Rejected \cup {c}
  BY <1>5 DEF Rejected
<1>7. Decided' = Decided \cup {c}
  BY <1>1, <1>2, <1>3, <1>6 DEF Decided
<1>8. TypeOK'
  BY <1>1, <1>2, <1>3, <1>5 DEF IInv, TypeOK
<1>9. c \notin Rejected /\ c \notin retained
  BY <1>3 DEF IInv, EveryCandidateOnce
<1>10. EveryCandidateOnce'
  <2>1. \A i, j \in DOMAIN rejected' : rejected'[i] = rejected'[j] => i = j
    <3> SUFFICES ASSUME NEW i \in 1..(Len(rejected) + 1), NEW j \in 1..(Len(rejected) + 1),
                        rejected'[i] = rejected'[j]
                 PROVE  i = j
      BY <1>5
    <3>1. \A k \in 1..Len(rejected) : rejected'[k] \in Rejected /\ rejected'[k] # c
      BY <1>5, <1>9 DEF Rejected
    <3>2. CASE i \in 1..Len(rejected) /\ j \in 1..Len(rejected)
      BY <1>5, <3>2 DEF IInv, EveryCandidateOnce
    <3>3. CASE i = Len(rejected) + 1 \/ j = Len(rejected) + 1
      BY <1>5, <3>1, <3>3
    <3> QED
      BY <1>5, <3>2, <3>3
  <2>2. /\ Positions = (todo \ {c}) \cup retained \cup (Rejected \cup {c})
        /\ (todo \ {c}) \cap (retained \cup Rejected \cup {c}) = {}
        /\ retained \cap (Rejected \cup {c}) = {}
        /\ (Rejected \cup {c}) \cap Pins = {}
    BY <1>3, <1>9 DEF IInv, EveryCandidateOnce
  <2> QED
    BY <1>1, <1>2, <1>6, <2>1, <2>2 DEF EveryCandidateOnce
<1>11. PinsFirst'
  BY <1>1, <1>2 DEF IInv, PinsFirst
<1>12. TurnOrder' /\ Walked'
  BY <1>1, <1>7, WalkAdvances
<1>13. Full'
  BY <1>1, <1>2, <1>6 DEF IInv, Full
<1>14. SmallestFirst'
  <2> SUFFICES ASSUME NEW r \in Rejected \cup {c}, NEW d \in retained \ Pins,
                      pool[r].tier = pool[d].tier
               PROVE  Ahead(d, r)
    BY <1>1, <1>2, <1>6 DEF SmallestFirst
  <2>1. CASE r \in Rejected
    BY <2>1 DEF IInv, SmallestFirst
  <2>2. CASE r = c
    BY <1>3, <2>2 DEF IInv, Walked, Decided
  <2> QED
    BY <2>1, <2>2
<1>15. NotedInOrder'
  <2>1. \A i \in 1..Len(rejected) :
           \/ rank(pool[rejected[i]].tier) > rank(pool[c].tier)
           \/ pool[rejected[i]].tier = pool[c].tier /\ Ahead(rejected[i], c)
    <3> SUFFICES ASSUME NEW i \in 1..Len(rejected)
                 PROVE  \/ rank(pool[rejected[i]].tier) > rank(pool[c].tier)
                        \/ pool[rejected[i]].tier = pool[c].tier /\ Ahead(rejected[i], c)
      OBVIOUS
    <3> DEFINE r == rejected[i]
    <3>1. r \in Rejected /\ r \in Decided /\ r \in Positions
      BY <1>5 DEF Rejected, Decided, IInv, EveryCandidateOnce
    <3>2. rank(pool[r].tier) >= 3 - turn
      BY <3>1 DEF IInv, TurnOrder
    <3>3. pool[r].tier \in CacheTier /\ pool[c].tier \in CacheTier
      BY <1>3, <3>1, CandidateParts DEF IInv
    <3>4. CASE rank(pool[r].tier) = rank(pool[c].tier)
      <4>1. pool[r].tier = pool[c].tier
        BY <3>3, <3>4, RankType
      <4> QED
        BY <1>3, <3>1, <4>1 DEF IInv, Walked
    <3>5. CASE rank(pool[r].tier) # rank(pool[c].tier)
      BY <1>1, <1>3, <3>2, <3>3, <3>5, RankType
    <3> QED
      BY <3>4, <3>5
  <2> SUFFICES ASSUME NEW i \in 1..(Len(rejected) + 1), NEW j \in 1..(Len(rejected) + 1), i < j
               PROVE  \/ rank(pool[rejected'[i]].tier) > rank(pool[rejected'[j]].tier)
                      \/ /\ pool[rejected'[i]].tier = pool[rejected'[j]].tier
                         /\ Ahead(rejected'[i], rejected'[j])
    BY <1>2, <1>5 DEF NotedInOrder
  <2>2. i \in 1..Len(rejected) /\ rejected'[i] = rejected[i]
    BY <1>5
  <2>3. CASE j = Len(rejected) + 1
    BY <1>5, <2>1, <2>2, <2>3
  <2>4. CASE j \in 1..Len(rejected)
    BY <1>1, <1>5, <2>2, <2>4 DEF IInv, NotedInOrder
  <2> QED
    BY <1>5, <2>3, <2>4
<1>16. EvictionOrder'
  BY <1>1 DEF EvictionOrder
<1> QED
  BY <1>8, <1>10, <1>11, <1>12, <1>13, <1>14, <1>15, <1>16 DEF IInv

\* A tier is left when nothing of it is undecided.
LEMMA NextTierIInv ==
    ASSUME IInv, NextTier
    PROVE  IInv'
<1>1. /\ phase = "tiers" /\ turn \in 1..3 /\ in_tier = {} /\ turn' = turn + 1
      /\ UNCHANGED <<phase, todo, used, retained, rejected>>
      /\ UNCHANGED arguments
  BY DEF NextTier
<1>2. /\ pool' = pool /\ capacity' = capacity /\ margin' = margin /\ shuffle' = shuffle
      /\ Positions' = Positions /\ Pins' = Pins
      /\ \A a, b : Ahead(a, b)' <=> Ahead(a, b)
  BY <1>1, Frame
<1>3. Rejected' = Rejected /\ Decided' = Decided
  BY <1>1, <1>2 DEF Rejected, Decided
<1>4. TypeOK'
  BY <1>1, <1>2 DEF IInv, TypeOK
<1>5. EveryCandidateOnce' /\ PinsFirst'
  BY <1>1, <1>2, <1>3 DEF IInv, EveryCandidateOnce, PinsFirst
<1>6. TurnOrder'
  <2>1. ASSUME NEW c \in todo \ Pins PROVE rank(pool[c].tier) <= 3 - (turn + 1)
    <3>1. c \in Positions
      BY DEF IInv, TypeOK
    <3>2. ~pool[c].pinned
      BY <3>1 DEF Pins
    <3>3. pool[c].tier # Ladder[turn]
      BY <1>1, <3>2 DEF in_tier
    <3>4. pool[c].tier \in CacheTier
      BY <3>1, CandidateParts DEF IInv
    <3>5. rank(pool[c].tier) # 3 - turn
      BY <1>1, <3>3, <3>4, LadderRank
    <3>6. rank(pool[c].tier) <= 3 - turn
      BY DEF IInv, TurnOrder
    <3>7. rank(pool[c].tier) \in 0..2
      BY <3>4, RankType
    <3> QED
      BY <1>1, <3>5, <3>6, <3>7
  <2>2. ASSUME NEW c \in Decided PROVE rank(pool[c].tier) >= 3 - (turn + 1)
    <3>1. rank(pool[c].tier) >= 3 - turn
      BY DEF IInv, TurnOrder
    <3>2. c \in Positions
      BY DEF Decided, IInv, EveryCandidateOnce
    <3>3. rank(pool[c].tier) \in 0..2
      BY <3>2, CandidateParts, RankType DEF IInv
    <3> QED
      BY <1>1, <3>1, <3>3
  <2> QED
    BY <1>1, <1>2, <1>3, <2>1, <2>2 DEF TurnOrder
<1>7. Walked' /\ Full' /\ SmallestFirst'
  BY <1>1, <1>2, <1>3 DEF IInv, Walked, Full, SmallestFirst
<1>8. NotedInOrder' /\ EvictionOrder'
  BY <1>1, <1>2 DEF IInv, NotedInOrder, EvictionOrder
<1> QED
  BY <1>4, <1>5, <1>6, <1>7, <1>8 DEF IInv

\* Backwards has the same elements, and its i-th is the i-th from the end.
LEMMA BackwardsResult ==
    ASSUME NEW S, NEW s \in Seq(S)
    PROVE  /\ Backwards(s) \in Seq(S)
           /\ DOMAIN Backwards(s) = 1..Len(s)
           /\ \A i \in 1..Len(s) : /\ Len(s) + 1 - i \in 1..Len(s)
                                   /\ Backwards(s)[i] = s[Len(s) + 1 - i]
           /\ {Backwards(s)[i] : i \in DOMAIN Backwards(s)} = {s[i] : i \in DOMAIN s}
<1>1. Len(s) \in Nat /\ DOMAIN s = 1..Len(s)
  OBVIOUS
<1>2. \A i \in 1..Len(s) : Len(s) + 1 - i \in 1..Len(s) /\ s[Len(s) + 1 - i] \in S
  BY <1>1
<1>3. Backwards(s) = [i \in 1..Len(s) |-> s[Len(s) + 1 - i]]
  BY DEF Backwards
<1>4. Backwards(s) \in [1..Len(s) -> S]
  BY <1>2, <1>3
<1>5. Backwards(s) \in Seq(S) /\ DOMAIN Backwards(s) = 1..Len(s)
  BY <1>1, <1>4
<1>6. \A i \in 1..Len(s) : Backwards(s)[i] = s[Len(s) + 1 - i]
  BY <1>3
<1>7. \A i \in 1..Len(s) : s[i] = Backwards(s)[Len(s) + 1 - i]
  <2> SUFFICES ASSUME NEW i \in 1..Len(s) PROVE s[i] = Backwards(s)[Len(s) + 1 - i]
    OBVIOUS
  <2>1. Len(s) + 1 - (Len(s) + 1 - i) = i
    BY <1>1
  <2> QED
    BY <1>2, <1>6, <2>1
<1>8. {Backwards(s)[i] : i \in 1..Len(s)} = {s[i] : i \in 1..Len(s)}
  BY <1>2, <1>6, <1>7
<1> QED
  BY <1>1, <1>2, <1>5, <1>6, <1>8

\* The call returns the rejects in the order they are to be evicted in.
LEMMA ReturnIInv ==
    ASSUME IInv, Return
    PROVE  IInv'
<1>1. /\ phase = "tiers" /\ turn = 4 /\ phase' = "done"
      /\ rejected' = Backwards(rejected)
      /\ UNCHANGED <<turn, todo, used, retained>>
      /\ UNCHANGED arguments
  BY DEF Return
<1>2. /\ pool' = pool /\ capacity' = capacity /\ margin' = margin /\ shuffle' = shuffle
      /\ Positions' = Positions /\ Pins' = Pins
      /\ \A a, b : Ahead(a, b)' <=> Ahead(a, b)
  BY <1>1, Frame
<1>3. rejected \in Seq(Positions) /\ Len(rejected) \in Nat /\ DOMAIN rejected = 1..Len(rejected)
  BY DEF IInv, TypeOK
<1>4. /\ rejected' \in Seq(Positions)
      /\ DOMAIN rejected' = 1..Len(rejected)
      /\ \A i \in 1..Len(rejected) : /\ Len(rejected) + 1 - i \in 1..Len(rejected)
                                     /\ rejected'[i] = rejected[Len(rejected) + 1 - i]
      /\ Rejected' = Rejected
  <2>1. /\ Backwards(rejected) \in Seq(Positions)
        /\ DOMAIN Backwards(rejected) = 1..Len(rejected)
        /\ \A i \in 1..Len(rejected) :
              /\ Len(rejected) + 1 - i \in 1..Len(rejected)
              /\ Backwards(rejected)[i] = rejected[Len(rejected) + 1 - i]
        /\ {Backwards(rejected)[i] : i \in DOMAIN Backwards(rejected)}
             = {rejected[i] : i \in DOMAIN rejected}
    BY <1>3, BackwardsResult
  <2>2. Rejected' = {Backwards(rejected)[i] : i \in DOMAIN Backwards(rejected)}
    BY <1>1 DEF Rejected
  <2>3. Rejected' = Rejected
    BY <2>1, <2>2 DEF Rejected
  <2> QED
    BY <1>1, <2>1, <2>3
<1>5. Decided' = Decided
  BY <1>1, <1>2, <1>4 DEF Decided
<1>6. TypeOK'
  BY <1>1, <1>2, <1>4 DEF IInv, TypeOK
<1>7. todo = {}
  <2>1. todo \ Pins = {}
    <3> SUFFICES ASSUME NEW c \in todo \ Pins PROVE FALSE
      OBVIOUS
    <3>1. rank(pool[c].tier) <= 3 - 4
      BY <1>1 DEF IInv, TurnOrder
    <3>2. c \in Positions
      BY DEF IInv, TypeOK
    <3>3. rank(pool[c].tier) \in 0..2
      BY <3>2, CandidateParts, RankType DEF IInv
    <3> QED
      BY <3>1, <3>3
  <2>2. Pins \subseteq retained
    BY <1>1 DEF IInv, PinsFirst
  <2> QED
    BY <2>1, <2>2 DEF IInv, EveryCandidateOnce
<1>8. EveryCandidateOnce'
  <2>1. \A i, j \in DOMAIN rejected' : rejected'[i] = rejected'[j] => i = j
    <3> SUFFICES ASSUME NEW i \in 1..Len(rejected), NEW j \in 1..Len(rejected),
                        rejected'[i] = rejected'[j]
                 PROVE  i = j
      BY <1>4
    <3>1. Len(rejected) + 1 - i = Len(rejected) + 1 - j
      BY <1>3, <1>4 DEF IInv, EveryCandidateOnce
    <3> QED
      BY <1>3, <3>1
  <2> QED
    BY <1>1, <1>2, <1>4, <1>7, <2>1 DEF IInv, EveryCandidateOnce
<1>9. PinsFirst'
  BY <1>1, <1>2 DEF IInv, PinsFirst
<1>10. TurnOrder' /\ Walked'
  BY <1>1, <1>2, <1>5 DEF IInv, TurnOrder, Walked
<1>11. Full' /\ SmallestFirst'
  BY <1>1, <1>2, <1>4 DEF IInv, Full, SmallestFirst
<1>12. NotedInOrder'
  BY <1>1 DEF NotedInOrder
<1>13. EvictionOrder'
  <2> SUFFICES ASSUME NEW i \in 1..Len(rejected), NEW j \in 1..Len(rejected), i < j
               PROVE  \/ rank(pool[rejected'[i]].tier) < rank(pool[rejected'[j]].tier)
                      \/ /\ pool[rejected'[i]].tier = pool[rejected'[j]].tier
                         /\ Ahead(rejected'[j], rejected'[i])
    BY <1>2, <1>4 DEF EvictionOrder
  <2> DEFINE x == Len(rejected) + 1 - i
             y == Len(rejected) + 1 - j
  <2>1. x \in 1..Len(rejected) /\ y \in 1..Len(rejected) /\ y < x
    BY <1>3
  <2>2. rejected'[i] = rejected[x] /\ rejected'[j] = rejected[y]
    BY <1>4
  <2>3. \/ rank(pool[rejected[y]].tier) > rank(pool[rejected[x]].tier)
        \/ /\ pool[rejected[y]].tier = pool[rejected[x]].tier
           /\ Ahead(rejected[y], rejected[x])
    BY <1>1, <1>3, <2>1 DEF IInv, NotedInOrder
  <2>4. rank(pool[rejected[y]].tier) \in 0..2 /\ rank(pool[rejected[x]].tier) \in 0..2
    <3>1. rejected[x] \in Positions /\ rejected[y] \in Positions
      BY <1>3, <2>1
    <3> QED
      BY <3>1, CandidateParts, RankType DEF IInv
  <2> QED
    BY <2>2, <2>3, <2>4
<1> QED
  BY <1>6, <1>8, <1>9, <1>10, <1>11, <1>12, <1>13 DEF IInv

\* One step of a call.
LEMMA NextIInv == IInv /\ [Next]_vars => IInv'
<1>1. ASSUME IInv, Next PROVE IInv'
  <2>1. CASE \E c \in Slots : RetainPin(c) \/ Retain(c) \/ Reject(c)
    BY <1>1, <2>1, RetainPinIInv, RetainIInv, RejectIInv
  <2>2. CASE OfferTiers
    BY <1>1, <2>2, OfferTiersIInv
  <2>3. CASE NextTier
    BY <1>1, <2>3, NextTierIInv
  <2>4. CASE Return
    BY <1>1, <2>4, ReturnIInv
  <2> QED
    BY <1>1, <2>1, <2>2, <2>3, <2>4 DEF Next
<1>2. ASSUME IInv, UNCHANGED vars PROVE IInv'
  <2>1. /\ UNCHANGED arguments
        /\ UNCHANGED <<phase, turn, todo, used, retained, rejected>>
    BY <1>2 DEF vars, arguments
  <2>2. /\ pool' = pool /\ capacity' = capacity /\ margin' = margin /\ shuffle' = shuffle
        /\ Positions' = Positions /\ Pins' = Pins
        /\ \A a, b : Ahead(a, b)' <=> Ahead(a, b)
    BY <2>1, Frame
  <2>3. Rejected' = Rejected /\ Decided' = Decided
    BY <2>1, <2>2 DEF Rejected, Decided
  <2>4. TypeOK' /\ EveryCandidateOnce' /\ PinsFirst'
    BY <1>2, <2>1, <2>2, <2>3 DEF IInv, TypeOK, EveryCandidateOnce, PinsFirst
  <2>5. TurnOrder' /\ Walked' /\ Full' /\ SmallestFirst'
    BY <1>2, <2>1, <2>2, <2>3 DEF IInv, TurnOrder, Walked, Full, SmallestFirst
  <2>6. NotedInOrder' /\ EvictionOrder'
    BY <1>2, <2>1, <2>2 DEF IInv, NotedInOrder, EvictionOrder
  <2> QED
    BY <2>4, <2>5, <2>6 DEF IInv
<1> QED
  BY <1>1, <1>2

\* The inductive invariant holds throughout every call.
THEOREM Invariance == Spec => []IInv
<1>1. Init => IInv
  BY InitFresh, FreshIInv
<1>2. IInv /\ [Next]_vars => IInv'
  BY NextIInv
<1> QED
  BY <1>1, <1>2, PTL DEF Spec

-----------------------------------------------------------------------------
(* Sums of sizes *)

\* A block of n units.
LEMMA Block ==
    ASSUME NEW x, NEW n \in Nat
    PROVE  /\ IsFiniteSet({x} \X (1..n))
           /\ Cardinality({x} \X (1..n)) = n
<1>1. IsFiniteSet(1..n) /\ Cardinality(1..n) = IF 1 > n THEN 0 ELSE n - 1 + 1
  <2>1. 1 \in Int /\ n \in Int
    OBVIOUS
  <2> QED
    BY <2>1, FS_Interval
<1>2. Cardinality(1..n) = n
  BY <1>1
<1>3. IsFiniteSet({x}) /\ Cardinality({x}) = 1
  BY FS_Singleton
<1>4. /\ IsFiniteSet({x} \X (1..n))
      /\ Cardinality({x} \X (1..n)) = Cardinality({x}) * Cardinality(1..n)
  BY <1>1, <1>3, FS_Product, Zenon
<1>5. Cardinality({x} \X (1..n)) = 1 * n
  BY <1>2, <1>3, <1>4
<1> QED
  BY <1>4, <1>5

\* The units of a finite sum are finitely many.
LEMMA UnitsFinite ==
    ASSUME NEW S, IsFiniteSet(S), NEW f, \A x \in S : f[x] \in Nat
    PROVE  IsFiniteSet(Units(f, S)) /\ SumOver(f, S) \in Nat
<1> DEFINE block == [x \in S |-> {x} \X (1..f[x])]
           blocks == {{x} \X (1..f[x]) : x \in S}
<1>1. block \in Surjection(S, blocks)
  <2>1. block \in [S -> blocks]
    OBVIOUS
  <2>2. \A b \in blocks : \E x \in S : block[x] = b
    OBVIOUS
  <2> QED
    BY <2>1, <2>2, Fun_IsSurj
<1>2. IsFiniteSet(blocks)
  BY <1>1, FS_Surjection
<1>3. \A b \in blocks : IsFiniteSet(b)
  <2>1. \A x \in S : IsFiniteSet({x} \X (1..f[x]))
    BY Block, Zenon
  <2> QED
    BY <2>1
<1>4. IsFiniteSet(UNION blocks)
  BY <1>2, <1>3, FS_UNION
<1>5. Units(f, S) = UNION blocks
  BY DEF Units
<1> QED
  BY <1>4, <1>5, FS_CardinalityType DEF SumOver

\* The empty sum, and the sum of one value.
LEMMA SumOfOne ==
    ASSUME NEW x, NEW f, f[x] \in Nat
    PROVE  SumOver(f, {}) = 0 /\ SumOver(f, {x}) = f[x]
<1>1. Units(f, {}) = {} /\ Units(f, {x}) = {x} \X (1..f[x])
  BY DEF Units
<1>2. Cardinality({x} \X (1..f[x])) = f[x]
  BY Block
<1> QED
  BY <1>1, <1>2, FS_EmptySet DEF SumOver

\* A sum over two disjoint sets is the sum of the two sums.
LEMMA SumOfUnion ==
    ASSUME NEW S, IsFiniteSet(S), NEW T, IsFiniteSet(T), S \cap T = {},
           NEW f, \A x \in S \cup T : f[x] \in Nat
    PROVE  SumOver(f, S \cup T) = SumOver(f, S) + SumOver(f, T)
<1>1. IsFiniteSet(Units(f, S)) /\ IsFiniteSet(Units(f, T))
  BY UnitsFinite
<1>2. Units(f, S \cup T) = Units(f, S) \cup Units(f, T)
  BY DEF Units
<1>3. Units(f, S) \cap Units(f, T) = {}
  <2> SUFFICES ASSUME NEW u, u \in Units(f, S), u \in Units(f, T) PROVE FALSE
    OBVIOUS
  <2>1. PICK x \in S : u \in {x} \X (1..f[x])
    BY DEF Units
  <2>2. PICK y \in T : u \in {y} \X (1..f[y])
    BY DEF Units
  <2>3. u[1] = x /\ u[1] = y
    BY <2>1, <2>2
  <2> QED
    BY <2>3
<1>4. Cardinality(Units(f, S) \cup Units(f, T))
        = Cardinality(Units(f, S)) + Cardinality(Units(f, T)) - Cardinality({})
  BY <1>1, <1>3, FS_Union
<1>5. Cardinality(Units(f, S)) \in Nat /\ Cardinality(Units(f, T)) \in Nat
  BY <1>1, FS_CardinalityType
<1> QED
  BY <1>2, <1>4, <1>5, FS_EmptySet DEF SumOver

\* A sum over a part, and a sum that one value joins.
LEMMA SumOfPart ==
    ASSUME NEW S, IsFiniteSet(S), NEW f, \A x \in S : f[x] \in Nat, NEW T \in SUBSET S
    PROVE  /\ SumOver(f, T) \in Nat /\ SumOver(f, S) \in Nat
           /\ SumOver(f, T) <= SumOver(f, S)
           /\ \A x \in S \ T : SumOver(f, T \cup {x}) = SumOver(f, T) + f[x]
<1>1. IsFiniteSet(T) /\ IsFiniteSet(S \ T)
  BY FS_Subset
<1>2. SumOver(f, T) \in Nat /\ SumOver(f, S) \in Nat /\ SumOver(f, S \ T) \in Nat
  BY <1>1, UnitsFinite
<1>3. SumOver(f, T \cup (S \ T)) = SumOver(f, T) + SumOver(f, S \ T)
  BY <1>1, SumOfUnion
<1>4. T \cup (S \ T) = S
  OBVIOUS
<1>5. ASSUME NEW x \in S \ T PROVE SumOver(f, T \cup {x}) = SumOver(f, T) + f[x]
  <2>1. IsFiniteSet({x}) /\ T \cap {x} = {}
    BY FS_Singleton
  <2>2. f[x] \in Nat
    OBVIOUS
  <2>3. SumOver(f, {x}) = f[x]
    BY <2>2, SumOfOne
  <2>4. \A y \in T \cup {x} : f[y] \in Nat
    OBVIOUS
  <2>5. SumOver(f, T \cup {x}) = SumOver(f, T) + SumOver(f, {x})
    BY <1>1, <2>1, <2>4, SumOfUnion
  <2> QED
    BY <2>3, <2>5
<1>6. SumOver(f, S) = SumOver(f, T) + SumOver(f, S \ T)
  BY <1>3, <1>4
<1>7. SumOver(f, T) <= SumOver(f, S)
  BY <1>2, <1>6
<1> QED
  BY <1>2, <1>5, <1>7

\* Of two sums, the one of at least as many values, each at least as large as
\* every value of the other, is the larger.
LEMMA Exchange ==
    ASSUME NEW S, IsFiniteSet(S), NEW T, IsFiniteSet(T),
           Cardinality(T) <= Cardinality(S),
           NEW f, \A x \in S \cup T : f[x] \in Nat,
           \A x \in S, y \in T : f[y] <= f[x]
    PROVE  SumOver(f, T) <= SumOver(f, S)
<1>1. PICK g : g \in Injection(T, S)
  <2>1. /\ Cardinality(S) \in Nat /\ Cardinality(T) \in Nat
        /\ ExistsBijection(1..Cardinality(S), S)
        /\ ExistsBijection(1..Cardinality(T), T)
    BY FS_CardinalityType
  <2>2. PICK s : s \in Bijection(1..Cardinality(S), S)
    BY <2>1 DEF ExistsBijection
  <2>3. PICK t : t \in Bijection(1..Cardinality(T), T)
    BY <2>1 DEF ExistsBijection
  <2>4. /\ s \in [1..Cardinality(S) -> S]
        /\ \A i, j \in 1..Cardinality(S) : s[i] = s[j] => i = j
    BY <2>2, Fun_BijectionProperties
  <2>5. \A y \in T : \E i \in 1..Cardinality(T) : t[i] = y
    BY <2>3 DEF Bijection, Surjection
  <2> DEFINE place == [y \in T |-> CHOOSE i \in 1..Cardinality(T) : t[i] = y]
             image == [y \in T |-> s[place[y]]]
  <2>6. \A y \in T : place[y] \in 1..Cardinality(T) /\ t[place[y]] = y
    BY <2>5
  <2>7. \A y \in T : place[y] \in 1..Cardinality(S)
    BY <2>1, <2>6
  <2> HIDE DEF place
  <2>8. image \in [T -> S]
    BY <2>4, <2>7
  <2>9. \A y, z \in T : image[y] = image[z] => y = z
    BY <2>4, <2>6, <2>7
  <2>10. image \in Injection(T, S)
    BY <2>8, <2>9, Fun_IsInj
  <2> QED
    BY <2>10
<1>2. g \in [T -> S] /\ \A y, z \in T : g[y] = g[z] => y = z
  BY <1>1, Fun_InjectionProperties
<1> DEFINE move == [u \in Units(f, T) |-> <<g[u[1]], u[2]>>]
<1>3. ASSUME NEW u \in Units(f, T)
      PROVE  u[1] \in T /\ u[2] \in 1..f[u[1]] /\ u = <<u[1], u[2]>>
  <2>1. PICK y \in T : u \in {y} \X (1..f[y])
    BY DEF Units
  <2> QED
    BY <2>1
<1>4. move \in [Units(f, T) -> Units(f, S)]
  <2> SUFFICES ASSUME NEW u \in Units(f, T) PROVE <<g[u[1]], u[2]>> \in Units(f, S)
    OBVIOUS
  <2>1. u[1] \in T /\ u[2] \in 1..f[u[1]]
    BY <1>3
  <2>2. g[u[1]] \in S
    BY <1>2, <2>1
  <2>3. f[u[1]] <= f[g[u[1]]] /\ f[u[1]] \in Nat /\ f[g[u[1]]] \in Nat
    BY <2>1, <2>2
  <2>4. u[2] \in 1..f[g[u[1]]]
    BY <2>1, <2>3
  <2>5. <<g[u[1]], u[2]>> \in {g[u[1]]} \X (1..f[g[u[1]]])
    BY <2>4
  <2> QED
    BY <2>2, <2>5 DEF Units
<1>5. \A u, v \in Units(f, T) : move[u] = move[v] => u = v
  <2> SUFFICES ASSUME NEW u \in Units(f, T), NEW v \in Units(f, T), move[u] = move[v]
               PROVE  u = v
    OBVIOUS
  <2>1. g[u[1]] = g[v[1]] /\ u[2] = v[2]
    OBVIOUS
  <2>2. u[1] = v[1]
    BY <1>2, <1>3, <2>1
  <2> QED
    BY <1>3, <2>1, <2>2
<1>6. move \in Injection(Units(f, T), Units(f, S))
  BY <1>4, <1>5, Fun_IsInj
<1>7. IsFiniteSet(Units(f, S))
  BY UnitsFinite
<1> QED
  BY <1>6, <1>7, FS_Injection DEF SumOver

\* The same for sets that overlap, and by how much the larger is larger.
LEMMA ExchangeRest ==
    ASSUME NEW S, IsFiniteSet(S), NEW T, IsFiniteSet(T),
           NEW f, \A x \in S \cup T : f[x] \in Nat,
           \A x \in S \ T, y \in T \ S : f[y] <= f[x]
    PROVE  /\ Cardinality(T) <= Cardinality(S) => SumOver(f, T) <= SumOver(f, S)
           /\ Cardinality(T) < Cardinality(S) =>
                 \E x \in S \ T : SumOver(f, T) + f[x] <= SumOver(f, S)
<1> DEFINE both == S \cap T
           more == S \ T
           less == T \ S
<1>1. /\ IsFiniteSet(both) /\ IsFiniteSet(more) /\ IsFiniteSet(less)
      /\ Cardinality(both) \in Nat /\ Cardinality(more) \in Nat /\ Cardinality(less) \in Nat
      /\ Cardinality(S) \in Nat /\ Cardinality(T) \in Nat
  BY FS_Intersection, FS_Difference, FS_CardinalityType
<1>2. /\ Cardinality(more) = Cardinality(S) - Cardinality(both)
      /\ Cardinality(less) = Cardinality(T) - Cardinality(both)
  <2>1. Cardinality(S \ T) = Cardinality(S) - Cardinality(S \cap T)
    BY FS_Difference
  <2>2. Cardinality(T \ S) = Cardinality(T) - Cardinality(T \cap S)
    BY FS_Difference
  <2>3. T \cap S = S \cap T
    OBVIOUS
  <2> QED
    BY <2>1, <2>2, <2>3
<1>3. /\ SumOver(f, both) \in Nat /\ SumOver(f, more) \in Nat /\ SumOver(f, less) \in Nat
      /\ SumOver(f, S) = SumOver(f, both) + SumOver(f, more)
      /\ SumOver(f, T) = SumOver(f, both) + SumOver(f, less)
  <2>1. S = both \cup more /\ T = both \cup less /\ both \cap more = {} /\ both \cap less = {}
    OBVIOUS
  <2>2. SumOver(f, both \cup more) = SumOver(f, both) + SumOver(f, more)
    BY <1>1, SumOfUnion
  <2>3. SumOver(f, both \cup less) = SumOver(f, both) + SumOver(f, less)
    BY <1>1, SumOfUnion
  <2>4. SumOver(f, both) \in Nat /\ SumOver(f, more) \in Nat /\ SumOver(f, less) \in Nat
    BY <1>1, UnitsFinite
  <2> QED
    BY <2>1, <2>2, <2>3, <2>4
<1>4. ASSUME Cardinality(T) <= Cardinality(S) PROVE SumOver(f, T) <= SumOver(f, S)
  <2>1. Cardinality(less) <= Cardinality(more)
    BY <1>1, <1>2, <1>4
  <2>2. SumOver(f, less) <= SumOver(f, more)
    BY <1>1, <2>1, Exchange
  <2> QED
    BY <1>3, <2>2
<1>5. ASSUME Cardinality(T) < Cardinality(S)
      PROVE  \E x \in S \ T : SumOver(f, T) + f[x] <= SumOver(f, S)
  <2>1. Cardinality(less) < Cardinality(more)
    BY <1>1, <1>2, <1>5
  <2>2. more # {}
    BY <1>1, <2>1, FS_EmptySet
  <2>3. PICK x \in more : TRUE
    BY <2>2
  <2> DEFINE rest == more \ {x}
  <2>4. IsFiniteSet(rest) /\ Cardinality(rest) = Cardinality(more) - 1
    BY <1>1, FS_RemoveElement
  <2>5. SumOver(f, less) <= SumOver(f, rest)
    <3>1. Cardinality(less) <= Cardinality(rest)
      BY <1>1, <2>1, <2>4
    <3> QED
      BY <1>1, <2>4, <3>1, Exchange
  <2>6. SumOver(f, more) = SumOver(f, rest) + f[x] /\ SumOver(f, rest) \in Nat /\ f[x] \in Nat
    <3>1. rest \in SUBSET more /\ x \in more \ rest /\ rest \cup {x} = more
      OBVIOUS
    <3>2. \A y \in more : f[y] \in Nat
      OBVIOUS
    <3> HIDE DEF more, rest
    <3>3. SumOver(f, rest \cup {x}) = SumOver(f, rest) + f[x] /\ SumOver(f, rest) \in Nat
      BY <1>1, <3>1, <3>2, SumOfPart
    <3> QED
      BY <3>1, <3>2, <3>3
  <2> QED
    BY <1>3, <2>5, <2>6
<1> QED
  BY <1>4, <1>5

\* The members of a set that f gives a value.
OfValue(S, f, value) == {x \in S : f[x] = value}

\* Two sets as large as each other have as many members of every value, if
\* where they part they part in one value.
LEMMA OneValueApart ==
    ASSUME NEW S, IsFiniteSet(S), NEW T, IsFiniteSet(T), Cardinality(S) = Cardinality(T),
           NEW f, \A x \in S \ T, y \in T \ S : f[x] = f[y], NEW v
    PROVE  Cardinality(OfValue(S, f, v)) = Cardinality(OfValue(T, f, v))
<1> DEFINE Of(Q) == {x \in Q : f[x] = v}
<1>1. ASSUME NEW A, IsFiniteSet(A), NEW B, IsFiniteSet(B)
      PROVE  /\ Cardinality(A) \in Nat /\ Cardinality(A \cap B) \in Nat
             /\ Cardinality(A \ B) \in Nat
             /\ Cardinality(A) = Cardinality(A \cap B) + Cardinality(A \ B)
  <2>1. Cardinality(A \ B) = Cardinality(A) - Cardinality(A \cap B)
    BY <1>1, FS_Difference
  <2>2. IsFiniteSet(A \cap B) /\ IsFiniteSet(A \ B)
    BY <1>1, FS_Intersection, FS_Difference
  <2> QED
    BY <1>1, <2>1, <2>2, FS_CardinalityType
<1>2. Cardinality(S \ T) = Cardinality(T \ S)
  <2>1. T \cap S = S \cap T
    OBVIOUS
  <2>2. /\ Cardinality(S) = Cardinality(S \cap T) + Cardinality(S \ T)
        /\ Cardinality(T) = Cardinality(S \cap T) + Cardinality(T \ S)
    BY <1>1, <2>1
  <2>3. /\ Cardinality(S \cap T) \in Nat /\ Cardinality(S \ T) \in Nat
        /\ Cardinality(T \ S) \in Nat
    BY <1>1
  <2> DEFINE both == Cardinality(S \cap T)
             more == Cardinality(S \ T)
             less == Cardinality(T \ S)
  <2>4. both + more = both + less /\ both \in Nat /\ more \in Nat /\ less \in Nat
    BY <2>2, <2>3
  <2> HIDE DEF both, more, less
  <2>5. more = less
    BY <2>4
  <2> QED
    BY <2>5 DEF more, less
<1>3. Cardinality(Of(S) \ Of(T)) = Cardinality(Of(T) \ Of(S))
  <2>1. (S \ T = {}) <=> (T \ S = {})
    <3>1. IsFiniteSet(S \ T) /\ IsFiniteSet(T \ S)
      BY FS_Difference
    <3> QED
      BY <1>2, <3>1, FS_EmptySet
  <2>2. Of(S) \ Of(T) = {x \in S \ T : f[x] = v} /\ Of(T) \ Of(S) = {x \in T \ S : f[x] = v}
    OBVIOUS
  <2>3. CASE \E x \in S \ T : f[x] = v
    <3>1. Of(S) \ Of(T) = S \ T /\ Of(T) \ Of(S) = T \ S
      BY <2>1, <2>2, <2>3
    <3> QED
      BY <1>2, <3>1
  <2>4. CASE ~\E x \in S \ T : f[x] = v
    <3>1. Of(S) \ Of(T) = {} /\ Of(T) \ Of(S) = {}
      BY <2>1, <2>2, <2>4
    <3> QED
      BY <3>1
  <2> QED
    BY <2>3, <2>4
<1>4. IsFiniteSet(Of(S)) /\ IsFiniteSet(Of(T)) /\ Of(T) \cap Of(S) = Of(S) \cap Of(T)
  BY FS_Subset
<1> HIDE DEF Of
<1>5. /\ Cardinality(Of(S)) = Cardinality(Of(S) \cap Of(T)) + Cardinality(Of(S) \ Of(T))
      /\ Cardinality(Of(T)) = Cardinality(Of(T) \cap Of(S)) + Cardinality(Of(T) \ Of(S))
  BY <1>1, <1>4
<1>6. Cardinality(Of(S)) = Cardinality(Of(T))
  BY <1>3, <1>4, <1>5
<1> QED
  BY <1>6 DEF Of, OfValue

\* The bytes of positions: a natural number, none for no position, and more
\* by its size when a position joins.
LEMMA BytesOf ==
    ASSUME TypeOK, NEW S \in SUBSET Positions
    PROVE  /\ IsFiniteSet(S)
           /\ Bytes({}) = 0
           /\ Bytes(S) \in Nat
           /\ \A T \in SUBSET S : Bytes(T) \in Nat /\ Bytes(T) <= Bytes(S)
           /\ \A c \in Positions \ S : Bytes(S \cup {c}) = Bytes(S) + pool[c].size_bytes
<1>1. \A c \in Positions : Sizes[c] = pool[c].size_bytes /\ Sizes[c] \in Nat
  <2> SUFFICES ASSUME NEW c \in Positions PROVE Sizes[c] = pool[c].size_bytes /\ Sizes[c] \in Nat
    OBVIOUS
  <2>1. pool[c].size_bytes \in Nat
    BY CandidateParts, SelectionAssumption
  <2> QED
    BY <2>1 DEF Sizes
<1>2. IsFiniteSet(Positions)
  <2>1. Positions = 1..Len(pool) /\ Len(pool) \in Int /\ 1 \in Int
    BY DEF TypeOK, Positions
  <2> QED
    BY <2>1, FS_Interval
<1>3. IsFiniteSet(S)
  BY <1>2, FS_Subset
<1>4. SumOver(Sizes, {}) = 0
  <2>1. Units(Sizes, {}) = {}
    BY DEF Units
  <2> QED
    BY <2>1, FS_EmptySet DEF SumOver
<1>5. \A T \in SUBSET S : SumOver(Sizes, T) \in Nat /\ SumOver(Sizes, T) <= SumOver(Sizes, S)
  BY <1>1, <1>3, SumOfPart
<1>6. \A c \in Positions \ S : SumOver(Sizes, S \cup {c}) = SumOver(Sizes, S) + Sizes[c]
  BY <1>1, <1>2, SumOfPart
<1> QED
  BY <1>1, <1>3, <1>4, <1>5, <1>6 DEF Bytes

\* The arguments fix what a set of positions weighs.
LEMMA BytesFrame ==
    ASSUME UNCHANGED arguments
    PROVE  /\ \A S : Bytes(S)' = Bytes(S)
           /\ \A c, S : NotBelow(c, S)' = NotBelow(c, S)
<1>1. pool' = pool /\ Positions' = Positions /\ Pins' = Pins
  BY Frame
<1> QED
  BY <1>1 DEF Bytes, Sizes, NotBelow

-----------------------------------------------------------------------------
(* What the bytes claimed say of what is retained *)

\* `used` is the sum of what is retained, saturated.
Counted ==
    used = IF Bytes(retained) > MaxBytes THEN MaxBytes ELSE Bytes(retained)

\* What is retained beyond the pins fits with all that goes before it.
Earned ==
    capacity < MaxBytes =>
        \A d \in retained \ Pins : Bytes(NotBelow(d, retained)) <= capacity

Accounted == Counted /\ NoTierInversion /\ Earned

\* Nothing retained, nothing claimed.
LEMMA FreshAccounted == TypeOK /\ Fresh => Accounted
<1> SUFFICES ASSUME TypeOK, used = 0, retained = {}, rejected = <<>>
             PROVE  Accounted
  BY DEF Fresh
<1>1. Rejected = {} /\ {} \in SUBSET Positions
  BY DEF Rejected
<1>2. Bytes({}) = 0
  BY <1>1, BytesOf
<1>3. Counted
  BY <1>2, SelectionAssumption DEF Counted
<1> QED
  BY <1>1, <1>3 DEF Accounted, NoTierInversion, Earned

\* A saturated sum stays one when a size is added with saturation.
LEMMA SaturatedSum ==
    ASSUME NEW bytes \in Nat, NEW size \in Nat, NEW claimed,
           claimed = IF bytes > MaxBytes THEN MaxBytes ELSE bytes
    PROVE  /\ claimed \in 0..MaxBytes
           /\ SaturatingAdd(claimed, size)
                = IF bytes + size > MaxBytes THEN MaxBytes ELSE bytes + size
  BY SelectionAssumption DEF SaturatingAdd

\* A pin adds its size, and there is nothing else yet.
LEMMA RetainPinAccounted ==
    ASSUME IInv, Accounted, NEW c \in Slots, RetainPin(c)
    PROVE  Accounted'
<1>1. /\ phase = "pins" /\ c \in todo /\ c \in Pins
      /\ retained' = retained \cup {c}
      /\ used' = SaturatingAdd(used, pool[c].size_bytes)
      /\ rejected' = rejected
      /\ UNCHANGED arguments
  BY DEF RetainPin
<1>2. rejected = <<>> /\ retained \subseteq Pins
  BY <1>1 DEF IInv, PinsFirst
<1>3. Rejected' = {} /\ Pins' = Pins
  BY <1>1, <1>2, Frame DEF Rejected
<1>4. c \in Positions \ retained /\ retained \in SUBSET Positions
  BY <1>1 DEF IInv, TypeOK, EveryCandidateOnce
<1>5. /\ Bytes(retained) \in Nat /\ pool[c].size_bytes \in Nat
      /\ Bytes(retained \cup {c}) = Bytes(retained) + pool[c].size_bytes
  BY <1>4, BytesOf, CandidateParts, SelectionAssumption DEF IInv
<1>6. used' = IF Bytes(retained \cup {c}) > MaxBytes THEN MaxBytes ELSE Bytes(retained \cup {c})
  BY <1>1, <1>5, SaturatedSum DEF Accounted, Counted
<1>7. Bytes(retained)' = Bytes(retained \cup {c})
  BY <1>1, BytesFrame DEF Bytes
<1>8. Counted'
  BY <1>6, <1>7 DEF Counted
<1> QED
  BY <1>1, <1>2, <1>3, <1>8 DEF Accounted, NoTierInversion, Earned

\* What joins fits with all that is retained; what was turned away by less is
\* turned away by more.
LEMMA RetainAccounted ==
    ASSUME IInv, Accounted, NEW c \in Slots, Retain(c)
    PROVE  Accounted'
<1>1. /\ phase = "tiers" /\ turn \in 1..3 /\ IsNext(c)
      /\ SaturatingAdd(used, pool[c].size_bytes) <= capacity
      /\ used' = SaturatingAdd(used, pool[c].size_bytes)
      /\ retained' = retained \cup {c}
      /\ rejected' = rejected
      /\ UNCHANGED arguments
  BY DEF Retain
<1> DEFINE kept == retained \cup {c}
<1>2. /\ pool' = pool /\ capacity' = capacity
      /\ Positions' = Positions /\ Pins' = Pins
  BY <1>1, Frame
<1>3. /\ \A S : Bytes(S)' = Bytes(S)
      /\ \A d, S : NotBelow(d, S)' = NotBelow(d, S)
  BY <1>1, BytesFrame
<1>4. /\ c \in Positions \ retained /\ retained \in SUBSET Positions
      /\ kept \in SUBSET Positions
      /\ Rejected \subseteq Positions
  BY <1>1, NextIs DEF IInv, TypeOK, EveryCandidateOnce
<1>5. /\ Bytes(retained) \in Nat /\ Bytes(kept) \in Nat /\ pool[c].size_bytes \in Nat
      /\ Bytes(kept) = Bytes(retained) + pool[c].size_bytes
  BY <1>4, BytesOf, CandidateParts, SelectionAssumption DEF IInv
<1>6. used' = IF Bytes(kept) > MaxBytes THEN MaxBytes ELSE Bytes(kept)
  BY <1>1, <1>5, SaturatedSum DEF Accounted, Counted
<1>7. Rejected' = Rejected /\ retained' = kept
  BY <1>1 DEF Rejected
<1>8. Counted'
  BY <1>2, <1>3, <1>6, <1>7 DEF Counted, Bytes
<1>9. NoTierInversion'
  <2> SUFFICES ASSUME NEW r \in Rejected
               PROVE  Bytes(NotBelow(r, kept)) + pool[r].size_bytes > capacity
    BY <1>2, <1>3, <1>7 DEF NoTierInversion, Bytes, NotBelow
  <2>1. Bytes(NotBelow(r, retained)) + pool[r].size_bytes > capacity
    BY DEF Accounted, NoTierInversion
  <2>2. /\ NotBelow(r, kept) \in SUBSET Positions
        /\ NotBelow(r, retained) \in SUBSET NotBelow(r, kept)
    BY <1>4 DEF NotBelow
  <2>3. /\ Bytes(NotBelow(r, retained)) <= Bytes(NotBelow(r, kept))
        /\ Bytes(NotBelow(r, retained)) \in Nat /\ Bytes(NotBelow(r, kept)) \in Nat
    BY <2>2, BytesOf DEF IInv
  <2>4. pool[r].size_bytes \in Nat /\ capacity \in Nat
    BY <1>4, CandidateParts, SelectionAssumption DEF IInv, TypeOK
  <2> QED
    BY <2>1, <2>3, <2>4
<1>10. Earned'
  <2> SUFFICES ASSUME capacity < MaxBytes, NEW d \in kept \ Pins
               PROVE  Bytes(NotBelow(d, kept)) <= capacity
    BY <1>2, <1>3, <1>7 DEF Earned, Bytes, NotBelow
  <2>1. NotBelow(d, kept) \in SUBSET kept
    BY DEF NotBelow
  <2>2. Bytes(NotBelow(d, kept)) <= Bytes(kept) /\ Bytes(NotBelow(d, kept)) \in Nat
    BY <1>4, <2>1, BytesOf DEF IInv
  <2>3. Bytes(kept) <= capacity
    BY <1>1, <1>5, <1>6, SelectionAssumption DEF IInv, TypeOK
  <2> QED
    BY <1>5, <2>2, <2>3 DEF IInv, TypeOK
<1> QED
  BY <1>8, <1>9, <1>10 DEF Accounted

\* What does not fit is turned away by the pins and by what is retained so
\* far, and that is of no lower tier.
LEMMA RejectAccounted ==
    ASSUME IInv, Accounted, NEW c \in Slots, Reject(c)
    PROVE  Accounted'
<1>1. /\ phase = "tiers" /\ turn \in 1..3 /\ IsNext(c)
      /\ SaturatingAdd(used, pool[c].size_bytes) > capacity
      /\ rejected' = Append(rejected, c)
      /\ used' = used /\ retained' = retained
      /\ UNCHANGED arguments
  BY DEF Reject
<1>2. /\ pool' = pool /\ capacity' = capacity
      /\ Positions' = Positions /\ Pins' = Pins
  BY <1>1, Frame
<1>3. /\ \A S : Bytes(S)' = Bytes(S)
      /\ \A d, S : NotBelow(d, S)' = NotBelow(d, S)
  BY <1>1, BytesFrame
<1>4. /\ c \in todo \ Pins /\ rank(pool[c].tier) = 3 - turn
      /\ c \in Positions
  BY <1>1, NextIs DEF IInv, TypeOK
<1>5. Rejected' = Rejected \cup {c}
  <2>1. rejected \in Seq(Positions)
    BY DEF IInv, TypeOK
  <2>2. /\ DOMAIN rejected = 1..Len(rejected) /\ Len(rejected) \in Nat
        /\ DOMAIN rejected' = 1..(Len(rejected) + 1)
        /\ \A i \in 1..Len(rejected) : rejected'[i] = rejected[i]
        /\ rejected'[Len(rejected) + 1] = c
    BY <1>1, <1>4, <2>1
  <2> QED
    BY <2>2 DEF Rejected
<1>6. NotBelow(c, retained) = retained
  <2> SUFFICES ASSUME NEW d \in retained \ Pins
               PROVE  rank(pool[d].tier) >= rank(pool[c].tier)
    BY DEF NotBelow
  <2>1. rank(pool[d].tier) >= 3 - turn
    BY DEF IInv, TurnOrder, Decided
  <2> QED
    BY <1>4, <2>1
<1>7. Bytes(retained) + pool[c].size_bytes > capacity
  <2>1. Bytes(retained) \in Nat /\ pool[c].size_bytes \in Nat
    BY <1>4, BytesOf, CandidateParts, SelectionAssumption DEF IInv, TypeOK
  <2>2. SaturatingAdd(used, pool[c].size_bytes)
          = IF Bytes(retained) + pool[c].size_bytes > MaxBytes
            THEN MaxBytes ELSE Bytes(retained) + pool[c].size_bytes
    BY <2>1, SaturatedSum DEF Accounted, Counted
  <2> QED
    BY <1>1, <2>1, <2>2, SelectionAssumption DEF IInv, TypeOK
<1>8. Counted'
  BY <1>1, <1>2, <1>3 DEF Accounted, Counted, Bytes
<1>9. NoTierInversion'
  <2> SUFFICES ASSUME NEW r \in Rejected \cup {c}
               PROVE  Bytes(NotBelow(r, retained)) + pool[r].size_bytes > capacity
    BY <1>1, <1>2, <1>3, <1>5 DEF NoTierInversion, Bytes, NotBelow
  <2>1. CASE r = c
    BY <1>6, <1>7, <2>1
  <2>2. CASE r \in Rejected
    BY <2>2 DEF Accounted, NoTierInversion
  <2> QED
    BY <2>1, <2>2
<1>10. Earned'
  BY <1>1, <1>2, <1>3 DEF Accounted, Earned, Bytes, NotBelow
<1> QED
  BY <1>8, <1>9, <1>10 DEF Accounted

\* Steps that decide nothing.
LEMMA IdleAccounted ==
    ASSUME Accounted, UNCHANGED arguments, used' = used, retained' = retained,
           Rejected' = Rejected
    PROVE  Accounted'
<1>1. pool' = pool /\ capacity' = capacity /\ Pins' = Pins
  BY Frame
<1>2. /\ \A S : Bytes(S)' = Bytes(S)
      /\ \A d, S : NotBelow(d, S)' = NotBelow(d, S)
  BY BytesFrame
<1>3. Counted'
  BY <1>1, <1>2 DEF Accounted, Counted, Bytes
<1>4. NoTierInversion'
  BY <1>1, <1>2 DEF Accounted, NoTierInversion, Bytes, NotBelow
<1>5. Earned'
  BY <1>1, <1>2 DEF Accounted, Earned, Bytes, NotBelow
<1> QED
  BY <1>3, <1>4, <1>5 DEF Accounted

\* One step of a call keeps the account.
LEMMA NextAccounted == IInv /\ Accounted /\ [Next]_vars => Accounted'
<1> SUFFICES ASSUME IInv, Accounted, [Next]_vars PROVE Accounted'
  OBVIOUS
<1>1. CASE \E c \in Slots : RetainPin(c) \/ Retain(c) \/ Reject(c)
  BY <1>1, RetainPinAccounted, RetainAccounted, RejectAccounted
<1>2. CASE OfferTiers
  BY <1>2, IdleAccounted DEF OfferTiers, Rejected
<1>3. CASE NextTier
  BY <1>3, IdleAccounted DEF NextTier, Rejected
<1>4. CASE Return
  <2>1. /\ UNCHANGED arguments /\ used' = used /\ retained' = retained
        /\ rejected' = Backwards(rejected)
    BY <1>4 DEF Return
  <2>2. rejected \in Seq(Positions)
    BY DEF IInv, TypeOK
  <2>3. {Backwards(rejected)[i] : i \in DOMAIN Backwards(rejected)}
          = {rejected[i] : i \in DOMAIN rejected}
    BY <2>2, BackwardsResult
  <2>4. Rejected' = {Backwards(rejected)[i] : i \in DOMAIN Backwards(rejected)}
    BY <2>1 DEF Rejected
  <2> QED
    BY <2>1, <2>3, <2>4, IdleAccounted DEF Rejected
<1>5. CASE UNCHANGED vars
  BY <1>5, IdleAccounted DEF vars, arguments, Rejected
<1> QED
  BY <1>1, <1>2, <1>3, <1>4, <1>5 DEF Next

\* The account holds throughout every call.
THEOREM AccountInvariance == Spec => []Accounted
<1>1. Init => Accounted
  BY InitFresh, FreshAccounted
<1>2. IInv /\ Accounted /\ [Next]_vars => Accounted'
  BY NextAccounted
<1> QED
  BY <1>1, <1>2, Invariance, PTL DEF Spec

\* A candidate is only turned away by pins and by candidates of its own or a
\* higher tier, whose bytes leave no room for it: profit first.
THEOREM ProfitFirst == Spec => []NoTierInversion
<1>1. Accounted => NoTierInversion
  BY DEF Accounted
<1> QED
  BY <1>1, AccountInvariance, PTL

\* If what goes before each member fits with it, so does the whole, unless it
\* is nothing but pins: the whole is what goes before a member of lowest tier.
LEMMA LowestFits ==
    ASSUME TypeOK, NEW R \in SUBSET Positions,
           \A d \in R \ Pins : Bytes(NotBelow(d, R)) <= capacity
    PROVE  Bytes(R) <= capacity \/ R \subseteq Pins
<1> SUFFICES ASSUME NEW d \in R \ Pins PROVE Bytes(R) <= capacity
  OBVIOUS
<1> DEFINE Lowest(r) == \A e \in R \ Pins : rank(pool[e].tier) >= r
<1>1. PICK low \in R \ Pins : Lowest(rank(pool[low].tier))
  <2>1. \A e \in R \ Pins : rank(pool[e].tier) \in 0..2
    BY CandidateParts, RankType
  <2>2. CASE \E e \in R \ Pins : rank(pool[e].tier) = 0
    BY <2>1, <2>2
  <2>3. CASE /\ \A e \in R \ Pins : rank(pool[e].tier) # 0
             /\ \E e \in R \ Pins : rank(pool[e].tier) = 1
    BY <2>1, <2>3
  <2>4. CASE \A e \in R \ Pins : rank(pool[e].tier) \notin {0, 1}
    BY <2>1, <2>4
  <2> QED
    BY <2>2, <2>3, <2>4
<1>2. NotBelow(low, R) = R
  BY <1>1 DEF NotBelow
<1> QED
  BY <1>2

\* Below u64::MAX what is retained, counted without overflow, stays within
\* capacity, and nothing joins pins that exceed it: saturation fails safe.
THEOREM CapacityHolds == Spec => []WithinCapacity
<1>1. IInv /\ Accounted => WithinCapacity
  BY LowestFits DEF IInv, TypeOK, Accounted, Earned, WithinCapacity
<1> QED
  BY <1>1, Invariance, AccountInvariance, PTL

-----------------------------------------------------------------------------
(* What follows *)

\* The variables of a call keep their types; `used` never overflows.
THEOREM TypeCorrect == Spec => []TypeOK
<1>1. IInv => TypeOK
  BY DEF IInv
<1> QED
  BY <1>1, Invariance, PTL

\* Every candidate ends in exactly one of retained and rejected, pins never
\* in rejected.
THEOREM NothingLost == Spec => []EveryCandidateOnce
<1>1. IInv => EveryCandidateOnce
  BY DEF IInv
<1> QED
  BY <1>1, Invariance, PTL

\* What a tier retains is an initial segment of its order.
THEOREM TiersFillInOrder == Spec => []SmallestFirst
<1>1. IInv => SmallestFirst
  BY DEF IInv
<1> QED
  BY <1>1, Invariance, PTL

\* The rejects come back in eviction order.
THEOREM RejectsInEvictionOrder == Spec => []EvictionOrder
<1>1. IInv => EvictionOrder
  BY DEF IInv
<1> QED
  BY <1>1, Invariance, PTL

\* A sum of two scores is a number well below NaN.
LEMMA RoundedType ==
    ASSUME NEW x \in 0..62
    PROVE  Rounded(x) \in 0..72
<1>1. CASE x < 4
  BY <1>1 DEF Rounded, Ulp
<1>2. CASE x >= 4 /\ x < 8
  BY <1>2 DEF Rounded, Ulp
<1>3. CASE x >= 8 /\ x < 16
  BY <1>3 DEF Rounded, Ulp
<1>4. CASE x >= 16
  BY <1>4 DEF Rounded, Ulp
<1> QED
  BY <1>1, <1>2, <1>3, <1>4

\* An incumbent that is not NaN has a contested score that is not NaN.
LEMMA AddType ==
    ASSUME NEW s \in Representable \cup {NegInf}, NEW m \in Representable
    PROVE  Add(s, m) \in Int /\ Add(s, m) # NaN
<1>1. m \in 0..31 /\ m # NaN /\ m # NegInf
  BY DEF Representable, NaN, NegInf
<1>2. CASE s = NegInf
  BY <1>1, <1>2 DEF Add, NaN, NegInf
<1>3. CASE s \in Representable
  <2>1. s \in 0..31 /\ s # NaN /\ s # NegInf
    BY <1>3 DEF Representable, NaN, NegInf
  <2>2. s + m \in 0..62
    BY <1>1, <2>1
  <2>3. Add(s, m) = Rounded(s + m)
    BY <1>1, <2>1 DEF Add
  <2> QED
    BY <2>2, <2>3, RoundedType DEF NaN
<1> QED
  BY <1>2, <1>3

\* In any state of a call, between an incumbent and a challenger of its size and
\* tier, what is decided is decided as may_displace does.
LEMMA MarginDecides == IInv => AgreesWithMayDisplace
<1> SUFFICES ASSUME IInv,
                    NEW i \in Positions, NEW c \in Positions, Contest(i, c),
                    NaN \notin {pool[i].score, pool[c].score}
             PROVE  /\ Displaced(i, c) => MayDisplace(i, c)
                    /\ Displaced(c, i) => ~MayDisplace(i, c)
  BY DEF AgreesWithMayDisplace
<1> DEFINE stake == Add(pool[i].score, margin)
<1>1. /\ pool[i].tier = pool[c].tier
      /\ pool[i].size_bytes = pool[c].size_bytes
      /\ pool[i].resident /\ ~pool[c].resident
      /\ i \notin Pins /\ c \notin Pins
  BY DEF Contest
<1>2. contested_score(i) = stake /\ contested_score(c) = pool[c].score
  BY <1>1 DEF contested_score
<1>3. pool[i].score \in Representable \cup {NegInf} /\ margin \in Representable
  BY CandidateParts DEF IInv, TypeOK, Score
<1>4. stake \in Int /\ stake # NaN
  <2>1. Add(pool[i].score, margin) \in Int /\ Add(pool[i].score, margin) # NaN
    BY <1>3, AddType
  <2> QED
    BY <2>1
<1>5. pool[c].score \in Int /\ pool[c].score # NaN
  <2>1. Representable \subseteq Int /\ NegInf \in Int
    BY DEF Representable, NegInf
  <2>2. pool[c].score \in Representable \cup {NegInf} /\ pool[c].score # NaN
    BY CandidateParts DEF IInv, Score
  <2> QED
    BY <2>1, <2>2
<1>6. MayDisplace(i, c) <=> pool[c].score > stake
  BY <1>4, <1>5, ZenonT(40) DEF MayDisplace, may_displace, should_displace, Exceeds
<1>7. ~(pool[i].size_bytes < pool[c].size_bytes) /\ ~(pool[c].size_bytes < pool[i].size_bytes)
  <2>1. pool[i].size_bytes \in 0..MaxBytes
    BY CandidateParts DEF IInv
  <2> QED
    BY <1>1, <2>1
<1>8. Displaced(i, c) => MayDisplace(i, c)
  <2> SUFFICES ASSUME Displaced(i, c) PROVE MayDisplace(i, c)
    OBVIOUS
  <2>1. Ahead(c, i)
    BY <1>1 DEF IInv, SmallestFirst, Displaced
  <2>2. pool[c].score > stake
    BY <1>1, <1>2, <1>7, <2>1, ZenonT(40) DEF Ahead
  <2> QED
    BY <1>6, <2>2
<1>9. Displaced(c, i) => ~MayDisplace(i, c)
  <2> SUFFICES ASSUME Displaced(c, i) PROVE ~MayDisplace(i, c)
    OBVIOUS
  <2>1. Ahead(i, c)
    BY <1>1 DEF IInv, SmallestFirst, Displaced
  <2>2. stake > pool[c].score \/ stake = pool[c].score
    BY <1>1, <1>2, <1>7, <2>1, ZenonT(40) DEF Ahead
  <2>3. ~(pool[c].score > stake)
    BY <1>4, <1>5, <2>2
  <2> QED
    BY <1>6, <2>3
<1> QED
  BY <1>8, <1>9

\* Between an incumbent and a challenger of its size and tier the selection
\* decides as may_displace does: the margin is on for every call.
THEOREM MarginHolds == Spec => []AgreesWithMayDisplace
  BY MarginDecides, Invariance, PTL

-----------------------------------------------------------------------------
(* What a call retains is determined by what it is offered *)

\* What the invariants say, at its end, of the set R a call retains: the pins
\* and an initial segment of each tier, as much as fits after what goes before.
Outcome(R) ==
    /\ Pins \subseteq R /\ R \subseteq Positions
    /\ \A c \in Positions \ R, d \in R \ Pins :
          pool[c].tier = pool[d].tier => Ahead(d, c)
    /\ \A c \in Positions \ R : Bytes(NotBelow(c, R)) + pool[c].size_bytes > capacity
    /\ capacity < MaxBytes =>
          \A d \in R \ Pins : Bytes(NotBelow(d, R)) <= capacity
    /\ capacity = MaxBytes => R = Positions

\* What the walk retains when nothing is left to decide is the outcome.
LEMMA DecidedOutcome ==
    ASSUME IInv, Accounted, phase # "pins", todo = {}
    PROVE  Outcome(retained) /\ Rejected = Positions \ retained
<1>1. Rejected = Positions \ retained /\ retained \subseteq Positions
  BY DEF IInv, EveryCandidateOnce
<1>2. Pins \subseteq retained
  BY DEF IInv, PinsFirst
<1>3. ASSUME capacity = MaxBytes, NEW c \in Rejected PROVE FALSE
  <2>1. used \in 0..MaxBytes /\ pool[c].size_bytes \in 0..MaxBytes
    BY <1>1, CandidateParts DEF IInv, TypeOK
  <2>2. SaturatingAdd(used, pool[c].size_bytes) \in 0..MaxBytes
    BY <2>1, SaturatingAddBounds
  <2>3. SaturatingAdd(used, pool[c].size_bytes) > capacity
    BY DEF IInv, Full
  <2> QED
    BY <1>3, <2>2, <2>3, SelectionAssumption
<1>4. capacity = MaxBytes => retained = Positions
  BY <1>1, <1>3
<1>5. \A c \in Positions \ retained, d \in retained \ Pins :
         pool[c].tier = pool[d].tier => Ahead(d, c)
  BY <1>1 DEF IInv, SmallestFirst
<1>6. \A c \in Positions \ retained :
         Bytes(NotBelow(c, retained)) + pool[c].size_bytes > capacity
  BY <1>1 DEF Accounted, NoTierInversion
<1> QED
  BY <1>1, <1>2, <1>4, <1>5, <1>6 DEF Outcome, Accounted, Earned

\* What a finished call returns is the outcome.
LEMMA DoneOutcome ==
    ASSUME IInv, Accounted, phase = "done"
    PROVE  Outcome(retained) /\ Rejected = Positions \ retained
<1>1. todo = {}
  BY DEF IInv, EveryCandidateOnce
<1> QED
  BY <1>1, DecidedOutcome

\* Rounding never takes a sum below a score it is not below.
LEMMA RoundedAtLeast ==
    ASSUME NEW s \in Representable, NEW x \in 0..62, s <= x
    PROVE  s <= Rounded(x)
<1>1. s \in 0..31 /\ s % Ulp(s) = 0
  BY DEF Representable
<1>2. CASE x < 4
  BY <1>1, <1>2 DEF Rounded, Ulp
<1>3. CASE x >= 4 /\ x < 8
  <2>1. s <= 4 \/ s = 6
    BY <1>1, <1>3 DEF Ulp
  <2>2. Rounded(x) >= 4 /\ (x >= 6 => Rounded(x) >= 6)
    BY <1>3 DEF Rounded, Ulp
  <2>3. Rounded(x) \in Int
    BY RoundedType
  <2> QED
    BY <1>1, <2>1, <2>2, <2>3
<1>4. CASE x >= 8 /\ x < 16
  BY <1>1, <1>4 DEF Rounded, Ulp
<1>5. CASE x >= 16
  BY <1>1, <1>5 DEF Rounded, Ulp
<1> QED
  BY <1>2, <1>3, <1>4, <1>5

\* A margin never lowers a score.
LEMMA AddGrows ==
    ASSUME NEW s \in Score, NEW m \in Representable
    PROVE  s \in Int /\ Add(s, m) \in Int /\ s <= Add(s, m)
<1>1. m \in 0..31 /\ m # NaN /\ m # NegInf
  BY DEF Representable, NaN, NegInf
<1>2. CASE s = NegInf
  BY <1>1, <1>2 DEF Add, NaN, NegInf
<1>3. CASE s = NaN
  BY <1>1, <1>3 DEF Add, NaN, NegInf
<1>4. CASE s \in Representable
  <2>1. s \in 0..31 /\ s # NaN /\ s # NegInf
    BY <1>4 DEF Representable, NaN, NegInf
  <2>2. s + m \in 0..62 /\ s <= s + m
    BY <1>1, <2>1
  <2>3. Add(s, m) = Rounded(s + m)
    BY <1>1, <2>1 DEF Add
  <2>4. Rounded(s + m) \in 0..72 /\ s <= Rounded(s + m)
    BY <1>4, <2>2, RoundedType, RoundedAtLeast
  <2> QED
    BY <2>1, <2>3, <2>4
<1> QED
  BY <1>2, <1>3, <1>4 DEF Score

\* Rounding keeps the order of sums.
LEMMA RoundedMonotone ==
    ASSUME NEW x \in 0..62, NEW y \in 0..62, x <= y
    PROVE  Rounded(x) <= Rounded(y)
<1> DEFINE Band(z) == CASE z < 4              -> {0, 1, 2, 3}
                        [] z >= 4 /\ z < 8    -> {4, 6, 8}
                        [] z >= 8 /\ z < 16   -> {8, 12, 16}
                        [] z >= 16            -> 16..72
<1>1. ASSUME NEW z \in 0..62 PROVE Rounded(z) \in Band(z)
  <2>1. CASE z < 4
    BY <2>1 DEF Rounded, Ulp
  <2>2. CASE z >= 4 /\ z < 8
    BY <2>2 DEF Rounded, Ulp
  <2>3. CASE z >= 8 /\ z < 16
    BY <2>3 DEF Rounded, Ulp
  <2>4. CASE z >= 16
    BY <2>4 DEF Rounded, Ulp
  <2> QED
    BY <2>1, <2>2, <2>3, <2>4
<1>2. CASE y < 4
  <2>1. Ulp(x) = 1 /\ Ulp(y) = 1
    BY <1>2 DEF Ulp
  <2> QED
    BY <2>1 DEF Rounded
<1>3. CASE x >= 4 /\ y < 8
  <2>1. Ulp(x) = 2 /\ Ulp(y) = 2
    BY <1>3 DEF Ulp
  <2> QED
    BY <2>1 DEF Rounded
<1>4. CASE x >= 8 /\ y < 16
  <2>1. Ulp(x) = 4 /\ Ulp(y) = 4
    BY <1>4 DEF Ulp
  <2> QED
    BY <2>1 DEF Rounded
<1>5. CASE x >= 16
  <2>1. Ulp(x) = 8 /\ Ulp(y) = 8
    BY <1>5 DEF Ulp
  <2> QED
    BY <2>1 DEF Rounded
<1>6. CASE \/ x < 4 /\ y >= 4
           \/ x < 8 /\ y >= 8
           \/ x < 16 /\ y >= 16
  <2>1. Rounded(x) \in Band(x) /\ Rounded(y) \in Band(y)
    BY <1>1
  <2> QED
    BY <1>6, <2>1
<1> QED
  BY <1>2, <1>3, <1>4, <1>5, <1>6

\* A margin may make two scores the same; it never turns their order round.
LEMMA AddMonotone ==
    ASSUME NEW s \in Score, NEW t \in Score, NEW m \in Representable, s <= t
    PROVE  Add(s, m) <= Add(t, m)
<1>1. m \in 0..31 /\ m # NaN /\ m # NegInf
  BY DEF Representable, NaN, NegInf
<1>2. Add(NegInf, m) = -1000 /\ Add(NaN, m) = 1000
  BY <1>1 DEF Add, NaN, NegInf
<1>3. ASSUME NEW q \in Representable
      PROVE  q \in 0..31 /\ q + m \in 0..62 /\ Add(q, m) = Rounded(q + m)
             /\ Add(q, m) \in 0..72
  <2>1. q \in 0..31 /\ q # NaN /\ q # NegInf
    BY DEF Representable, NaN, NegInf
  <2>2. q + m \in 0..62 /\ Add(q, m) = Rounded(q + m)
    BY <1>1, <2>1 DEF Add
  <2> QED
    BY <2>1, <2>2, RoundedType
<1>4. CASE s \in Representable /\ t \in Representable
  <2>1. s + m \in 0..62 /\ t + m \in 0..62 /\ s + m <= t + m
    BY <1>1, <1>3, <1>4
  <2> QED
    BY <1>3, <1>4, <2>1, RoundedMonotone
<1>5. CASE s = NegInf
  <2>1. Add(t, m) \in Int /\ Add(t, m) >= -1000
    <3>1. CASE t \in Representable
      BY <1>3, <3>1
    <3> QED
      BY <1>2, <3>1 DEF Score
  <2> QED
    BY <1>2, <1>5, <2>1
<1>6. CASE t = NaN
  <2>1. Add(s, m) \in Int /\ Add(s, m) <= 1000
    <3>1. CASE s \in Representable
      BY <1>3, <3>1
    <3> QED
      BY <1>2, <3>1 DEF Score
  <2> QED
    BY <1>2, <1>6, <2>1
<1>7. CASE s = NaN /\ t # NaN
  <2>1. t \in 0..31 \/ t = -1000
    BY <1>3, <1>7 DEF Score, NegInf
  <2> QED
    BY <1>7, <2>1 DEF NaN
<1>8. CASE s \in Representable /\ t = NegInf
  BY <1>3, <1>8 DEF NegInf
<1> QED
  BY <1>4, <1>5, <1>6, <1>7, <1>8 DEF Score

\* The contest is decided between the score and the score with the margin.
LEMMA ContestedBounds ==
    ASSUME TypeOK, NEW c \in Positions
    PROVE  /\ pool[c].score \in Int /\ contested_score(c) \in Int
           /\ Add(pool[c].score, margin) \in Int
           /\ pool[c].score <= contested_score(c)
           /\ contested_score(c) <= Add(pool[c].score, margin)
<1>1. pool[c].score \in Score /\ margin \in Representable
  BY CandidateParts DEF TypeOK
<1>2. /\ pool[c].score \in Int /\ Add(pool[c].score, margin) \in Int
      /\ pool[c].score <= Add(pool[c].score, margin)
  BY <1>1, AddGrows
<1> QED
  BY <1>2 DEF contested_score

\* Of two candidates at most one is ahead of the other.
LEMMA AheadAsymmetric ==
    ASSUME TypeOK, NEW c \in Positions, NEW d \in Positions, Ahead(c, d), Ahead(d, c)
    PROVE  FALSE
<1>1. contested_score(c) \in Int /\ contested_score(d) \in Int
  BY ContestedBounds
<1>2. /\ pool[c].size_bytes \in Int /\ pool[d].size_bytes \in Int
  BY CandidateParts
<1>3. shuffle[c] \in Int /\ shuffle[d] \in Int
  <2>1. Positions = 1..Len(pool) /\ Len(pool) \in Nat /\ Len(pool) <= MaxPool /\ MaxPool \in Nat
    BY SelectionAssumption DEF TypeOK, Positions
  <2>2. c \in Slots /\ d \in Slots
    BY <2>1 DEF Slots
  <2> QED
    BY <2>2 DEF TypeOK, Slots
<1> DEFINE a == contested_score(c)
           b == contested_score(d)
<1>4. a \in Int /\ b \in Int
  BY <1>1
<1>5. \/ pool[c].size_bytes < pool[d].size_bytes
      \/ /\ pool[c].size_bytes = pool[d].size_bytes
         /\ a > b
      \/ /\ pool[c].size_bytes = pool[d].size_bytes
         /\ a = b
         /\ \/ pool[c].resident /\ ~pool[d].resident
            \/ pool[c].resident = pool[d].resident /\ shuffle[c] < shuffle[d]
  BY DEF Ahead
<1>6. \/ pool[d].size_bytes < pool[c].size_bytes
      \/ /\ pool[d].size_bytes = pool[c].size_bytes
         /\ b > a
      \/ /\ pool[d].size_bytes = pool[c].size_bytes
         /\ b = a
         /\ \/ pool[d].resident /\ ~pool[c].resident
            \/ pool[d].resident = pool[c].resident /\ shuffle[d] < shuffle[c]
  BY DEF Ahead
<1> HIDE DEF a, b
<1>7. pool[c].size_bytes = pool[d].size_bytes
  BY <1>2, <1>5, <1>6
<1>8. ~(pool[c].size_bytes < pool[d].size_bytes) /\ ~(pool[d].size_bytes < pool[c].size_bytes)
  BY <1>2, <1>7
<1>9. a = b /\ ~(a > b) /\ ~(b > a)
  BY <1>4, <1>5, <1>6, <1>8
<1>10. ~(shuffle[c] < shuffle[d] /\ shuffle[d] < shuffle[c])
  BY <1>3
<1> QED
  BY <1>5, <1>6, <1>8, <1>9, <1>10, Zenon

\* Two outcomes that agree above a tier agree in it: what one retains and the
\* other turns away would both fit and not fit.
LEMMA OutcomeTier ==
    ASSUME TypeOK, NEW R, NEW Q, Outcome(R), Outcome(Q), NEW x \in R \ Q,
           \A c \in Positions : rank(pool[c].tier) > rank(pool[x].tier) => (c \in R <=> c \in Q)
    PROVE  FALSE
<1>1. x \in Positions /\ x \notin Pins /\ x \in R \ Pins
  BY DEF Outcome
<1>2. capacity \in Nat /\ capacity < MaxBytes
  <2>1. capacity \in 0..MaxBytes /\ capacity # MaxBytes
    BY <1>1 DEF Outcome, TypeOK
  <2> QED
    BY <2>1, SelectionAssumption
<1>3. NotBelow(x, Q) \subseteq NotBelow(x, R)
  <2> SUFFICES ASSUME NEW y \in Q, y \notin Pins, rank(pool[y].tier) >= rank(pool[x].tier)
               PROVE  y \in R
    BY DEF NotBelow, Outcome
  <2>1. y \in Positions
    BY DEF Outcome
  <2>2. /\ pool[x].tier \in CacheTier /\ pool[y].tier \in CacheTier
        /\ rank(pool[x].tier) \in 0..2 /\ rank(pool[y].tier) \in 0..2
    BY <1>1, <2>1, CandidateParts, RankType
  <2>3. CASE rank(pool[y].tier) > rank(pool[x].tier)
    BY <2>1, <2>3
  <2>4. CASE rank(pool[y].tier) = rank(pool[x].tier)
    <3>1. pool[x].tier = pool[y].tier
      BY <2>2, <2>4, RankType
    <3>2. Ahead(y, x)
      BY <1>1, <3>1 DEF Outcome
    <3>3. y \notin R => Ahead(x, y)
      BY <1>1, <2>1, <3>1 DEF Outcome
    <3> QED
      BY <1>1, <2>1, <3>2, <3>3, AheadAsymmetric
  <2> QED
    BY <2>2, <2>3, <2>4
<1>4. /\ NotBelow(x, R) \in SUBSET Positions
      /\ NotBelow(x, Q) \in SUBSET NotBelow(x, R)
      /\ NotBelow(x, Q) \cup {x} \in SUBSET NotBelow(x, R)
      /\ x \in NotBelow(x, R) \ NotBelow(x, Q)
  <2>1. rank(pool[x].tier) \in 0..2
    BY <1>1, CandidateParts, RankType
  <2>2. x \in NotBelow(x, R)
    BY <2>1 DEF NotBelow
  <2> QED
    BY <1>3, <2>2 DEF NotBelow, Outcome
<1>5. /\ Bytes(NotBelow(x, Q) \cup {x}) = Bytes(NotBelow(x, Q)) + pool[x].size_bytes
      /\ Bytes(NotBelow(x, Q) \cup {x}) <= Bytes(NotBelow(x, R))
      /\ Bytes(NotBelow(x, Q)) \in Nat /\ Bytes(NotBelow(x, R)) \in Nat
  <2>1. NotBelow(x, Q) \in SUBSET Positions /\ x \in Positions \ NotBelow(x, Q)
    BY <1>1, <1>4
  <2> QED
    BY <1>4, <2>1, BytesOf
<1>6. Bytes(NotBelow(x, Q)) + pool[x].size_bytes > capacity
  BY <1>1 DEF Outcome
<1>7. Bytes(NotBelow(x, R)) <= capacity
  BY <1>1, <1>2 DEF Outcome
<1>8. pool[x].size_bytes \in Nat
  BY <1>1, CandidateParts, SelectionAssumption
<1> QED
  BY <1>2, <1>5, <1>6, <1>7, <1>8

\* A slice has one outcome.
LEMMA OutcomeUnique ==
    ASSUME TypeOK, NEW R, NEW Q, Outcome(R), Outcome(Q)
    PROVE  R = Q
<1> DEFINE Agree(r) == \A c \in Positions : rank(pool[c].tier) = r => (c \in R <=> c \in Q)
<1>1. \A c \in Positions : rank(pool[c].tier) \in 0..2
  BY CandidateParts, RankType
<1>2. R \subseteq Positions /\ Q \subseteq Positions
  BY DEF Outcome
<1>3. Agree(2)
  <2> SUFFICES ASSUME NEW c \in Positions, rank(pool[c].tier) = 2
               PROVE  c \in R <=> c \in Q
    OBVIOUS
  <2>1. \A d \in Positions : ~(rank(pool[d].tier) > rank(pool[c].tier))
    BY <1>1
  <2> QED
    BY <2>1, OutcomeTier
<1>4. Agree(1)
  <2> SUFFICES ASSUME NEW c \in Positions, rank(pool[c].tier) = 1
               PROVE  c \in R <=> c \in Q
    OBVIOUS
  <2>1. \A d \in Positions : rank(pool[d].tier) > rank(pool[c].tier) => (d \in R <=> d \in Q)
    BY <1>1, <1>3
  <2> QED
    BY <2>1, OutcomeTier
<1>5. Agree(0)
  <2> SUFFICES ASSUME NEW c \in Positions, rank(pool[c].tier) = 0
               PROVE  c \in R <=> c \in Q
    OBVIOUS
  <2>1. \A d \in Positions : rank(pool[d].tier) > rank(pool[c].tier) => (d \in R <=> d \in Q)
    BY <1>1, <1>3, <1>4
  <2> QED
    BY <2>1, OutcomeTier
<1>6. \A c \in Positions : c \in R <=> c \in Q
  BY <1>1, <1>3, <1>4, <1>5
<1> QED
  BY <1>2, <1>6

-----------------------------------------------------------------------------
(* Repeated passes *)

\* What the previous pass retained is what is resident now, and as long as no
\* fact has changed it is the outcome of the present pass as well.
Settled ==
    \A before \in last :
        /\ Pins \subseteq before /\ before \subseteq Positions
        /\ \A c \in Positions : pool[c].resident <=> c \in before
        /\ ~drifted => Outcome(before)

RoundsInv == IInv /\ Accounted /\ Settled

\* A call that starts satisfies both invariants.
LEMMA FreshInvariant == TypeOK /\ Fresh => IInv /\ Accounted
  BY FreshIInv, FreshAccounted

\* A call leaves its arguments alone, and with them what its outcome can be.
LEMMA OutcomeFrame ==
    ASSUME [Next]_vars
    PROVE  /\ UNCHANGED arguments
           /\ \A R : Outcome(R)' <=> Outcome(R)
<1>1. UNCHANGED arguments
  BY DEF Next, vars, arguments, RetainPin, OfferTiers, Retain, Reject, NextTier, Return
<1>2. /\ pool' = pool /\ capacity' = capacity /\ Positions' = Positions /\ Pins' = Pins
      /\ \A c, d : Ahead(c, d)' <=> Ahead(c, d)
  BY <1>1, Frame
<1>3. /\ \A S : Bytes(S)' = Bytes(S)
      /\ \A c, S : NotBelow(c, S)' = NotBelow(c, S)
  BY <1>1, BytesFrame
<1>4. \A R, c : Bytes(NotBelow(c, R))' = Bytes(NotBelow(c, R))
  BY <1>2, <1>3 DEF Bytes
<1> QED
  BY <1>1, <1>2, <1>4 DEF Outcome

\* A slice offered again, with other residents and perhaps another score.
Reoffered(slice) ==
    /\ slice \in Seq(SelectionCandidate)
    /\ DOMAIN slice = Positions
    /\ \A c \in Positions :
          /\ slice[c].tier = pool[c].tier
          /\ slice[c].size_bytes = pool[c].size_bytes
          /\ slice[c].pinned = pool[c].pinned
          /\ slice[c].resident <=> c \in retained

\* What was retained is offered again as the resident.
LEMMA ReseatedIs ==
    ASSUME TypeOK
    PROVE  /\ Reoffered(Reseated)
           /\ \A c \in Positions : Reseated[c].score = pool[c].score
<1>1. /\ Positions = 1..Len(pool) /\ Len(pool) \in Nat
      /\ \A c \in Positions : pool[c] \in SelectionCandidate
  BY DEF TypeOK, Positions
<1>2. /\ Reseated = [c \in Positions |-> [pool[c] EXCEPT !.resident = c \in retained]]
      /\ \A c \in Positions : Reseated[c] = [pool[c] EXCEPT !.resident = c \in retained]
  BY DEF Reseated
<1>3. ASSUME NEW c \in Positions
      PROVE  /\ [pool[c] EXCEPT !.resident = c \in retained] \in SelectionCandidate
             /\ Reseated[c].tier = pool[c].tier
             /\ Reseated[c].size_bytes = pool[c].size_bytes
             /\ Reseated[c].pinned = pool[c].pinned
             /\ Reseated[c].score = pool[c].score
             /\ Reseated[c].resident = (c \in retained)
  <2>1. pool[c] \in SelectionCandidate
    BY <1>1
  <2>2. \A r \in BOOLEAN : [pool[c] EXCEPT !.resident = r] \in SelectionCandidate
    BY <2>1 DEF SelectionCandidate
  <2>3. (c \in retained) \in BOOLEAN
    OBVIOUS
  <2>4. [pool[c] EXCEPT !.resident = c \in retained] \in SelectionCandidate
    BY <2>2, <2>3, Zenon
  <2> QED
    BY <1>2, <2>1, <2>4 DEF SelectionCandidate
<1>4. Reseated \in [1..Len(pool) -> SelectionCandidate]
  BY <1>1, <1>2, <1>3
<1>5. Reseated \in Seq(SelectionCandidate)
  BY <1>1, <1>4
<1> QED
  BY <1>2, <1>3, <1>5 DEF Reoffered

\* One score may have drifted meanwhile.
LEMMA DriftedIs ==
    ASSUME TypeOK, NEW c \in Positions, NEW score \in DriftScores
    PROVE  Reoffered([Reseated EXCEPT ![c].score = score])
<1> DEFINE slice == [Reseated EXCEPT ![c].score = score]
<1>1. Reoffered(Reseated)
  BY ReseatedIs
<1>2. score \in Score
  BY RoundsAssumption
<1>3. /\ Positions = 1..Len(Reseated) /\ Len(Reseated) \in Nat
      /\ Reseated \in [1..Len(Reseated) -> SelectionCandidate]
  BY <1>1 DEF Reoffered
<1>4. [Reseated[c] EXCEPT !.score = score] \in SelectionCandidate
  BY <1>2, <1>3 DEF SelectionCandidate
<1>5. slice \in [1..Len(Reseated) -> SelectionCandidate]
  BY <1>3, <1>4
<1>6. slice \in Seq(SelectionCandidate) /\ DOMAIN slice = Positions
  BY <1>3, <1>5
<1>7. \A d \in Positions :
         /\ slice[d].tier = Reseated[d].tier
         /\ slice[d].size_bytes = Reseated[d].size_bytes
         /\ slice[d].pinned = Reseated[d].pinned
         /\ slice[d].resident = Reseated[d].resident
  BY <1>3 DEF SelectionCandidate
<1> QED
  BY <1>1, <1>6, <1>7 DEF Reoffered

\* The next pass starts as a call does, over the same sizes, tiers and pins.
LEMMA ReselectStarts ==
    ASSUME IInv, Accounted, NEW slice, Reoffered(slice),
           NEW order \in Shuffles, Reselect(slice, order)
    PROVE  /\ TypeOK' /\ Fresh'
           /\ Positions' = Positions /\ Pins' = Pins
           /\ \A S : Bytes(S)' = Bytes(S)
           /\ \A c \in Positions, S \in SUBSET Positions : NotBelow(c, S)' = NotBelow(c, S)
<1>1. /\ phase = "done" /\ pool' = slice /\ shuffle' = order /\ phase' = "pins"
      /\ turn' = 1 /\ todo' = DOMAIN slice /\ used' = 0 /\ retained' = {}
      /\ rejected' = <<>> /\ capacity' = capacity /\ margin' = margin
  BY DEF Reselect
<1>2. slice \in Seq(SelectionCandidate) /\ DOMAIN slice = Positions
  BY DEF Reoffered
<1>3. Positions' = Positions
  BY <1>1, <1>2 DEF Positions
<1>4. Len(slice) <= MaxPool
  <2>1. DOMAIN slice = 1..Len(slice) /\ DOMAIN pool = 1..Len(pool)
        /\ Len(slice) \in Nat /\ Len(pool) \in Nat /\ Len(pool) <= MaxPool
    BY <1>2 DEF IInv, TypeOK
  <2>2. 1..Len(slice) = 1..Len(pool)
    BY <1>2, <2>1 DEF Positions
  <2>3. ~(Len(slice) > Len(pool))
    <3>1. Len(slice) > Len(pool) => Len(slice) \in 1..Len(slice) /\ Len(slice) \notin 1..Len(pool)
      BY <2>1
    <3> QED
      BY <2>2, <3>1
  <2> QED
    BY <2>1, <2>3, SelectionAssumption
<1>5. TypeOK'
  <2>1. order \in [Slots -> Slots] /\ 0 \in 0..MaxBytes
    BY SelectionAssumption
  <2>2. <<>> \in Seq(Positions)
    OBVIOUS
  <2> QED
    BY <1>1, <1>2, <1>3, <1>4, <2>1, <2>2 DEF IInv, TypeOK
<1>6. Fresh'
  BY <1>1, <1>2, <1>3 DEF Fresh
<1>7. Pins' = Pins
  BY <1>1, <1>3 DEF Pins, Reoffered
<1>8. Sizes' = Sizes
  BY <1>1, <1>3 DEF Sizes, Reoffered
<1>9. \A S : Bytes(S)' = Bytes(S)
  BY <1>8 DEF Bytes
<1>10. \A c \in Positions, S \in SUBSET Positions : NotBelow(c, S)' = NotBelow(c, S)
  BY <1>1, <1>7 DEF NotBelow, Reoffered
<1> QED
  BY <1>3, <1>5, <1>6, <1>7, <1>9, <1>10

\* Over the same facts what a pass retained is the next pass's outcome too: a
\* retained candidate is as far ahead as before or further, its margin on.
LEMMA OutcomeStays ==
    ASSUME IInv, Accounted, NEW order \in Shuffles, SamePool(order),
           NEW R, R = retained
    PROVE  Outcome(R)'
<1>1. /\ Reselect(Reseated, order) /\ phase = "done"
      /\ pool' = Reseated /\ shuffle' = order /\ capacity' = capacity /\ margin' = margin
  BY DEF SamePool, Reselect
<1>2. /\ Reoffered(Reseated)
      /\ \A c \in Positions : Reseated[c].score = pool[c].score
  BY ReseatedIs DEF IInv
<1>3. /\ Positions' = Positions /\ Pins' = Pins
      /\ \A S : Bytes(S)' = Bytes(S)
      /\ \A c \in Positions, S \in SUBSET Positions : NotBelow(c, S)' = NotBelow(c, S)
  BY <1>1, <1>2, ReselectStarts
<1>4. Outcome(R)
  BY <1>1, DoneOutcome
<1>5. ASSUME NEW c \in Positions \ R, NEW d \in R \ Pins, pool[c].tier = pool[d].tier
      PROVE  Ahead(d, c)'
  <2>1. Ahead(d, c) /\ c \in Positions /\ d \in Positions
    BY <1>4, <1>5 DEF Outcome
  <2>2. /\ pool'[d].size_bytes = pool[d].size_bytes /\ pool'[d].score = pool[d].score
        /\ pool'[c].size_bytes = pool[c].size_bytes /\ pool'[c].score = pool[c].score
        /\ pool'[d].resident /\ ~pool'[c].resident
    BY <1>1, <1>2, <2>1 DEF Reoffered
  <2>3. /\ contested_score(d)' = Add(pool[d].score, margin)
        /\ contested_score(c)' = pool[c].score
    BY <1>1, <2>2 DEF contested_score
  <2>4. /\ pool[c].score \in Int /\ contested_score(c) \in Int
        /\ contested_score(d) \in Int /\ Add(pool[d].score, margin) \in Int
        /\ pool[c].score <= contested_score(c)
        /\ contested_score(d) <= Add(pool[d].score, margin)
    BY <2>1, ContestedBounds DEF IInv
  <2>5. \/ pool[d].size_bytes < pool[c].size_bytes
        \/ /\ pool[d].size_bytes = pool[c].size_bytes
           /\ \/ contested_score(d) > contested_score(c)
              \/ contested_score(d) = contested_score(c)
    BY <2>1 DEF Ahead
  <2>6. CASE pool[d].size_bytes < pool[c].size_bytes
    BY <2>2, <2>6 DEF Ahead
  <2>7. CASE /\ pool[d].size_bytes = pool[c].size_bytes
             /\ \/ contested_score(d) > contested_score(c)
                \/ contested_score(d) = contested_score(c)
    <3>1. \/ Add(pool[d].score, margin) > pool[c].score
          \/ Add(pool[d].score, margin) = pool[c].score
      BY <2>4, <2>7
    <3>2. \/ contested_score(d)' > contested_score(c)'
          \/ contested_score(d)' = contested_score(c)'
      BY <2>3, <3>1
    <3> QED
      BY <2>2, <2>7, <3>2 DEF Ahead
  <2> QED
    BY <2>5, <2>6, <2>7
<1>6. \A c \in Positions : /\ pool'[c].tier = pool[c].tier
                           /\ pool'[c].size_bytes = pool[c].size_bytes
  BY <1>1, <1>2 DEF Reoffered
<1>7. R \in SUBSET Positions /\ Pins \subseteq R
  BY <1>4 DEF Outcome
<1>8. \A c \in Positions : Bytes(NotBelow(c, R))' = Bytes(NotBelow(c, R))
  BY <1>3, <1>7 DEF Bytes
<1>9. \A c \in Positions \ R, d \in R \ Pins : pool'[c].tier = pool'[d].tier => Ahead(d, c)'
  BY <1>5, <1>6, <1>7
<1>10. \A c \in Positions \ R :
          Bytes(NotBelow(c, R))' + pool'[c].size_bytes > capacity
  BY <1>4, <1>6, <1>8 DEF Outcome
<1>11. /\ capacity < MaxBytes => \A d \in R \ Pins : Bytes(NotBelow(d, R))' <= capacity
       /\ capacity = MaxBytes => R = Positions
  BY <1>4, <1>7, <1>8 DEF Outcome
<1> QED
  BY <1>1, <1>3, <1>7, <1>9, <1>10, <1>11 DEF Outcome

\* One step of a node that selects again and again.
LEMMA RoundsStep == RoundsInv /\ [RoundsNext]_<<vars, roundVars>> => RoundsInv'
<1> SUFFICES ASSUME RoundsInv, [RoundsNext]_<<vars, roundVars>> PROVE RoundsInv'
  OBVIOUS
<1>1. CASE [Next]_vars /\ UNCHANGED roundVars
  <2>1. IInv' /\ Accounted'
    BY <1>1, NextIInv, NextAccounted DEF RoundsInv
  <2>2. UNCHANGED arguments /\ \A R : Outcome(R)' <=> Outcome(R)
    BY <1>1, OutcomeFrame
  <2>3. pool' = pool /\ Positions' = Positions /\ Pins' = Pins /\ last' = last /\ drifted' = drifted
    BY <1>1, <2>2, Frame DEF roundVars
  <2>4. Settled'
    BY <2>2, <2>3 DEF RoundsInv, Settled
  <2> QED
    BY <2>1, <2>4 DEF RoundsInv
<1>2. ASSUME NEW order \in Shuffles, NEW slice, Reoffered(slice), Reselect(slice, order),
             ~drifted' => SamePool(order)
      PROVE  RoundsInv'
  <2>1. /\ TypeOK' /\ Fresh' /\ Positions' = Positions /\ Pins' = Pins
    BY <1>2, ReselectStarts DEF RoundsInv
  <2>2. IInv' /\ Accounted'
    BY <2>1, FreshInvariant, PTL
  <2>3. last' = {retained} /\ pool' = slice
    BY <1>2 DEF Reselect
  <2>4. Outcome(retained)
    BY <1>2, DoneOutcome DEF RoundsInv, Reselect
  <2>5. /\ Pins \subseteq retained /\ retained \subseteq Positions
        /\ \A c \in Positions : pool'[c].resident <=> c \in retained
    BY <1>2, <2>3, <2>4 DEF Outcome, Reoffered
  <2>6. \A R : R = retained /\ ~drifted' => Outcome(R)'
    BY <1>2, OutcomeStays DEF RoundsInv
  <2>7. Settled'
    BY <2>1, <2>3, <2>5, <2>6 DEF Settled
  <2> QED
    BY <2>2, <2>7 DEF RoundsInv
<1>3. ASSUME NEW order \in Shuffles, SamePool(order) PROVE RoundsInv'
  BY <1>2, <1>3, ReseatedIs DEF RoundsInv, IInv, SamePool
<1>4. ASSUME NEW order \in Shuffles, NEW c \in Slots, NEW score \in DriftScores,
             Drift(order, c, score)
      PROVE  RoundsInv'
  BY <1>2, <1>4, DriftedIs DEF RoundsInv, IInv, Drift
<1>5. CASE Stop
  BY <1>1, <1>5 DEF Stop
<1> QED
  BY <1>1, <1>3, <1>4, <1>5 DEF RoundsNext

\* The invariants of a call hold throughout its repetitions.
THEOREM RoundsInvariance == RoundsSpec => []RoundsInv
<1>1. RoundsInit => RoundsInv
  <2> SUFFICES ASSUME RoundsInit PROVE RoundsInv
    OBVIOUS
  <2>1. Init /\ last = {}
    BY DEF RoundsInit
  <2>2. IInv /\ Accounted
    BY <2>1, InitFresh, FreshInvariant
  <2> QED
    BY <2>1, <2>2 DEF RoundsInv, Settled
<1>2. RoundsInv /\ [RoundsNext]_<<vars, roundVars>> => RoundsInv'
  BY RoundsStep
<1> QED
  BY <1>1, <1>2, PTL DEF RoundsSpec

\* Over the same facts a pass retains exactly what the one before it did,
\* whatever the seed: an outcome of the slice with the new residents is what
\* the old residents gave, and there is no other.
THEOREM PassesDoSettle == RoundsSpec => []PassesSettle
<1>1. RoundsInv => PassesSettle
  <2> SUFFICES ASSUME RoundsInv, phase = "done", ~drifted, NEW before \in last
               PROVE  retained = before
    BY DEF PassesSettle
  <2>1. TypeOK /\ Outcome(retained) /\ Outcome(before)
    BY DoneOutcome DEF RoundsInv, IInv, Settled
  <2> QED
    BY <2>1, OutcomeUnique
<1> QED
  BY <1>1, RoundsInvariance, PTL

\* A pass takes an incumbent's place for a challenger of its tier and size only
\* past the margin, whatever changed since the pass before.
THEOREM DriftIsMarginal == RoundsSpec => []DriftWithinMarginHolds
<1>1. RoundsInv => DriftWithinMarginHolds
  <2> SUFFICES ASSUME RoundsInv, phase = "done", NEW before \in last,
                      NEW i \in before \ retained, NEW c \in retained \ before,
                      i \notin Pins, NaN \notin {pool[i].score, pool[c].score},
                      pool[i].tier = pool[c].tier, pool[i].size_bytes = pool[c].size_bytes
               PROVE  MayDisplace(i, c)
    BY DEF DriftWithinMarginHolds
  <2>1. /\ Pins \subseteq before /\ before \subseteq Positions
        /\ \A d \in Positions : pool[d].resident <=> d \in before
    BY DEF RoundsInv, Settled
  <2>2. Outcome(retained) /\ Rejected = Positions \ retained
    BY DoneOutcome DEF RoundsInv
  <2>3. i \in Positions /\ c \in Positions /\ c \notin Pins
    BY <2>1, <2>2 DEF Outcome
  <2>4. Contest(i, c)
    BY <2>1, <2>3 DEF Contest
  <2>5. Displaced(i, c)
    BY <2>2, <2>3 DEF Displaced
  <2> QED
    BY <2>3, <2>4, <2>5, MarginDecides DEF RoundsInv, AgreesWithMayDisplace
<1> QED
  BY <1>1, RoundsInvariance, PTL

-----------------------------------------------------------------------------
(* The objective *)

\* The objective's terms are the call's.
LEMMA ObjectiveTerms ==
    /\ \A S : Objective!Cardinality(S) = Cardinality(S)
    /\ Objective!CacheTier = CacheTier
    /\ \A tier : Objective!rank(tier) = rank(tier)
    /\ Objective!Pinned = Pins
    /\ \A S : Objective!Weight(S) = Bytes(S)
<1>0. \A S : Objective!Cardinality(S) = Cardinality(S)
  BY DEF Objective!Cardinality, Cardinality
<1>1. ASSUME NEW S PROVE Objective!Weight(S) = Bytes(S)
  <2>1. Objective!Units(Sizes, S) = Units(Sizes, S)
    BY DEF Objective!Units, Units
  <2>2. Objective!Weight(S) = Cardinality(Objective!Units(Sizes, S))
    BY <1>0 DEF Objective!Weight, Objective!SumOver, Sizes, Positions
  <2> QED
    BY <2>1, <2>2 DEF Bytes, SumOver
<1>2. \A S : Objective!Weight(S) = Bytes(S)
  BY <1>1
<1>3. Objective!CacheTier = CacheTier /\ \A tier : Objective!rank(tier) = rank(tier)
  BY DEF Objective!CacheTier, CacheTier, Objective!rank, rank
<1>4. Objective!Pinned = Pins
  BY DEF Objective!Pinned, Pins, Positions
<1> QED
  BY <1>0, <1>2, <1>3, <1>4

\* What an outcome comes to whichever way its ties were broken: the pins and
\* the smallest of each tier, as much as fits after what goes before it.
Filled(R) ==
    /\ Pins \subseteq R /\ R \subseteq Positions
    /\ \A c \in Positions \ R, d \in R \ Pins :
          pool[c].tier = pool[d].tier => pool[d].size_bytes <= pool[c].size_bytes
    /\ \A c \in Positions \ R : Bytes(NotBelow(c, R)) + pool[c].size_bytes > capacity
    /\ capacity < MaxBytes =>
          \A d \in R \ Pins : Bytes(NotBelow(d, R)) <= capacity

\* Whoever is ahead is no larger.
LEMMA OutcomeFills ==
    ASSUME TypeOK, NEW R, Outcome(R)
    PROVE  Filled(R)
<1>1. ASSUME NEW c \in Positions, NEW d \in Positions, Ahead(d, c)
      PROVE  pool[d].size_bytes <= pool[c].size_bytes
  <2>1. pool[d].size_bytes \in Nat /\ pool[c].size_bytes \in Nat
    BY CandidateParts, SelectionAssumption
  <2> QED
    BY <1>1, <2>1 DEF Ahead
<1> QED
  BY <1>1 DEF Outcome, Filled

\* A call leaves its arguments alone, and with them what fills its capacity.
LEMMA FilledFrame ==
    ASSUME [Next]_vars
    PROVE  \A R : Filled(R)' <=> Filled(R)
<1>1. UNCHANGED arguments
  BY OutcomeFrame
<1>2. pool' = pool /\ capacity' = capacity /\ Positions' = Positions /\ Pins' = Pins
  BY <1>1, Frame
<1>3. /\ \A S : Bytes(S)' = Bytes(S)
      /\ \A c, S : NotBelow(c, S)' = NotBelow(c, S)
  BY <1>1, BytesFrame
<1>4. \A R, c : Bytes(NotBelow(c, R))' = Bytes(NotBelow(c, R))
  BY <1>2, <1>3 DEF Bytes
<1> QED
  BY <1>2, <1>4 DEF Filled

\* What a set mirrors of a tier.
OfTier(S, tier) == {c \in S \ Pins : pool[c].tier = tier}

\* The objective counts them.
LEMMA MirrorsOf ==
    /\ \A S, tier : Objective!Mirrors(S, tier) = Cardinality(OfTier(S, tier))
    /\ TypeOK => \A S \in SUBSET Positions : \A tier :
                    IsFiniteSet(OfTier(S, tier)) /\ Cardinality(OfTier(S, tier)) \in Nat
<1>1. ASSUME NEW S, NEW tier PROVE Objective!Mirrors(S, tier) = Cardinality(OfTier(S, tier))
  <2>1. {c \in S \ Objective!Pinned : pool[c].tier = tier} = OfTier(S, tier)
    BY ObjectiveTerms DEF OfTier
  <2> QED
    BY <2>1, ObjectiveTerms DEF Objective!Mirrors
<1>2. ASSUME TypeOK, NEW S \in SUBSET Positions, NEW tier
      PROVE  IsFiniteSet(OfTier(S, tier)) /\ Cardinality(OfTier(S, tier)) \in Nat
  <2>1. OfTier(S, tier) \in SUBSET Positions
    BY DEF OfTier
  <2> QED
    BY <1>2, <2>1, BytesOf, FS_CardinalityType
<1> QED
  BY <1>1, <1>2

\* As many mirrors of a tier as a filled mirror has weigh no less, and more of
\* them weigh more by one that it leaves out.
LEMMA TierWeight ==
    ASSUME TypeOK, NEW R, Filled(R), NEW T \in SUBSET Positions, NEW tier \in CacheTier
    PROVE  /\ Cardinality(OfTier(R, tier)) <= Cardinality(OfTier(T, tier))
                => Bytes(OfTier(R, tier)) <= Bytes(OfTier(T, tier))
           /\ Cardinality(OfTier(R, tier)) < Cardinality(OfTier(T, tier))
                => \E x \in OfTier(T, tier) \ R :
                      Bytes(OfTier(R, tier)) + pool[x].size_bytes <= Bytes(OfTier(T, tier))
<1> DEFINE ours == OfTier(R, tier)
           theirs == OfTier(T, tier)
<1>1. ours \in SUBSET Positions /\ theirs \in SUBSET Positions
  BY DEF OfTier, Filled
<1>2. IsFiniteSet(ours) /\ IsFiniteSet(theirs)
  BY <1>1, BytesOf
<1>3. \A c \in ours \cup theirs : Sizes[c] = pool[c].size_bytes /\ Sizes[c] \in Nat
  <2> SUFFICES ASSUME NEW c \in Positions
               PROVE  Sizes[c] = pool[c].size_bytes /\ Sizes[c] \in Nat
    BY <1>1
  <2>1. pool[c].size_bytes \in Nat
    BY CandidateParts, SelectionAssumption
  <2> QED
    BY <2>1 DEF Sizes
<1>4. \A x \in theirs \ ours : x \notin R
  BY <1>1 DEF OfTier, Filled
<1>5. ASSUME NEW x \in theirs \ ours, NEW y \in ours \ theirs
      PROVE  Sizes[y] <= Sizes[x]
  <2>1. /\ x \in Positions \ R /\ y \in R \ Pins /\ y \in Positions
        /\ pool[x].tier = pool[y].tier
    BY <1>1, <1>4 DEF OfTier
  <2>2. pool[y].size_bytes <= pool[x].size_bytes
    BY <2>1 DEF Filled
  <2> QED
    BY <1>3, <2>1, <2>2
<1> HIDE DEF ours, theirs
<1>6. /\ Cardinality(ours) <= Cardinality(theirs) => SumOver(Sizes, ours) <= SumOver(Sizes, theirs)
      /\ Cardinality(ours) < Cardinality(theirs) =>
            \E x \in theirs \ ours : SumOver(Sizes, ours) + Sizes[x] <= SumOver(Sizes, theirs)
  BY <1>2, <1>3, <1>5, ExchangeRest
<1>7. Cardinality(ours) < Cardinality(theirs)
        => \E x \in theirs \ R : Bytes(ours) + pool[x].size_bytes <= Bytes(theirs)
  BY <1>3, <1>4, <1>6 DEF Bytes
<1> QED
  BY <1>6, <1>7 DEF Bytes, ours, theirs

\* What goes before x, tier by tier.
Part(S, x, r) == {c \in S \ Pins : rank(pool[c].tier) = r /\ r >= rank(pool[x].tier)}

\* The bytes not below a candidate, rank by rank.
LEMMA NotBelowBytes ==
    ASSUME TypeOK, NEW S \in SUBSET Positions, Pins \subseteq S, NEW x \in Positions
    PROVE  /\ Bytes(NotBelow(x, S)) =
                Bytes(Pins) + Bytes(Part(S, x, 2)) + Bytes(Part(S, x, 1)) + Bytes(Part(S, x, 0))
           /\ Bytes(Pins) \in Nat
           /\ \A r \in 0..2 : Bytes(Part(S, x, r)) \in Nat
<1>1. \A c \in Positions : rank(pool[c].tier) \in 0..2
  BY CandidateParts, RankType
<1> DEFINE p(r) == Part(S, x, r)
<1>2. NotBelow(x, S) = ((Pins \cup p(2)) \cup p(1)) \cup p(0)
  BY <1>1 DEF NotBelow, Part
<1>3. /\ Pins \cap p(2) = {}
      /\ (Pins \cup p(2)) \cap p(1) = {}
      /\ ((Pins \cup p(2)) \cup p(1)) \cap p(0) = {}
  BY DEF Part
<1>4. ASSUME NEW A \in SUBSET Positions, NEW B \in SUBSET Positions, A \cap B = {}
      PROVE  Bytes(A \cup B) = Bytes(A) + Bytes(B)
  <2>1. IsFiniteSet(A) /\ IsFiniteSet(B)
    BY BytesOf
  <2>2. \A c \in A \cup B : Sizes[c] \in Nat
    <3> SUFFICES ASSUME NEW c \in Positions PROVE Sizes[c] \in Nat
      OBVIOUS
    <3>1. pool[c].size_bytes \in Nat
      BY CandidateParts, SelectionAssumption
    <3> QED
      BY <3>1 DEF Sizes
  <2> QED
    BY <1>4, <2>1, <2>2, SumOfUnion DEF Bytes
<1>5. /\ Pins \in SUBSET Positions
      /\ \A r \in 0..2 : p(r) \in SUBSET Positions
  BY DEF Pins, Part
<1>6. Bytes(Pins) \in Nat /\ \A r \in 0..2 : Bytes(p(r)) \in Nat
  BY <1>5, BytesOf
<1> HIDE DEF p
<1>7. /\ Bytes(Pins \cup p(2)) = Bytes(Pins) + Bytes(p(2))
      /\ Bytes((Pins \cup p(2)) \cup p(1)) = Bytes(Pins \cup p(2)) + Bytes(p(1))
      /\ Bytes(((Pins \cup p(2)) \cup p(1)) \cup p(0))
           = Bytes((Pins \cup p(2)) \cup p(1)) + Bytes(p(0))
  BY <1>3, <1>4, <1>5
<1> QED
  BY <1>2, <1>6, <1>7 DEF p

\* No way to fill the allowance beats a filled mirror: more mirrors of a tier, and
\* as many of those above, weigh more than the allowance.
LEMMA FilledIsBest ==
    ASSUME TypeOK, capacity < MaxBytes, NEW R, Filled(R)
    PROVE  R \in Objective!Best
<1>1. R \in SUBSET Positions /\ Pins \subseteq R /\ capacity \in Nat
  BY SelectionAssumption DEF Filled, TypeOK
<1>2. Objective!Feasible(R)
  <2>1. Bytes(R) <= capacity \/ R \subseteq Pins
    BY <1>1, LowestFits DEF Filled
  <2> QED
    BY <1>1, <2>1, ObjectiveTerms DEF Objective!Feasible
<1>3. ASSUME NEW T \in SUBSET Positions, Objective!Feasible(T), Objective!Beats(T, R)
      PROVE  FALSE
  <2>1. PICK tier \in CacheTier :
           /\ Objective!Mirrors(T, tier) > Objective!Mirrors(R, tier)
           /\ \A above \in CacheTier :
                 rank(above) > rank(tier) =>
                    Objective!Mirrors(T, above) = Objective!Mirrors(R, above)
    BY <1>3, ObjectiveTerms DEF Objective!Beats
  <2>2. \A S, t : Objective!Mirrors(S, t) = Cardinality(OfTier(S, t))
    BY MirrorsOf
  <2>3. /\ Pins \subseteq T
        /\ Bytes(T) <= capacity \/ T = Pins
    BY <1>3, ObjectiveTerms DEF Objective!Feasible
  <2>4. \A S \in SUBSET Positions : \A t : Cardinality(OfTier(S, t)) \in Nat
    BY MirrorsOf
  <2>5. PICK x \in OfTier(T, tier) \ R :
           Bytes(OfTier(R, tier)) + pool[x].size_bytes <= Bytes(OfTier(T, tier))
    <3>1. Cardinality(OfTier(R, tier)) < Cardinality(OfTier(T, tier))
      BY <1>1, <2>1, <2>2, <2>4
    <3> QED
      BY <3>1, TierWeight
  <2>6. \A above \in CacheTier : rank(above) > rank(tier) =>
           Bytes(OfTier(R, above)) <= Bytes(OfTier(T, above))
    <3> SUFFICES ASSUME NEW above \in CacheTier, rank(above) > rank(tier)
                 PROVE  Bytes(OfTier(R, above)) <= Bytes(OfTier(T, above))
      OBVIOUS
    <3>1. Cardinality(OfTier(R, above)) <= Cardinality(OfTier(T, above))
      BY <1>1, <2>1, <2>2, <2>4
    <3> QED
      BY <3>1, TierWeight
  <2>7. x \in T \ Pins /\ x \in Positions \ R /\ pool[x].tier = tier
    BY DEF OfTier
  <2>8. rank(tier) \in 0..2 /\ \A r \in 0..2 : \E t \in CacheTier : rank(t) = r
    BY DEF CacheTier, rank
  <2>9. ASSUME NEW r \in 0..2
        PROVE  /\ r < rank(tier) => Part(R, x, r) = {} /\ Part(T, x, r) = {}
               /\ r = rank(tier) =>
                     Part(R, x, r) = OfTier(R, tier) /\ Part(T, x, r) = OfTier(T, tier)
               /\ r > rank(tier) =>
                     \E above \in CacheTier : /\ rank(above) > rank(tier)
                                              /\ Part(R, x, r) = OfTier(R, above)
                                              /\ Part(T, x, r) = OfTier(T, above)
    <3>1. PICK t \in CacheTier : rank(t) = r
      BY <2>8
    <3>2. \A c \in Positions : rank(pool[c].tier) = r <=> pool[c].tier = t
      BY <3>1, CandidateParts, RankType
    <3>3. r >= rank(tier) => Part(R, x, r) = OfTier(R, t) /\ Part(T, x, r) = OfTier(T, t)
      BY <1>1, <2>7, <3>2 DEF Part, OfTier
    <3>4. r < rank(tier) => Part(R, x, r) = {} /\ Part(T, x, r) = {}
      BY <2>7, <2>8 DEF Part
    <3>5. r = rank(tier) => t = tier
      BY <3>1, RankType
    <3> QED
      BY <2>8, <3>1, <3>3, <3>4, <3>5
  <2> DEFINE ours(r) == Bytes(Part(R, x, r))
             theirs(r) == Bytes(Part(T, x, r))
  <2>10. /\ Bytes(NotBelow(x, R)) = Bytes(Pins) + ours(2) + ours(1) + ours(0)
         /\ Bytes(NotBelow(x, T)) = Bytes(Pins) + theirs(2) + theirs(1) + theirs(0)
         /\ Bytes(Pins) \in Nat
         /\ \A r \in 0..2 : ours(r) \in Nat /\ theirs(r) \in Nat
    BY <1>1, <2>3, <2>7, NotBelowBytes
  <2>11. \A r \in 0..2 :
            /\ r # rank(tier) => ours(r) <= theirs(r)
            /\ r = rank(tier) => ours(r) + pool[x].size_bytes <= theirs(r)
    <3> SUFFICES ASSUME NEW r \in 0..2
                 PROVE  /\ r # rank(tier) => ours(r) <= theirs(r)
                        /\ r = rank(tier) => ours(r) + pool[x].size_bytes <= theirs(r)
      OBVIOUS
    <3>1. CASE r < rank(tier)
      <4>1. ours(r) = theirs(r) /\ ours(r) \in Nat
        BY <2>9, <2>10, <3>1
      <4> HIDE DEF ours, theirs
      <4> QED
        BY <2>8, <3>1, <4>1
    <3>2. CASE r = rank(tier)
      BY <2>5, <2>9, <3>2
    <3>3. CASE r > rank(tier)
      BY <2>6, <2>8, <2>9, <3>3
    <3> QED
      BY <2>8, <3>1, <3>2, <3>3
  <2>12. pool[x].size_bytes \in Nat
    BY <2>7, CandidateParts, SelectionAssumption
  <2> HIDE DEF ours, theirs
  <2>13. Bytes(NotBelow(x, R)) + pool[x].size_bytes <= Bytes(NotBelow(x, T))
    <3>1. CASE rank(tier) = 0
      BY <2>10, <2>11, <2>12, <3>1
    <3>2. CASE rank(tier) = 1
      BY <2>10, <2>11, <2>12, <3>2
    <3>3. CASE rank(tier) = 2
      BY <2>10, <2>11, <2>12, <3>3
    <3> QED
      BY <2>8, <3>1, <3>2, <3>3
  <2>14. Bytes(NotBelow(x, T)) <= Bytes(T) /\ Bytes(T) \in Nat /\ Bytes(NotBelow(x, T)) \in Nat
    <3>1. NotBelow(x, T) \in SUBSET T
      BY DEF NotBelow
    <3> QED
      BY <3>1, BytesOf
  <2>15. Bytes(NotBelow(x, R)) + pool[x].size_bytes > capacity
    BY <2>7 DEF Filled
  <2>16. Bytes(NotBelow(x, R)) \in Nat
    <3>1. NotBelow(x, R) \in SUBSET Positions
      BY <1>1 DEF NotBelow
    <3> QED
      BY <3>1, BytesOf
  <2> QED
    BY <1>1, <2>3, <2>7, <2>12, <2>13, <2>14, <2>15, <2>16
<1> QED
  BY <1>1, <1>2, <1>3 DEF Objective!Best, Positions

\* Two ways to fill the capacity mirror as many of every tier: neither beats
\* the other, so they agree in the highest tier, then in the next, then in the
\* lowest.
LEMMA FilledAlike ==
    ASSUME TypeOK, capacity < MaxBytes, NEW R, Filled(R), NEW Q, Filled(Q)
    PROVE  \A tier \in CacheTier : Cardinality(OfTier(R, tier)) = Cardinality(OfTier(Q, tier))
<1> DEFINE Many(S, tier) == Cardinality(OfTier(S, tier))
<1>1. \A tier \in CacheTier : Many(R, tier) \in Nat /\ Many(Q, tier) \in Nat
  BY MirrorsOf DEF Filled
<1>2. ASSUME NEW S \in {R, Q}, NEW T \in {R, Q}, NEW tier \in CacheTier,
             Many(S, tier) > Many(T, tier),
             \A above \in CacheTier : rank(above) > rank(tier) => Many(S, above) = Many(T, above)
      PROVE  FALSE
  <2>1. S \in Objective!Best /\ T \in Objective!Best
    BY FilledIsBest
  <2>2. Objective!Beats(S, T)
    BY <1>2, MirrorsOf, ObjectiveTerms DEF Objective!Beats
  <2> QED
    BY <2>1, <2>2 DEF Objective!Best
<1> HIDE DEF Many
<1>3. ASSUME NEW tier \in CacheTier,
             \A above \in CacheTier : rank(above) > rank(tier) => Many(R, above) = Many(Q, above)
      PROVE  Many(R, tier) = Many(Q, tier)
  BY <1>1, <1>2, <1>3
<1>4. CacheTier = {"Tier0Precache", "Tier1Demand", "Tier2Bribed"}
      /\ rank("Tier0Precache") = 0 /\ rank("Tier1Demand") = 1 /\ rank("Tier2Bribed") = 2
  BY DEF CacheTier, rank
<1>5. Many(R, "Tier2Bribed") = Many(Q, "Tier2Bribed")
  BY <1>3, <1>4
<1>6. Many(R, "Tier1Demand") = Many(Q, "Tier1Demand")
  BY <1>3, <1>4, <1>5
<1>7. Many(R, "Tier0Precache") = Many(Q, "Tier0Precache")
  BY <1>3, <1>4, <1>5, <1>6
<1> QED
  BY <1>4, <1>5, <1>6, <1>7 DEF Many

\* A call that has undecided nothing left decides for a best way.
LEMMA ReturnDecides ==
    ASSUME IInv, Accounted, capacity < MaxBytes, Return
    PROVE  Objective!Decide
<1>1. /\ phase = "tiers" /\ phase' = "done" /\ retained' = retained
      /\ todo' = todo /\ UNCHANGED arguments
  BY DEF Return
<1>2. todo = {}
  BY <1>1, ReturnIInv DEF IInv, EveryCandidateOnce
<1>3. Outcome(retained)
  BY <1>1, <1>2, DecidedOutcome
<1>4. retained \in Objective!Best
  BY <1>3, OutcomeFills, FilledIsBest DEF IInv
<1> QED
  BY <1>1, <1>4 DEF Objective!Decide, Objective!Undecided, arguments

\* What a call retains is never the mark of the undecided.
LEMMA RetainedIsDecided ==
    ASSUME TypeOK
    PROVE  retained # {0}
<1>1. DOMAIN pool = 1..Len(pool) /\ Len(pool) \in Nat
  BY DEF TypeOK
<1>2. 0 \notin Positions
  BY <1>1 DEF Positions
<1> QED
  BY <1>2 DEF TypeOK

\* Below u64::MAX a node that selects again and again implements the
\* objective: every pass decides for one of the best ways to fill the
\* capacity, profit first, mirrors second, and for nothing before it is done.
THEOREM ImplementsObjective ==
    ASSUME \A bytes \in Capacities : bytes < MaxBytes
    PROVE  RoundsSpec => ObjectiveSpec
<1> DEFINE held == IF phase = "done" THEN retained ELSE {0}
<1>1. RoundsInit => capacity < MaxBytes
  BY DEF RoundsInit, Init, Called
<1>2. RoundsInv /\ [RoundsNext]_<<vars, roundVars>> => capacity' = capacity
  BY DEF RoundsNext, Next, vars, arguments, RetainPin, OfferTiers, Retain, Reject, NextTier,
         Return, SamePool, Drift, Reselect, Stop
<1>3. RoundsInit => Objective!Init
  BY DEF RoundsInit, Init, Called, Objective!Init, Objective!Undecided
<1>4. ASSUME RoundsInv, capacity < MaxBytes, [RoundsNext]_<<vars, roundVars>>
      PROVE  [Objective!Decide \/ Objective!CallAgain]_<<pool, capacity, held>>
  <2>1. CASE Return
    BY <1>4, <2>1, ReturnDecides DEF RoundsInv
  <2>2. ASSUME \/ \E c \in Slots : RetainPin(c) \/ Retain(c) \/ Reject(c)
               \/ OfferTiers \/ NextTier \/ UNCHANGED vars
        PROVE  UNCHANGED <<pool, capacity, held>>
    BY <2>2 DEF RetainPin, Retain, Reject, OfferTiers, NextTier, vars, arguments
  <2>3. ASSUME NEW slice, NEW order, Reselect(slice, order) PROVE Objective!CallAgain
    BY <1>4, <2>3, RetainedIsDecided
       DEF Reselect, Objective!CallAgain, Objective!Undecided, RoundsInv, IInv
  <2>4. CASE Next /\ UNCHANGED roundVars
    BY <2>1, <2>2, <2>4 DEF Next
  <2>5. CASE \E order \in Shuffles :
                \/ SamePool(order)
                \/ \E c \in Slots, score \in DriftScores : Drift(order, c, score)
    BY <2>3, <2>5 DEF SamePool, Drift
  <2>6. CASE Stop \/ UNCHANGED <<vars, roundVars>>
    BY <2>2, <2>6 DEF Stop
  <2> QED
    BY <1>4, <2>4, <2>5, <2>6 DEF RoundsNext
<1>5. RoundsInv /\ capacity < MaxBytes /\ [RoundsNext]_<<vars, roundVars>>
        => [Objective!Decide \/ Objective!CallAgain]_<<pool, capacity, held>>
  BY <1>4
<1>6. capacity < MaxBytes /\ RoundsInv /\ [RoundsNext]_<<vars, roundVars>>
        => (capacity < MaxBytes)'
  BY <1>2
<1> QED
  BY <1>1, <1>3, <1>5, <1>6, RoundsInvariance, PTL DEF RoundsSpec, ObjectiveSpec, Objective!Spec

-----------------------------------------------------------------------------
(* What the sources' claims come to *)

\* A set of scores that are numbers has a greatest.
LEMMA Greatest ==
    ASSUME NEW T \in SUBSET (0..31), T # {}
    PROVE  \E x \in T : \A y \in T : y <= x
<1> DEFINE below == {k \in Nat : 31 - k \in T}
<1>1. below \in SUBSET Nat /\ below # {}
  <2>1. PICK x \in T : TRUE
    OBVIOUS
  <2>2. 31 - x \in Nat /\ 31 - (31 - x) = x
    BY <2>1
  <2>3. 31 - x \in below
    BY <2>1, <2>2
  <2> QED
    BY <2>3
<1>2. PICK k \in below : \A y \in below : ~ (<<y, k>> \in OpToRel(<, Nat))
  BY <1>1, NatLessThanWellFounded, WFMin
<1>3. \A y \in below : ~ (y < k)
  BY <1>1, <1>2 DEF OpToRel
<1>4. ASSUME NEW y \in T PROVE y <= 31 - k
  <2>1. y \in 0..31 /\ 31 - y \in Nat /\ 31 - (31 - y) = y
    OBVIOUS
  <2>2. 31 - y \in below
    BY <2>1
  <2>3. k \in Nat /\ ~ (31 - y < k)
    BY <1>1, <1>2, <1>3, <2>2
  <2> HIDE DEF below
  <2> QED
    BY <2>1, <2>3
<1> QED
  BY <1>2, <1>4

\* Of any tiers claimed one is on top.
LEMMA TopTier ==
    ASSUME NEW tiers \in SUBSET CacheTier, tiers # {}
    PROVE  \E top \in tiers : /\ effective_tier(tiers) = {top}
                              /\ \A tier \in tiers : rank(tier) <= rank(top)
<1>1. ASSUME NEW top \in tiers, \A tier \in tiers : rank(tier) <= rank(top)
      PROVE  effective_tier(tiers) = {top}
  <2>1. ASSUME NEW other \in effective_tier(tiers) PROVE other = top
    <3>1. other \in tiers /\ rank(other) <= rank(top) /\ rank(top) <= rank(other)
      BY <1>1, <2>1 DEF effective_tier
    <3> QED
      BY <3>1, RankType
  <2> QED
    BY <1>1, <2>1 DEF effective_tier
<1>2. \E top \in tiers : \A tier \in tiers : rank(tier) <= rank(top)
  <2>1. /\ rank("Tier0Precache") = 0 /\ rank("Tier1Demand") = 1 /\ rank("Tier2Bribed") = 2
    BY DEF rank
  <2>2. CASE "Tier2Bribed" \in tiers
    BY <2>1, <2>2 DEF CacheTier
  <2>3. CASE "Tier2Bribed" \notin tiers /\ "Tier1Demand" \in tiers
    BY <2>1, <2>3 DEF CacheTier
  <2>4. CASE "Tier2Bribed" \notin tiers /\ "Tier1Demand" \notin tiers
    <3>1. tiers = {"Tier0Precache"}
      BY <2>4 DEF CacheTier
    <3> QED
      BY <2>1, <3>1
  <2> QED
    BY <2>2, <2>3, <2>4
<1> QED
  BY <1>1, <1>2

\* The best of some scores is one of them that is a number and no less than
\* the others, or the bottom when none is a number.
LEMMA BestOf ==
    ASSUME NEW scores \in SUBSET Scores
    PROVE  /\ BestScore(scores) \in Score
           /\ BestScore(scores) = NegInf \/ BestScore(scores) \in scores
           /\ \A s \in scores : s # NaN => s <= BestScore(scores)
<1> DEFINE numbers == scores \ {NaN}
<1>1. numbers \in SUBSET (0..31) /\ numbers \subseteq Representable
  BY ClaimLedgerAssumption DEF Representable
<1>2. CASE numbers = {}
  BY <1>2 DEF BestScore, Score
<1>3. CASE numbers # {}
  <2>1. \E best \in numbers : \A s \in numbers : s <= best
    BY <1>1, <1>3, Greatest
  <2> DEFINE best == CHOOSE best \in numbers : \A s \in numbers : s <= best
  <2>2. best \in numbers /\ \A s \in numbers : s <= best
    BY <2>1
  <2>3. BestScore(scores) = best
    BY <1>3 DEF BestScore
  <2> HIDE DEF best
  <2> QED
    BY <1>1, <2>2, <2>3 DEF Score
<1> QED
  BY <1>2, <1>3

\* The set answers by the top tier claimed and the best score claimed there.
LEMMA FactsCompose ==
    ASSUME NEW claimed \in SUBSET StoreFacts
    PROVE  LET f == facts_or_default(claimed)
           IN  /\ f.tier \in CacheTier /\ f.score \in Score
               /\ claimed = {} => f.tier = DEFAULT_TIER /\ f.score = 0
               /\ claimed # {} => \E c \in claimed : c.tier = f.tier
               /\ \A c \in claimed : rank(c.tier) <= rank(f.tier)
               /\ \A c \in claimed : c.tier = f.tier /\ c.score # NaN => c.score <= f.score
               /\ claimed # {} =>
                     \/ f.score = NegInf
                     \/ \E c \in claimed : c.tier = f.tier /\ c.score = f.score
<1> DEFINE tiers == {c.tier : c \in claimed}
           at(t) == {c.score : c \in {k \in claimed : k.tier = t}}
           f == facts_or_default(claimed)
<1>1. \A c \in claimed : c.tier \in CacheTier /\ c.score \in Scores
  BY DEF StoreFacts
<1>2. CASE claimed = {}
  <2>1. facts(claimed) = {}
    BY <1>2 DEF facts, effective_tier
  <2>2. f = [tier |-> DEFAULT_TIER, score |-> 0]
    BY <2>1 DEF facts_or_default
  <2>3. 0 \in Score
    BY DEF Score, Representable, Ulp
  <2> HIDE DEF f
  <2>4. f.tier \in CacheTier
    BY <2>2 DEF DEFAULT_TIER, CacheTier
  <2> QED
    BY <1>2, <2>2, <2>3, <2>4 DEF f
<1>3. CASE claimed # {}
  <2>1. tiers \in SUBSET CacheTier /\ tiers # {}
    BY <1>1, <1>3
  <2>2. PICK top \in tiers : /\ effective_tier(tiers) = {top}
                             /\ \A tier \in tiers : rank(tier) <= rank(top)
    BY <2>1, TopTier
  <2>3. facts(claimed) = {[tier |-> top, score |-> BestScore(at(top))]}
    BY <2>2 DEF facts
  <2>4. f = [tier |-> top, score |-> BestScore(at(top))]
    BY <2>3 DEF facts_or_default
  <2>5. at(top) \in SUBSET Scores
    BY <1>1
  <2> HIDE DEF at
  <2>6. /\ BestScore(at(top)) \in Score
        /\ BestScore(at(top)) = NegInf \/ BestScore(at(top)) \in at(top)
        /\ \A s \in at(top) : s # NaN => s <= BestScore(at(top))
    BY <2>5, BestOf
  <2> HIDE DEF f
  <2>7. f.tier = top /\ f.score = BestScore(at(top))
    BY <2>4
  <2>8. top \in CacheTier /\ \E c \in claimed : c.tier = top
    BY <2>1, <2>2
  <2>9. \A c \in claimed : rank(c.tier) <= rank(top)
    BY <2>2
  <2>10. \A c \in claimed : c.tier = top /\ c.score # NaN => c.score <= f.score
    BY <2>6, <2>7 DEF at
  <2>11. f.score = NegInf \/ \E c \in claimed : c.tier = top /\ c.score = f.score
    BY <2>6, <2>7 DEF at
  <2> QED
    BY <1>3, <2>6, <2>7, <2>8, <2>9, <2>10, <2>11 DEF f
<1> QED
  BY <1>2, <1>3

\* Every source answers of every store with claims.
ClaimsType == claims \in [Sources -> [Slots -> SUBSET StoreFacts]]

\* What a host claims of a store are facts of a store.
LEMMA ClaimedType ==
    ASSUME ClaimsType, NEW store \in Slots
    PROVE  Claimed(store) \in SUBSET StoreFacts
  BY DEF ClaimsType, Claimed

\* Revising the claims keeps their types.
LEMMA ReviseClaimsType ==
    ASSUME ClaimsType, ReviseClaims
    PROVE  ClaimsType'
<1>1. Stores = Slots
  BY EvictionAssumption
<1>2. PICK s \in Sources :
        \/ \E store \in Stores, f \in StoreFacts : Claim(s, store, f)
        \/ \E store \in Stores : Lapse(s, store)
        \/ LoseLedger(s)
  BY DEF ReviseClaims
<1>3. CASE \E store \in Stores, f \in StoreFacts : Claim(s, store, f)
  BY <1>1, <1>3 DEF Claim, ClaimsType
<1>4. CASE \E store \in Stores : Lapse(s, store)
  BY <1>1, <1>4 DEF Lapse, ClaimsType
<1>5. CASE LoseLedger(s)
  BY <1>1, <1>5 DEF LoseLedger, ClaimsType
<1> QED
  BY <1>2, <1>3, <1>4, <1>5

\* A store is worth what is claimed of it at the top tier claimed.
LEMMA ScoreIsOfWinningTier == ClaimsType => ScoreOfWinningTier
<1> SUFFICES ASSUME ClaimsType, NEW store \in Slots
             PROVE  LET f == Facts(store) IN
                    /\ \A c \in Claimed(store) : rank(c.tier) <= rank(f.tier)
                    /\ \A c \in Claimed(store) :
                          c.tier = f.tier /\ c.score # NaN => c.score <= f.score
                    /\ f.score \in {c.score : c \in {k \in Claimed(store) : k.tier = f.tier}}
                                      \cup {NegInf} \cup (IF Claimed(store) = {} THEN {0} ELSE {})
                    /\ Claimed(store) = {} => f.tier = DEFAULT_TIER
  BY EvictionAssumption DEF ScoreOfWinningTier
<1>1. Claimed(store) \in SUBSET StoreFacts
  BY ClaimedType
<1> QED
  BY <1>1, FactsCompose DEF Facts

\* What a lapse leaves of the store it is about.
LEMMA LapseLeaves ==
    ASSUME ClaimsType, NEW s \in Sources, NEW store \in Slots,
           claims' = [claims EXCEPT ![s][store] = {}],
           \E other \in Sources \ {s} : \E c \in claims[other][store] : c.tier = Facts(store).tier
    PROVE  /\ Facts(store)'.tier = Facts(store).tier
           /\ \/ Facts(store)'.score = NegInf
              \/ [tier |-> Facts(store)'.tier, score |-> Facts(store)'.score] \in Claimed(store)'
<1> DEFINE before == Claimed(store)
           after  == UNION {claims'[source][store] : source \in Sources}
           f == facts_or_default(before)
           g == facts_or_default(after)
<1>1. Facts(store) = f /\ Facts(store)' = g /\ Claimed(store)' = after
  BY DEF Facts, Claimed
<1>2. \A source \in Sources :
         claims'[source][store] = IF source = s THEN {} ELSE claims[source][store]
  BY DEF ClaimsType
<1>3. before \in SUBSET StoreFacts /\ after \subseteq before
  BY <1>2, ClaimedType DEF Claimed
<1>4. PICK c \in after : c.tier = f.tier
  BY <1>1, <1>2
<1> HIDE DEF before, after
<1>5. /\ \A d \in before : rank(d.tier) <= rank(f.tier)
      /\ f.tier \in CacheTier
  BY <1>3, FactsCompose
<1>6. /\ \A d \in after : rank(d.tier) <= rank(g.tier)
      /\ \E d \in after : d.tier = g.tier
      /\ \/ g.score = NegInf
         \/ \E d \in after : d.tier = g.tier /\ d.score = g.score
      /\ g.tier \in CacheTier
  BY <1>3, <1>4, FactsCompose
<1> HIDE DEF f, g
<1>7. g.tier = f.tier
  <2>1. rank(g.tier) <= rank(f.tier) /\ rank(f.tier) <= rank(g.tier)
    BY <1>3, <1>4, <1>5, <1>6
  <2> QED
    BY <1>5, <1>6, <2>1, RankType
<1>8. ASSUME NEW d \in after, d.tier = g.tier, d.score = g.score
      PROVE  [tier |-> g.tier, score |-> g.score] \in after
  <2>1. d = [tier |-> d.tier, score |-> d.score]
    BY <1>3 DEF StoreFacts
  <2> QED
    BY <1>8, <2>1
<1> QED
  BY <1>1, <1>6, <1>7, <1>8

-----------------------------------------------------------------------------
(* A full cache *)

\* What a pass runs under.
PassTerms == [shuffle : [Slots -> Slots], margin : Representable]

\* What a capsule meets: the entries before it, itself unpinned and no larger
\* than the cache, the sources.
Setting ==
    /\ caller \in {"asks", "admits"}
    /\ entries \in Seq(Entry) /\ Incoming \in 1..MaxPool
    /\ limit \in Capacities /\ policy \in PassTerms /\ asking \in PassTerms
    /\ ~entries[Incoming].pinned /\ entries[Incoming].size <= limit
    /\ ClaimsType

\* The caller's own pass is over the entries and the capsule, and the sources
\* have not changed their minds since.
Asked ==
    /\ caller = "asks" /\ revisions = 0
    /\ pool = Offer /\ capacity = limit
    /\ shuffle = asking.shuffle /\ margin = asking.margin

\* The policy's pass is over the entries and the space the capsule leaves.
EntriesOffered ==
    /\ pool = HeldCandidates /\ capacity = incumbent_capacity
    /\ shuffle = policy.shuffle /\ margin = policy.margin

EvictInv ==
    /\ Setting
    /\ IInv /\ Accounted
    /\ revisions \in Nat
    /\ stage \in {"offered", "wanted", "evicting", "refused", "admitted"}
    /\ stage = "offered" => Asked
    /\ stage = "wanted" /\ caller = "asks" /\ revisions = 0 =>
          Asked /\ phase = "done" /\ displaced = Rejected /\ Incoming \in retained
    /\ stage = "evicting" => EntriesOffered

\* The candidate made of an entry.
LEMMA CandidateIs ==
    ASSUME Setting, NEW e \in 1..Incoming, NEW is_resident \in BOOLEAN
    PROVE  /\ candidate(e, is_resident) \in SelectionCandidate
           /\ candidate(e, is_resident).tier = Facts(e).tier
           /\ candidate(e, is_resident).size_bytes = entries[e].size
           /\ candidate(e, is_resident).pinned = entries[e].pinned
           /\ candidate(e, is_resident).resident = is_resident
<1>1. Facts(e).tier \in CacheTier /\ Facts(e).score \in Score
  <2>1. e \in Slots
    BY SelectionAssumption DEF Setting, Slots
  <2>2. Claimed(e) \in SUBSET StoreFacts
    BY <2>1, ClaimedType DEF Setting
  <2> QED
    BY <2>2, FactsCompose DEF Facts
<1>2. entries[e] \in Entry
  BY DEF Setting, Incoming
<1>3. entries[e].size \in 0..MaxBytes /\ entries[e].pinned \in BOOLEAN
  BY <1>2, EvictionAssumption DEF Entry
<1> QED
  BY <1>1, <1>3 DEF candidate, SelectionCandidate

\* The two slices a full cache offers: what it holds with the incoming capsule,
\* and without.
LEMMA OffersAre ==
    ASSUME Setting
    PROVE  /\ Offer \in Seq(SelectionCandidate) /\ Len(Offer) <= MaxPool
           /\ DOMAIN Offer = 1..Incoming
           /\ HeldCandidates \in Seq(SelectionCandidate) /\ Len(HeldCandidates) <= MaxPool
           /\ DOMAIN HeldCandidates = Held
           /\ Held = 1..(Incoming - 1) /\ Held = (1..Incoming) \ {Incoming}
<1>1. Incoming \in Nat /\ Incoming - 1 \in Nat /\ Incoming <= MaxPool /\ MaxPool \in Nat
  BY SelectionAssumption DEF Setting
<1>2. Held = 1..(Incoming - 1) /\ Held \subseteq 1..Incoming
  BY <1>1 DEF Held, Incoming
<1>3. Offer \in [1..Incoming -> SelectionCandidate]
  <2>1. \A e \in 1..Incoming : candidate(e, e # Incoming) \in SelectionCandidate
    BY CandidateIs
  <2> QED
    BY <2>1 DEF Offer
<1>4. HeldCandidates \in [1..(Incoming - 1) -> SelectionCandidate]
  <2>1. \A e \in Held : candidate(e, TRUE) \in SelectionCandidate
    BY <1>2, CandidateIs
  <2> QED
    BY <1>2, <2>1 DEF HeldCandidates
<1>5. ASSUME NEW n \in Nat, n <= MaxPool, NEW s \in [1..n -> SelectionCandidate]
      PROVE  s \in Seq(SelectionCandidate) /\ Len(s) <= MaxPool
  BY <1>5
<1> HIDE DEF Incoming
<1>6. Held = (1..Incoming) \ {Incoming}
  BY <1>1, <1>2
<1> QED
  BY <1>1, <1>2, <1>3, <1>4, <1>5, <1>6

\* The policy's space is below the cache's by the capsule's size.
LEMMA SpaceIs ==
    ASSUME Setting
    PROVE  /\ limit \in 0..MaxBytes /\ entries[Incoming].size \in Nat
           /\ incumbent_capacity \in 0..MaxBytes
           /\ incumbent_capacity = limit - entries[Incoming].size
<1>1. limit \in 0..MaxBytes /\ MaxBytes \in Nat
  BY SelectionAssumption DEF Setting
<1>2. entries[Incoming].size \in Nat
  <2>1. entries[Incoming] \in Entry
    BY DEF Setting, Incoming
  <2>2. entries[Incoming].size \in 0..MaxBytes
    BY <2>1, EvictionAssumption DEF Entry
  <2> QED
    BY <1>1, <2>2
<1> QED
  BY <1>1, <1>2 DEF Setting, incumbent_capacity, SaturatingSub

\* A pass starts afresh.
LEMMA SelectFresh ==
    ASSUME IInv, NEW slice \in Seq(SelectionCandidate), Len(slice) <= MaxPool,
           NEW bytes \in 0..MaxBytes, NEW terms \in PassTerms, Select(slice, bytes, terms)
    PROVE  IInv' /\ Accounted'
<1>1. /\ pool' = slice /\ capacity' = bytes /\ shuffle' = terms.shuffle /\ phase' = "pins"
      /\ turn' = 1 /\ todo' = DOMAIN slice /\ used' = 0 /\ retained' = {}
      /\ rejected' = <<>> /\ margin' = terms.margin
  BY DEF Select
<1>2. Positions' = DOMAIN slice
  BY <1>1 DEF Positions
<1>3. TypeOK'
  <2>1. terms.shuffle \in [Slots -> Slots] /\ terms.margin \in Representable
        /\ 0 \in 0..MaxBytes
    BY SelectionAssumption DEF PassTerms
  <2>2. <<>> \in Seq(DOMAIN slice)
    OBVIOUS
  <2> QED
    BY <1>1, <1>2, <2>1, <2>2 DEF IInv, TypeOK
<1>4. Fresh'
  BY <1>1, <1>2 DEF Fresh
<1> QED
  BY <1>3, <1>4, FreshInvariant, PTL

\* Entries and claims fix what is offered.
LEMMA OfferFrame ==
    ASSUME UNCHANGED <<entries, claims>>
    PROVE  /\ Offer' = Offer /\ HeldCandidates' = HeldCandidates
           /\ Incoming' = Incoming /\ Held' = Held
           /\ \A S : EntryBytes(S)' = EntryBytes(S)
           /\ EntryPins' = EntryPins
<1>1. Incoming' = Incoming /\ Held' = Held /\ entries' = entries
  BY DEF Incoming, Held
<1>2. \A e, b : candidate(e, b)' = candidate(e, b)
  BY DEF candidate, Facts, Claimed
<1> QED
  BY <1>1, <1>2 DEF Offer, HeldCandidates, EntryBytes, EntryPins

\* The setting stands while nothing but the passes moves.
LEMMA SettingFrame ==
    ASSUME UNCHANGED <<caller, entries, limit, policy, asking>>, ClaimsType', Setting
    PROVE  Setting'
  BY DEF Setting, Incoming

\* The terms a pass starts under are within the floor and the types.
LEMMA TermsType ==
    ASSUME NEW own \in Terms
    PROVE  /\ own \in PassTerms /\ DisplacementMargin(own.margin) = own.margin
           /\ \A listing \in Listings : /\ Listed(own, listing) \in PassTerms
                                        /\ Listed(own, listing).margin = own.margin
<1>1. PICK seed \in Shuffles, m \in Margins :
         own = [shuffle |-> seed, margin |-> DisplacementMargin(m)]
  BY DEF Terms
<1>2. m \in Representable \cup {NaN} /\ seed \in [Slots -> Slots]
  BY SelectionAssumption
<1>3. DisplacementMargin(m) \in Representable
  BY <1>2, MarginType
<1>4. own \in PassTerms
  BY <1>1, <1>2, <1>3 DEF PassTerms
<1>5. DisplacementMargin(own.margin) = own.margin
  BY <1>1 DEF DisplacementMargin, MIN_DISPLACEMENT_MARGIN
<1>6. ASSUME NEW listing \in Listings
      PROVE  Listed(own, listing) \in PassTerms /\ Listed(own, listing).margin = own.margin
  <2>1. listing \in [Slots -> Slots]
    BY EvictionAssumption
  <2>2. [e \in Slots |-> seed[listing[e]]] \in [Slots -> Slots]
    BY <1>2, <2>1
  <2>3. Listed(own, listing)
           = [shuffle |-> [e \in Slots |-> seed[listing[e]]], margin |-> own.margin]
    BY <1>1 DEF Listed
  <2> QED
    BY <1>1, <1>3, <2>2, <2>3 DEF PassTerms
<1> QED
  BY <1>4, <1>5, <1>6

\* The invariant of the passes holds before the first.
LEMMA InitEvictInv == EvictionInit => EvictInv
<1> SUFFICES ASSUME EvictionInit PROVE EvictInv
  OBVIOUS
<1>1. PICK n \in 1..MaxPool :
        /\ entries \in [1..n -> Entry]
        /\ \E given \in [1..n -> Claimings] :
              claims = [s \in Sources |-> [e \in Slots |-> IF e <= n THEN given[e][s] ELSE {}]]
  BY DEF EvictionInit
<1>2. PICK given \in [1..n -> Claimings] :
        claims = [s \in Sources |-> [e \in Slots |-> IF e <= n THEN given[e][s] ELSE {}]]
  BY <1>1
<1>3. ClaimsType
  <2>1. \A s \in Sources, e \in Slots :
           (IF e <= n THEN given[e][s] ELSE {}) \in SUBSET StoreFacts
    <3> SUFFICES ASSUME NEW s \in Sources, NEW e \in Slots, e <= n
                 PROVE  given[e][s] \in SUBSET StoreFacts
      OBVIOUS
    <3>1. e \in 1..n
      BY SelectionAssumption DEF Slots
    <3>2. given[e] \in [Sources -> SUBSET StoreFacts]
      BY <3>1, EvictionAssumption
    <3> QED
      BY <3>2
  <2> QED
    BY <1>2, <2>1 DEF ClaimsType
<1>4. entries \in Seq(Entry) /\ Incoming \in 1..MaxPool
  <2>1. n \in Nat /\ entries \in Seq(Entry)
    BY <1>1, SelectionAssumption
  <2>2. DOMAIN entries = 1..n /\ DOMAIN entries = 1..Len(entries) /\ Len(entries) \in Nat
    BY <1>1, <2>1
  <2>3. n \in 1..Len(entries)
    BY <1>1, <2>1, <2>2
  <2>4. Len(entries) \in 1..n
    BY <2>2, <2>3
  <2> QED
    BY <1>1, <2>1, <2>3, <2>4 DEF Incoming
<1>5. /\ policy \in PassTerms /\ asking \in PassTerms
      /\ DisplacementMargin(asking.margin) = asking.margin
  <2>1. policy \in Terms
    BY DEF EvictionInit
  <2>2. CASE caller = "asks"
    <3>1. PICK own \in Terms, listing \in Listings : asking = Listed(own, listing)
      BY <2>2 DEF EvictionInit
    <3> QED
      BY <2>1, <3>1, TermsType
  <2>3. CASE caller # "asks"
    <3>1. asking = policy
      BY <2>3 DEF EvictionInit
    <3> QED
      BY <2>1, <3>1, TermsType
  <2> QED
    BY <2>2, <2>3
<1>6. Setting
  BY <1>3, <1>4, <1>5, EvictionAssumption DEF EvictionInit, Setting
<1> DEFINE slice == IF caller = "asks" THEN Offer ELSE <<>>
<1>7. slice \in Seq(SelectionCandidate) /\ Len(slice) <= MaxPool
  BY <1>6, OffersAre, SelectionAssumption
<1>8. /\ limit \in 0..MaxBytes /\ asking.shuffle \in [Slots -> Slots]
      /\ asking.margin \in Representable \cup {NaN}
  BY <1>5, <1>6, SpaceIs DEF PassTerms
<1>9. IInv /\ Accounted
  <2> HIDE DEF slice
  <2>1. Called(slice, limit, asking.margin, asking.shuffle)
    BY DEF EvictionInit, slice
  <2>2. TypeOK /\ Fresh
    BY <1>7, <1>8, <2>1, CalledFresh
  <2> QED
    BY <2>2, FreshInvariant
<1>10. stage = "offered" => Asked
  BY <1>5 DEF EvictionInit, Called, Asked
<1>11. /\ stage \in {"offered", "wanted"} /\ revisions = 0
       /\ stage = "wanted" => caller # "asks"
  BY DEF EvictionInit
<1> QED
  BY <1>6, <1>9, <1>10, <1>11 DEF EvictInv

\* Every step keeps it.
LEMMA EvictStep == EvictInv /\ [EvictionNext]_<<vars, evictVars, claims>> => EvictInv'
<1> SUFFICES ASSUME EvictInv, [EvictionNext]_<<vars, evictVars, claims>> PROVE EvictInv'
  OBVIOUS
<1>1. Setting /\ IInv /\ Accounted /\ revisions \in Nat
  BY DEF EvictInv
<1>2. ASSUME UNCHANGED <<vars, caller, entries, limit, policy, asking, revisions, claims>>
      PROVE  /\ Setting' /\ IInv' /\ Accounted' /\ revisions' \in Nat
             /\ Asked => Asked'
             /\ EntriesOffered => EntriesOffered'
             /\ Rejected' = Rejected /\ Incoming' = Incoming
             /\ phase' = phase /\ retained' = retained
  <2>1. IInv' /\ Accounted'
    BY <1>1, <1>2, NextIInv, NextAccounted
  <2>2. Offer' = Offer /\ HeldCandidates' = HeldCandidates /\ Incoming' = Incoming
    BY <1>2, OfferFrame
  <2>3. Setting'
    BY <1>1, <1>2, SettingFrame DEF Setting, ClaimsType
  <2>4. incumbent_capacity' = incumbent_capacity
    BY <1>2, <2>2 DEF incumbent_capacity, SaturatingSub
  <2> QED
    BY <1>1, <1>2, <2>1, <2>2, <2>3, <2>4 DEF vars, Asked, EntriesOffered, Rejected
<1>3. CASE Next /\ stage \in {"offered", "evicting"} /\ UNCHANGED <<evictVars, claims>>
  <2>1. IInv' /\ Accounted'
    BY <1>1, <1>3, NextIInv, NextAccounted
  <2>2. UNCHANGED arguments
    BY <1>3, OutcomeFrame
  <2>3. UNCHANGED <<caller, entries, limit, policy, asking, stage, revisions, claims>>
    BY <1>3 DEF evictVars
  <2>4. Offer' = Offer /\ HeldCandidates' = HeldCandidates /\ Incoming' = Incoming
    BY <2>3, OfferFrame
  <2>5. Setting'
    BY <1>1, <2>3, SettingFrame DEF Setting, ClaimsType
  <2>6. incumbent_capacity' = incumbent_capacity
    BY <2>3, <2>4 DEF incumbent_capacity, SaturatingSub
  <2>7. (Asked => Asked') /\ (EntriesOffered => EntriesOffered')
    BY <2>2, <2>3, <2>4, <2>6 DEF arguments, Asked, EntriesOffered
  <2> QED
    BY <1>1, <1>3, <2>1, <2>3, <2>5, <2>7 DEF EvictInv
<1>4. CASE Revise
  <2>1. /\ stage = "wanted" /\ revisions' = revisions + 1 /\ ReviseClaims
        /\ UNCHANGED <<vars, caller, entries, limit, policy, asking, stage>>
    BY <1>4 DEF Revise
  <2>2. ClaimsType'
    BY <1>1, <2>1, ReviseClaimsType DEF Setting
  <2>3. Setting'
    BY <1>1, <2>1, <2>2, SettingFrame
  <2>4. IInv' /\ Accounted'
    BY <1>1, <2>1, NextIInv, NextAccounted
  <2>5. revisions' \in Nat /\ revisions' # 0
    BY <1>1, <2>1
  <2> QED
    BY <2>1, <2>3, <2>4, <2>5 DEF EvictInv
<1>5. CASE CallerDecides
  <2>1. /\ stage = "offered" /\ phase = "done" /\ displaced' = Rejected
        /\ stage' = IF Incoming \in retained THEN "wanted" ELSE "refused"
        /\ UNCHANGED <<vars, caller, entries, limit, policy, asking, revisions, claims>>
    BY <1>5 DEF CallerDecides
  <2>2. Asked
    BY <2>1 DEF EvictInv
  <2> QED
    BY <1>2, <2>1, <2>2 DEF EvictInv
<1>6. CASE NothingToFree
  BY <1>2, <1>6 DEF NothingToFree, EvictInv
<1>7. CASE select_evictions
  <2>1. /\ stage' = "evicting" /\ Select(HeldCandidates, incumbent_capacity, policy)
        /\ UNCHANGED <<caller, entries, limit, policy, asking, revisions, claims>>
    BY <1>7 DEF select_evictions
  <2>2. /\ HeldCandidates \in Seq(SelectionCandidate) /\ Len(HeldCandidates) <= MaxPool
        /\ incumbent_capacity \in 0..MaxBytes /\ policy \in PassTerms
    BY <1>1, OffersAre, SpaceIs DEF Setting
  <2>3. IInv' /\ Accounted'
    BY <1>1, <2>1, <2>2, SelectFresh
  <2>4. HeldCandidates' = HeldCandidates /\ Incoming' = Incoming
    BY <2>1, OfferFrame
  <2>5. Setting'
    BY <1>1, <2>1, SettingFrame DEF Setting, ClaimsType
  <2>6. incumbent_capacity' = incumbent_capacity
    BY <2>1, <2>4 DEF incumbent_capacity, SaturatingSub
  <2>7. EntriesOffered'
    BY <2>1, <2>4, <2>6 DEF Select, EntriesOffered
  <2> QED
    BY <1>1, <2>1, <2>3, <2>5, <2>7 DEF EvictInv
<1>8. CASE Admit
  BY <1>2, <1>8 DEF Admit, EvictInv
<1>9. CASE UNCHANGED <<vars, evictVars, claims>>
  <2>1. UNCHANGED <<vars, caller, entries, limit, policy, asking, stage, displaced, revisions, claims>>
    BY <1>9 DEF evictVars
  <2> QED
    BY <1>2, <2>1 DEF EvictInv
<1> QED
  BY <1>3, <1>4, <1>5, <1>6, <1>7, <1>8, <1>9 DEF EvictionNext

\* Both passes are passes of select_within_capacity, each over what its caller
\* has at hand.
THEOREM EvictInvariance == EvictionSpec => []EvictInv
  BY InitEvictInv, EvictStep, PTL DEF EvictionSpec

\* Functions that agree on a set have the same sum there.
LEMMA SameSum ==
    ASSUME NEW f, NEW g, NEW S, \A x \in S : f[x] = g[x]
    PROVE  SumOver(f, S) = SumOver(g, S)
<1>1. Units(f, S) = Units(g, S)
  BY DEF Units
<1> QED
  BY <1>1 DEF SumOver

\* What the candidates weigh is what the entries weigh.
LEMMA Weights ==
    ASSUME Setting, TypeOK, pool = Offer \/ pool = HeldCandidates
    PROVE  /\ Positions \subseteq 1..Incoming /\ Held \subseteq Positions
           /\ \A e \in Positions : /\ pool[e].size_bytes = entries[e].size
                                   /\ pool[e].pinned = entries[e].pinned
           /\ \A S \in SUBSET Positions : Bytes(S) = EntryBytes(S)
<1>1. /\ DOMAIN Offer = 1..Incoming /\ DOMAIN HeldCandidates = Held
      /\ Held \subseteq 1..Incoming
  BY OffersAre
<1>2. Positions \subseteq 1..Incoming /\ Held \subseteq Positions
  BY <1>1 DEF Positions
<1>3. ASSUME NEW e \in Positions
      PROVE  pool[e].size_bytes = entries[e].size /\ pool[e].pinned = entries[e].pinned
  <2>1. e \in 1..Incoming
    BY <1>2
  <2>2. pool[e] \in {candidate(e, TRUE), candidate(e, FALSE)}
    BY <1>1, <2>1 DEF Positions, Offer, HeldCandidates
  <2> QED
    BY <2>1, <2>2, CandidateIs
<1>4. ASSUME NEW S \in SUBSET Positions PROVE Bytes(S) = EntryBytes(S)
  <2>1. \A e \in S : e \in DOMAIN entries
    BY <1>2 DEF Setting, Incoming
  <2>2. \A e \in S : Sizes[e] = [d \in DOMAIN entries |-> entries[d].size][e]
    BY <1>3, <2>1 DEF Sizes
  <2> QED
    BY <2>2, SameSum DEF Bytes, EntryBytes
<1> QED
  BY <1>2, <1>3, <1>4

\* What the policy's pass has decided, as the cache sees it.
LEMMA PolicyDecides ==
    ASSUME EvictInv, Admit
    PROVE  /\ Outcome(retained) /\ Positions = Held /\ EntryPins = Pins
           /\ victims' = Held \ retained /\ Kept' = retained
           /\ EntryBytes(retained) = Bytes(retained)
           /\ capacity = limit - entries[Incoming].size
           /\ limit \in Nat /\ entries[Incoming].size \in Nat /\ Bytes(retained) \in Nat
           /\ \A e \in Held : /\ pool[e].size_bytes = entries[e].size
                              /\ entries[e].size \in Nat
           /\ Incoming' = Incoming /\ EntryPins' = EntryPins
           /\ \A S : EntryBytes(S)' = EntryBytes(S)
           /\ UNCHANGED <<caller, entries, limit, policy, asking, displaced, revisions, claims>>
<1>1. /\ stage = "evicting" /\ phase = "done" /\ victims' = Rejected
      /\ UNCHANGED <<caller, entries, limit, policy, asking, displaced, revisions, claims>>
  BY DEF Admit
<1>2. Setting /\ IInv /\ TypeOK /\ Accounted /\ EntriesOffered
  BY <1>1 DEF EvictInv, IInv
<1>3. Outcome(retained) /\ Rejected = Positions \ retained
  BY <1>1, <1>2, DoneOutcome
<1>4. pool = HeldCandidates /\ Positions = Held
  BY <1>2, OffersAre DEF EntriesOffered, Positions
<1>5. /\ \A e \in Held : /\ pool[e].size_bytes = entries[e].size
                         /\ pool[e].pinned = entries[e].pinned
      /\ \A S \in SUBSET Positions : Bytes(S) = EntryBytes(S)
  BY <1>2, <1>4, Weights
<1>6. EntryPins = Pins
  BY <1>4, <1>5 DEF EntryPins, Pins
<1>7. Incoming' = Incoming /\ Held' = Held /\ EntryPins' = EntryPins
      /\ \A S : EntryBytes(S)' = EntryBytes(S)
  BY <1>1, OfferFrame
<1>8. retained \in SUBSET Positions
  BY <1>3 DEF Outcome
<1>9. victims' = Held \ retained /\ Kept' = retained
  BY <1>1, <1>3, <1>4, <1>7, <1>8 DEF Kept
<1>10. capacity = limit - entries[Incoming].size /\ limit \in Nat /\ entries[Incoming].size \in Nat
  BY <1>2, SpaceIs DEF EntriesOffered
<1>11. Bytes(retained) \in Nat
  BY <1>2, <1>8, BytesOf
<1>12. \A e \in Held : entries[e].size \in Nat
  <2>1. \A e \in Positions : pool[e].size_bytes \in Nat
    BY <1>2, CandidateParts, SelectionAssumption
  <2> QED
    BY <1>4, <1>5, <2>1
<1> QED
  BY <1>1, <1>3, <1>4, <1>5, <1>6, <1>7, <1>8, <1>9, <1>10, <1>11, <1>12

\* A capsule that is in, or was refused, changes nothing any more.
LEMMA DecidedStays ==
    ASSUME EvictInv, [EvictionNext]_<<vars, evictVars, claims>>, stage' = "admitted",
           ~NothingToFree, ~Admit
    PROVE  /\ stage = "admitted"
           /\ UNCHANGED <<caller, entries, limit, policy, asking, displaced, victims, revisions, claims>>
  BY DEF EvictionNext, Next, Revise, CallerDecides, select_evictions, evictVars

\* No victim could be put back, whatever the sources did between the passes.
THEOREM NoVictimInVain == EvictionSpec => []NoNeedlessVictim
<1>1. EvictionInit => NoNeedlessVictim
  BY DEF EvictionInit, NoNeedlessVictim
<1>2. ASSUME EvictInv, NoNeedlessVictim, [EvictionNext]_<<vars, evictVars, claims>>
      PROVE  NoNeedlessVictim'
  <2>1. CASE NothingToFree
    BY <2>1 DEF NothingToFree, NoNeedlessVictim
  <2>2. CASE Admit
    <3>1. /\ Outcome(retained) /\ Positions = Held
          /\ victims' = Held \ retained /\ Kept' = retained
          /\ EntryBytes(retained) = Bytes(retained)
          /\ capacity = limit - entries[Incoming].size
          /\ limit \in Nat /\ entries[Incoming].size \in Nat /\ Bytes(retained) \in Nat
          /\ \A e \in Held : pool[e].size_bytes = entries[e].size /\ entries[e].size \in Nat
          /\ Incoming' = Incoming /\ entries' = entries /\ limit' = limit
          /\ \A S : EntryBytes(S)' = EntryBytes(S)
      BY <1>2, <2>2, PolicyDecides
    <3>2. ASSUME NEW e \in Held \ retained
          PROVE  Bytes(retained) + entries[e].size + entries[Incoming].size > limit
      <4>1. Bytes(NotBelow(e, retained)) + entries[e].size > capacity
        BY <3>1, <3>2 DEF Outcome
      <4>2. Bytes(NotBelow(e, retained)) \in Nat /\ Bytes(NotBelow(e, retained)) <= Bytes(retained)
        <5>1. retained \in SUBSET Positions /\ NotBelow(e, retained) \in SUBSET retained
          BY <3>1 DEF Outcome, NotBelow
        <5> QED
          BY <1>2, <5>1, BytesOf DEF EvictInv, IInv
      <4> QED
        BY <3>1, <4>1, <4>2
    <3>3. EntryBytes(Kept)' = Bytes(retained)
      <4>1. EntryBytes(Kept)' = EntryBytes(retained)
        BY <3>1 DEF EntryBytes
      <4> QED
        BY <3>1, <4>1
    <3> QED
      BY <3>1, <3>2, <3>3 DEF NoNeedlessVictim
  <2>3. CASE ~NothingToFree /\ ~Admit /\ stage' = "admitted"
    <3>1. /\ stage = "admitted"
          /\ UNCHANGED <<caller, entries, limit, policy, asking, displaced, victims, revisions, claims>>
      BY <1>2, <2>3, DecidedStays
    <3>2. Incoming' = Incoming /\ Kept' = Kept /\ \A S : EntryBytes(S)' = EntryBytes(S)
      BY <3>1, OfferFrame DEF Kept
    <3>3. EntryBytes(Kept)' = EntryBytes(Kept)
      BY <3>1, <3>2 DEF EntryBytes
    <3> QED
      BY <1>2, <3>1, <3>2, <3>3 DEF NoNeedlessVictim
  <2>4. CASE stage' # "admitted"
    BY <2>4 DEF NoNeedlessVictim
  <2> QED
    BY <2>1, <2>2, <2>3, <2>4
<1>3. EvictInv /\ NoNeedlessVictim /\ [EvictionNext]_<<vars, evictVars, claims>>
        => NoNeedlessVictim'
  BY <1>2
<1> QED
  BY <1>1, <1>3, EvictInvariance, PTL DEF EvictionSpec

\* Whatever the sources claim, revise, drop or lose, a store is worth what the
\* top tier still claimed says, and a promotion survives another's lapse.
THEOREM ClaimsDoCompose == EvictionSpec => ClaimsCompose
<1>1. EvictInv => ScoreOfWinningTier
  BY ScoreIsOfWinningTier DEF EvictInv, Setting
<1>2. EvictInv => ClaimsType
  BY DEF EvictInv, Setting
<1>3. ClaimsType =>
        [\A s \in Sources, store \in Stores :
            /\ claims[s][store] # {}
            /\ claims' = [claims EXCEPT ![s][store] = {}]
            /\ \E other \in Sources \ {s} :
                  \E c \in claims[other][store] : c.tier = Facts(store).tier
            => /\ Facts(store)'.tier = Facts(store).tier
               /\ \/ Facts(store)'.score = NegInf
                  \/ [tier |-> Facts(store)'.tier, score |-> Facts(store)'.score]
                        \in Claimed(store)']_claims
  BY LapseLeaves, EvictionAssumption
<1> QED
  BY <1>1, <1>2, <1>3, EvictInvariance, PTL DEF ClaimsCompose, PromotionSurvivesLapse

-----------------------------------------------------------------------------
(* The two passes against each other *)

\* No cache is as large as a u64 can say.
BelowMax == \A bytes \in Capacities : bytes < MaxBytes

\* Of the entries of a tier and size, those of S have the higher scores once
\* the margin is added: incumbents contest among themselves like that.
InOrder(S, terms) ==
    \A c \in Held \ S, d \in S \ EntryPins :
        Facts(c).tier = Facts(d).tier /\ entries[c].size = entries[d].size
        => Add(Facts(c).score, terms.margin) <= Add(Facts(d).score, terms.margin)

\* With the sources of one mind, what the caller's pass left in the cache fills
\* the space of the policy's pass, in the order of the caller's margin; under
\* the same terms it is what that pass will come to.  The ranks of what it
\* turned out, of a cache within its limit, are no higher than the capsule's.
Carried ==
    stage = "evicting" /\ caller = "asks" /\ revisions = 0 =>
        \E R \in SUBSET Held :
            /\ displaced = Held \ R
            /\ Filled(R) /\ InOrder(R, asking)
            /\ asking = policy => Outcome(R)

NoneAbove ==
    /\ stage \in {"wanted", "evicting", "admitted"}
    /\ caller = "asks"
    /\ revisions = 0
    /\ EntryBytes(Held) <= limit
    => \A e \in displaced : rank(Offer[e].tier) <= rank(Offer[Incoming].tier)

\* What is turned out or evicted was on offer.
AmongOffered ==
    /\ displaced \subseteq 1..Incoming
    /\ stage = "admitted" => victims \subseteq Held

SeamInv == Carried /\ NoneAbove /\ SeamAgrees /\ RoomForIncoming /\ AmongOffered

\* An outcome has the entries it keeps in the order of its margin, in a pass
\* with the capsule or without.
LEMMA OutcomeInOrder ==
    ASSUME Setting, TypeOK, pool = Offer \/ pool = HeldCandidates,
           NEW R, Outcome(R), NEW terms \in PassTerms, margin = terms.margin
    PROVE  InOrder(R \cap Held, terms)
<1> SUFFICES ASSUME NEW c \in Held \ R, NEW d \in (R \cap Held) \ EntryPins,
                    Facts(c).tier = Facts(d).tier, entries[c].size = entries[d].size
             PROVE  Add(Facts(c).score, terms.margin) <= Add(Facts(d).score, terms.margin)
  BY DEF InOrder
<1>1. /\ Held \subseteq Positions /\ Held \subseteq 1..Incoming
      /\ \A e \in Positions : pool[e].size_bytes = entries[e].size /\ pool[e].pinned = entries[e].pinned
  BY Weights, OffersAre
<1>2. ASSUME NEW e \in Held
      PROVE  /\ pool[e].tier = Facts(e).tier /\ contested_score(e) = Add(Facts(e).score, terms.margin)
             /\ contested_score(e) \in Int
  <2>1. e \in 1..Incoming /\ e # Incoming /\ e \in Positions
    BY <1>1, OffersAre
  <2>2. pool[e] = candidate(e, TRUE)
    <3>1. CASE pool = Offer
      <4>1. pool[e] = candidate(e, e # Incoming)
        BY <2>1, <3>1 DEF Offer
      <4> QED
        BY <2>1, <4>1 DEF candidate
    <3>2. CASE pool = HeldCandidates
      BY <3>2 DEF HeldCandidates
    <3> QED
      BY <3>1, <3>2
  <2>3. pool[e].tier = Facts(e).tier /\ pool[e].score = Facts(e).score /\ pool[e].resident = TRUE
    BY <2>2 DEF candidate
  <2>4. contested_score(e) \in Int
    BY <2>1, ContestedBounds
  <2> QED
    BY <2>3, <2>4 DEF contested_score
<1>3. d \notin Pins /\ c \in Positions \ R
  BY <1>1 DEF EntryPins, Pins
<1>4. Ahead(d, c)
  BY <1>2, <1>3 DEF Outcome
<1>5. pool[d].size_bytes = pool[c].size_bytes /\ pool[d].size_bytes \in Int
  <2>1. d \in Positions /\ pool[d].size_bytes \in 0..MaxBytes
    BY <1>1, CandidateParts
  <2> QED
    BY <1>1, <1>3, <2>1
<1> DEFINE a == contested_score(c)
           b == contested_score(d)
<1>6. b > a \/ b = a
  BY <1>4, <1>5 DEF Ahead
<1>7. a \in Int /\ b \in Int /\ a = Add(Facts(c).score, terms.margin)
      /\ b = Add(Facts(d).score, terms.margin)
  BY <1>2
<1> HIDE DEF a, b
<1> QED
  BY <1>6, <1>7

\* Two passes that fill the same space, each in the order of its own margin,
\* turn out as many entries of every tier and size, and where they part, they
\* part in size by nothing and in score by what one of the margins rounds away.
LEMMA PassesPart ==
    ASSUME Setting, TypeOK, pool = HeldCandidates, capacity < MaxBytes,
           NEW R \in SUBSET Held, Filled(R), InOrder(R, asking),
           NEW Q \in SUBSET Held, Filled(Q), InOrder(Q, policy)
    PROVE  /\ \A tier \in CacheTier : \A size :
                 Cardinality(Alike(Held \ Q, tier, size)) = Cardinality(Alike(Held \ R, tier, size))
           /\ \A e \in R \ Q, d \in Q \ R :
                 Facts(e).tier = Facts(d).tier
                 => entries[e].size = entries[d].size /\ Tied(e, d)
<1>1. /\ Positions = Held /\ EntryPins = Pins
      /\ \A e \in Held : /\ pool[e].size_bytes = entries[e].size /\ entries[e].size \in Nat
                         /\ pool[e].tier = Facts(e).tier /\ Facts(e).score \in Score
  <2>1. Positions = Held /\ Held \subseteq 1..Incoming
    BY OffersAre DEF Positions
  <2>2. \A e \in Held : pool[e].size_bytes = entries[e].size /\ pool[e].pinned = entries[e].pinned
    BY <2>1, Weights
  <2>3. \A e \in Held : pool[e].tier = Facts(e).tier /\ pool[e].score = Facts(e).score
    BY DEF HeldCandidates, candidate
  <2>4. \A e \in Positions : pool[e].size_bytes \in 0..MaxBytes /\ pool[e].score \in Score
    BY CandidateParts
  <2>5. \A e \in Held : entries[e].size \in Nat
    BY <2>1, <2>2, <2>4, SelectionAssumption
  <2> QED
    BY <2>1, <2>2, <2>3, <2>4, <2>5 DEF EntryPins, Pins
<1>2. Pins \subseteq R /\ Pins \subseteq Q
  BY DEF Filled
<1>3. ASSUME NEW e \in R \ Q, NEW d \in Q \ R, Facts(e).tier = Facts(d).tier
      PROVE  entries[e].size = entries[d].size /\ Tied(e, d)
  <2>1. e \in Held /\ d \in Held /\ e \notin Pins /\ d \notin Pins
    BY <1>2
  <2>2. pool[e].size_bytes <= pool[d].size_bytes /\ pool[d].size_bytes <= pool[e].size_bytes
    BY <1>1, <1>3, <2>1 DEF Filled
  <2>3. entries[e].size = entries[d].size
    BY <1>1, <2>1, <2>2
  <2> DEFINE plus(x, terms) == Add(Facts(x).score, terms.margin)
  <2>4. plus(d, asking) <= plus(e, asking) /\ plus(e, policy) <= plus(d, policy)
    BY <1>1, <1>3, <2>1, <2>3 DEF InOrder
  <2>5. /\ Facts(e).score \in Score /\ Facts(d).score \in Score
        /\ asking.margin \in Representable /\ policy.margin \in Representable
    BY <1>1, <2>1 DEF Setting, PassTerms
  <2>6. \A terms \in {asking, policy} :
           /\ plus(e, terms) \in Int /\ plus(d, terms) \in Int
           /\ Facts(e).score <= Facts(d).score => plus(e, terms) <= plus(d, terms)
           /\ Facts(d).score <= Facts(e).score => plus(d, terms) <= plus(e, terms)
    BY <2>5, AddGrows, AddMonotone
  <2>7. Facts(e).score \in Int /\ Facts(d).score \in Int
    BY <2>5, AddGrows
  <2> HIDE DEF plus
  <2>8. \E terms \in {asking, policy} : plus(e, terms) = plus(d, terms)
    BY <2>4, <2>6, <2>7
  <2> QED
    BY <2>3, <2>8 DEF Tied, plus
<1>4. ASSUME NEW tier \in CacheTier, NEW size
      PROVE  Cardinality(Alike(Held \ Q, tier, size)) = Cardinality(Alike(Held \ R, tier, size))
  <2> DEFINE whole == OfTier(Held, tier)
             Out(S) == {e \in Held \ S : Facts(e).tier = tier}
             sizes == [e \in Held |-> entries[e].size]
  <2>1. ASSUME NEW S \in SUBSET Held, Pins \subseteq S
        PROVE  /\ IsFiniteSet(Out(S)) /\ Cardinality(Out(S)) \in Nat
               /\ Cardinality(Out(S)) = Cardinality(whole) - Cardinality(OfTier(S, tier))
    <3>1. /\ Out(S) = whole \ OfTier(S, tier)
          /\ whole \cap OfTier(S, tier) = OfTier(S, tier)
      BY <1>1, <2>1 DEF OfTier
    <3>2. IsFiniteSet(whole)
      BY <1>1, MirrorsOf
    <3>3. /\ IsFiniteSet(whole \ OfTier(S, tier))
          /\ Cardinality(whole \ OfTier(S, tier))
                = Cardinality(whole) - Cardinality(whole \cap OfTier(S, tier))
      BY <3>2, FS_Difference
    <3> QED
      BY <3>1, <3>3, FS_CardinalityType
  <2>2. Cardinality(OfTier(R, tier)) = Cardinality(OfTier(Q, tier))
    BY FilledAlike
  <2>3. Cardinality(Out(Q)) = Cardinality(Out(R)) /\ IsFiniteSet(Out(Q)) /\ IsFiniteSet(Out(R))
    BY <1>2, <2>1, <2>2
  <2>4. \A x \in Out(Q) \ Out(R), y \in Out(R) \ Out(Q) : sizes[x] = sizes[y]
    <3> SUFFICES ASSUME NEW x \in Out(Q) \ Out(R), NEW y \in Out(R) \ Out(Q)
                 PROVE  sizes[x] = sizes[y]
      OBVIOUS
    <3>1. x \in R \ Q /\ y \in Q \ R /\ Facts(x).tier = Facts(y).tier
      OBVIOUS
    <3> QED
      BY <1>3, <3>1
  <2>5. \A S : Alike(Held \ S, tier, size) = OfValue(Out(S), sizes, size)
    BY DEF Alike, OfValue
  <2> HIDE DEF Out, sizes
  <2>6. Cardinality(OfValue(Out(Q), sizes, size)) = Cardinality(OfValue(Out(R), sizes, size))
    BY <2>3, <2>4, OneValueApart
  <2> QED
    BY <2>5, <2>6
<1> QED
  BY <1>3, <1>4

\* What the caller's pass has decided, as the cache sees it.
LEMMA CallerHas ==
    ASSUME EvictInv, Asked, phase = "done"
    PROVE  /\ TypeOK /\ Setting /\ Outcome(retained) /\ Rejected = Positions \ retained
           /\ Positions = 1..Incoming /\ Held = Positions \ {Incoming}
           /\ Incoming \in Positions \ Pins
           /\ EntryBytes(Held) = Bytes(Held)
           /\ Bytes(Positions) = Bytes(Held) + entries[Incoming].size
           /\ limit \in Nat /\ entries[Incoming].size \in Nat
           /\ \A e \in Positions : pool[e].size_bytes \in Nat
<1>1. TypeOK /\ Setting /\ IInv /\ Accounted
  BY DEF EvictInv, IInv
<1>2. Outcome(retained) /\ Rejected = Positions \ retained
  BY <1>1, DoneOutcome
<1>3. Positions = 1..Incoming /\ Held = Positions \ {Incoming}
  BY <1>1, OffersAre DEF Asked, Positions
<1>4. /\ \A e \in Positions : pool[e].size_bytes = entries[e].size /\ pool[e].pinned = entries[e].pinned
      /\ \A S \in SUBSET Positions : Bytes(S) = EntryBytes(S)
  BY <1>1, Weights DEF Asked
<1>5. Incoming \in Positions /\ ~entries[Incoming].pinned
  BY <1>1, <1>3 DEF Setting
<1>6. Incoming \in Positions \ Pins
  BY <1>4, <1>5 DEF Pins
<1>7. EntryBytes(Held) = Bytes(Held)
  BY <1>3, <1>4
<1>8. Bytes(Positions) = Bytes(Held) + entries[Incoming].size
  <2>1. Held \in SUBSET Positions /\ Incoming \in Positions \ Held
        /\ Held \cup {Incoming} = Positions
    BY <1>3, <1>5
  <2> QED
    BY <1>1, <1>4, <1>5, <2>1, BytesOf
<1>9. \A e \in Positions : pool[e].size_bytes \in Nat
  BY <1>1, CandidateParts, SelectionAssumption
<1>10. limit \in Nat /\ entries[Incoming].size \in Nat
  BY <1>1, SpaceIs
<1> QED
  BY <1>1, <1>2, <1>3, <1>6, <1>7, <1>8, <1>9, <1>10

\* A reject of the caller's pass does not fit with what goes before it; none
\* of those is the reject.
LEMMA RejectDoesNotFit ==
    ASSUME EvictInv, Asked, phase = "done", NEW e \in Rejected,
           NEW S \in SUBSET Positions, NotBelow(e, retained) \cup {e} \subseteq S
    PROVE  Bytes(S) \in Nat /\ Bytes(S) > limit
<1>1. /\ TypeOK /\ Outcome(retained) /\ e \in Positions \ retained
      /\ pool[e].size_bytes \in Nat /\ limit \in Nat
  BY CallerHas
<1>2. Bytes(NotBelow(e, retained)) + pool[e].size_bytes > limit
  BY <1>1 DEF Outcome, Asked
<1>3. /\ NotBelow(e, retained) \in SUBSET Positions /\ e \in Positions \ NotBelow(e, retained)
      /\ NotBelow(e, retained) \cup {e} \in SUBSET S
  BY <1>1 DEF NotBelow, Outcome
<1>4. /\ Bytes(NotBelow(e, retained) \cup {e}) = Bytes(NotBelow(e, retained)) + pool[e].size_bytes
      /\ Bytes(NotBelow(e, retained)) \in Nat
  BY <1>1, <1>3, BytesOf
<1>5. Bytes(NotBelow(e, retained) \cup {e}) <= Bytes(S) /\ Bytes(S) \in Nat
  BY <1>1, <1>3, BytesOf
<1> QED
  BY <1>1, <1>2, <1>4, <1>5

\* A reject above the capsule is turned away by entries alone, and they weigh
\* more than the limit.
LEMMA RejectsAreNotAbove ==
    ASSUME EvictInv, Asked, phase = "done", EntryBytes(Held) <= limit
    PROVE  \A e \in Rejected \ {Incoming} : rank(Offer[e].tier) <= rank(Offer[Incoming].tier)
<1> SUFFICES ASSUME NEW e \in Rejected, e # Incoming,
                    ~(rank(Offer[e].tier) <= rank(Offer[Incoming].tier))
             PROVE  FALSE
  OBVIOUS
<1>1. /\ TypeOK /\ Outcome(retained) /\ e \in Positions \ retained
      /\ Held = Positions \ {Incoming} /\ Incoming \in Positions \ Pins
      /\ EntryBytes(Held) = Bytes(Held) /\ limit \in Nat
  BY CallerHas
<1>2. rank(pool[e].tier) \in 0..2 /\ rank(pool[Incoming].tier) \in 0..2
  BY <1>1, CandidateParts, RankType
<1>3. ~(rank(pool[Incoming].tier) >= rank(pool[e].tier))
  BY <1>2 DEF Asked
<1>4. Incoming \notin NotBelow(e, retained)
  BY <1>1, <1>3 DEF NotBelow
<1>5. Held \in SUBSET Positions /\ NotBelow(e, retained) \cup {e} \subseteq Held
  BY <1>1, <1>4 DEF NotBelow, Outcome
<1>6. Bytes(Held) \in Nat /\ Bytes(Held) > limit
  BY <1>5, RejectDoesNotFit
<1> QED
  BY <1>1, <1>6

\* With nothing to free the caller's pass has turned nothing out.
LEMMA NothingTurnedOut ==
    ASSUME EvictInv, Asked, phase = "done", bytes_to_free = 0
    PROVE  /\ EntryBytes(Held) + entries[Incoming].size <= limit
           /\ Rejected = {}
<1>1. /\ TypeOK /\ Outcome(retained) /\ Rejected = Positions \ retained
      /\ EntryBytes(Held) = Bytes(Held) /\ limit \in Nat /\ entries[Incoming].size \in Nat
      /\ Bytes(Positions) = Bytes(Held) + entries[Incoming].size
      /\ Held = Positions \ {Incoming}
  BY CallerHas
<1>2. Bytes(Held) \in Nat
  <2>1. Held \in SUBSET Positions
    BY <1>1
  <2> QED
    BY <1>1, <2>1, BytesOf
<1>3. Bytes(Held) + entries[Incoming].size <= limit
  BY <1>1, <1>2 DEF bytes_to_free, SaturatingSub
<1>4. ASSUME NEW e \in Rejected PROVE FALSE
  <2>1. NotBelow(e, retained) \cup {e} \subseteq Positions
    BY <1>1 DEF NotBelow, Outcome
  <2>2. Bytes(Positions) > limit
    BY <2>1, RejectDoesNotFit
  <2> QED
    BY <1>1, <1>2, <1>3, <2>2
<1> QED
  BY <1>1, <1>3, <1>4

\* Once the capsule is set aside, what the caller's pass retained besides it
\* is what selecting the entries into the space it leaves comes to: what fits
\* with the capsule of a tier no lower fits without it in less, and what is of
\* a higher tier goes before the capsule, which fits with all of it.
LEMMA SeamCarries ==
    ASSUME BelowMax, EvictInv, Asked, phase = "done", Incoming \in retained,
           select_evictions, NEW R, R = retained \ {Incoming}
    PROVE  Filled(R)' /\ (asking = policy => Outcome(R)')
<1> DEFINE n == Incoming
           size == entries[Incoming].size
<1>1. /\ TypeOK /\ Setting /\ Outcome(retained) /\ Rejected = Positions \ retained
      /\ Held = Positions \ {n} /\ n \in Positions \ Pins
      /\ limit \in Nat /\ size \in Nat
      /\ \A e \in Positions : pool[e].size_bytes \in Nat
  BY CallerHas
<1>2. /\ pool' = HeldCandidates /\ capacity' = limit - size
      /\ asking = policy => shuffle' = shuffle /\ margin' = margin
  BY <1>1, SpaceIs DEF select_evictions, Select, Asked
<1>3. pool = Offer /\ capacity = limit /\ limit < MaxBytes /\ MaxBytes \in Nat
  BY <1>1, SelectionAssumption DEF Asked, Setting, BelowMax
<1>4. Positions' = Held
  BY <1>1, <1>2, OffersAre DEF Positions
<1>5. ASSUME NEW e \in Held
      PROVE  /\ pool'[e] = pool[e]
             /\ e \in Positions /\ e # n /\ pool[e].size_bytes = entries[e].size
  <2>1. e \in 1..Incoming /\ e # Incoming /\ e \in Positions
    BY <1>1, OffersAre
  <2>2. pool'[e] = candidate(e, TRUE) /\ pool[e] = candidate(e, e # Incoming)
    BY <1>2, <1>3, <2>1 DEF HeldCandidates, Offer
  <2>3. pool[e] = pool'[e]
    BY <2>1, <2>2 DEF candidate
  <2>4. pool[e].size_bytes = entries[e].size
    BY <2>2, <2>3 DEF candidate
  <2> QED
    BY <2>1, <2>3, <2>4
<1>6. pool[n].size_bytes = size
  BY <1>1, <1>3, Weights
<1>7. Pins' = Pins
  BY <1>1, <1>4, <1>5 DEF Pins
<1>8. asking = policy => \A d, c \in Held : Ahead(d, c)' <=> Ahead(d, c)
  BY <1>2, <1>5 DEF Ahead, contested_score
<1>9. ASSUME NEW S \in SUBSET Held PROVE Bytes(S)' = Bytes(S)
  <2>1. \A e \in S : Sizes'[e] = Sizes[e]
    BY <1>1, <1>4, <1>5 DEF Sizes
  <2>2. SumOver(Sizes', S) = SumOver(Sizes, S)
    BY <2>1, SameSum
  <2> QED
    BY <2>2 DEF Bytes
<1>10. ASSUME NEW e \in Held
       PROVE  /\ NotBelow(e, R)' = NotBelow(e, R)
              /\ NotBelow(e, R) \in SUBSET (Positions \ {n})
              /\ Bytes(NotBelow(e, R))' = Bytes(NotBelow(e, R))
              /\ Bytes(NotBelow(e, R)) \in Nat
              /\ Bytes(NotBelow(e, R) \cup {n}) = Bytes(NotBelow(e, R)) + size
  <2>1. R \subseteq Held
    BY <1>1 DEF Outcome
  <2>2. NotBelow(e, R)' = NotBelow(e, R)
    BY <1>5, <1>7, <2>1 DEF NotBelow
  <2>3. NotBelow(e, R) \in SUBSET Held /\ NotBelow(e, R) \in SUBSET Positions
        /\ n \in Positions \ NotBelow(e, R)
    BY <1>1, <2>1 DEF NotBelow
  <2>4. Bytes(NotBelow(e, R))' = Bytes(NotBelow(e, R))
    BY <1>9, <2>2, <2>3 DEF Bytes
  <2>5. /\ Bytes(NotBelow(e, R)) \in Nat
        /\ Bytes(NotBelow(e, R) \cup {n}) = Bytes(NotBelow(e, R)) + size
    BY <1>1, <1>6, <2>3, BytesOf
  <2> QED
    BY <1>1, <2>2, <2>3, <2>4, <2>5
<1>11. \A e \in Positions : rank(pool[e].tier) \in 0..2
  BY <1>1, CandidateParts, RankType
<1>12. ASSUME NEW x \in retained \ Pins PROVE Bytes(NotBelow(x, retained)) <= limit
  BY <1>1, <1>3, <1>12 DEF Outcome
<1>13. ASSUME NEW S, NEW x, S \subseteq NotBelow(x, retained)
       PROVE  Bytes(S) <= Bytes(NotBelow(x, retained)) /\ Bytes(NotBelow(x, retained)) \in Nat
  <2>1. NotBelow(x, retained) \in SUBSET Positions /\ S \in SUBSET NotBelow(x, retained)
    BY <1>1, <1>13 DEF NotBelow, Outcome
  <2> QED
    BY <1>1, <2>1, BytesOf
<1>14. Pins' \subseteq R /\ R \subseteq Positions'
  BY <1>1, <1>4, <1>7 DEF Outcome
<1>15. /\ \A c \in Positions' \ R, d \in R \ Pins' :
             pool'[c].tier = pool'[d].tier => pool'[d].size_bytes <= pool'[c].size_bytes
       /\ asking = policy => \A c \in Positions' \ R, d \in R \ Pins' :
             pool'[c].tier = pool'[d].tier => Ahead(d, c)'
  <2> SUFFICES ASSUME NEW c \in Positions' \ R, NEW d \in R \ Pins',
                      pool'[c].tier = pool'[d].tier
               PROVE  /\ pool'[d].size_bytes <= pool'[c].size_bytes
                      /\ asking = policy => Ahead(d, c)'
    OBVIOUS
  <2>1. /\ c \in Held /\ d \in Held /\ c \in Positions \ retained /\ d \in retained \ Pins
        /\ pool'[c] = pool[c] /\ pool'[d] = pool[d]
    BY <1>1, <1>4, <1>5, <1>7, <1>14
  <2>2. Filled(retained)
    BY <1>1, OutcomeFills
  <2>3. pool[d].size_bytes <= pool[c].size_bytes
    BY <2>1, <2>2 DEF Filled
  <2>4. Ahead(d, c)
    BY <1>1, <2>1 DEF Outcome
  <2> QED
    BY <1>8, <2>1, <2>3, <2>4
<1>16. ASSUME NEW c \in Positions' \ R
       PROVE  Bytes(NotBelow(c, R))' + pool'[c].size_bytes > capacity'
  <2>1. c \in Held /\ c \in Positions \ retained /\ pool'[c] = pool[c]
        /\ pool[c].size_bytes \in Nat
    BY <1>1, <1>4, <1>5, <1>16
  <2>2. Bytes(NotBelow(c, retained)) + pool[c].size_bytes > limit
    BY <1>1, <1>3, <2>1 DEF Outcome
  <2>3. NotBelow(c, retained) \in {NotBelow(c, R), NotBelow(c, R) \cup {n}}
    BY DEF NotBelow
  <2>4. Bytes(NotBelow(c, retained)) <= Bytes(NotBelow(c, R)) + size
        /\ Bytes(NotBelow(c, R)) \in Nat
    <3>1. /\ Bytes(NotBelow(c, R)) \in Nat
          /\ Bytes(NotBelow(c, R) \cup {n}) = Bytes(NotBelow(c, R)) + size
      BY <1>10, <2>1
    <3>2. CASE NotBelow(c, retained) = NotBelow(c, R)
      BY <1>1, <3>1, <3>2
    <3>3. CASE NotBelow(c, retained) = NotBelow(c, R) \cup {n}
      BY <1>1, <3>1, <3>3
    <3> QED
      BY <2>3, <3>1, <3>2, <3>3
  <2>5. Bytes(NotBelow(c, retained)) \in Nat
    BY <1>13
  <2>6. Bytes(NotBelow(c, R))' = Bytes(NotBelow(c, R))
    BY <1>10, <2>1
  <2> HIDE DEF size
  <2> QED
    BY <1>1, <1>2, <2>1, <2>2, <2>4, <2>5, <2>6
<1>17. ASSUME NEW d \in R \ Pins' PROVE Bytes(NotBelow(d, R))' <= capacity'
  <2>1. d \in Held /\ d \in retained \ Pins /\ n \in retained \ Pins
    BY <1>1, <1>4, <1>7, <1>14, <1>17
  <2>2. \E x \in {d, n} : NotBelow(d, R) \cup {n} \subseteq NotBelow(x, retained)
    <3>1. rank(pool[d].tier) \in 0..2 /\ rank(pool[n].tier) \in 0..2
      BY <1>1, <1>11, <2>1, <1>5
    <3>2. CASE rank(pool[n].tier) >= rank(pool[d].tier)
      BY <2>1, <3>2 DEF NotBelow
    <3>3. CASE rank(pool[n].tier) < rank(pool[d].tier)
      <4>1. ASSUME NEW y \in NotBelow(d, R) PROVE y \in NotBelow(n, retained)
        <5>1. y \in retained /\ y \in Positions
              /\ (y \in Pins \/ rank(pool[y].tier) >= rank(pool[d].tier))
          BY <1>1, <4>1 DEF NotBelow, Outcome
        <5>2. rank(pool[y].tier) \in 0..2
          BY <1>11, <5>1
        <5> QED
          BY <3>1, <3>3, <5>1, <5>2 DEF NotBelow
      <4>2. n \in NotBelow(n, retained)
        BY <2>1, <3>1 DEF NotBelow
      <4> QED
        BY <4>1, <4>2
    <3> QED
      BY <3>1, <3>2, <3>3
  <2>3. Bytes(NotBelow(d, R) \cup {n}) <= limit
    <3>1. PICK x \in {d, n} : NotBelow(d, R) \cup {n} \subseteq NotBelow(x, retained)
      BY <2>2
    <3>2. Bytes(NotBelow(x, retained)) <= limit
      BY <1>12, <2>1
    <3>3. /\ Bytes(NotBelow(d, R) \cup {n}) <= Bytes(NotBelow(x, retained))
          /\ Bytes(NotBelow(x, retained)) \in Nat
      BY <1>13, <3>1
    <3>4. Bytes(NotBelow(d, R) \cup {n}) \in Nat
      <4>1. NotBelow(d, R) \cup {n} \in SUBSET Positions
        BY <1>1, <1>10, <2>1
      <4> QED
        BY <1>1, <4>1, BytesOf
    <3> QED
      BY <1>1, <3>2, <3>3, <3>4
  <2>4. /\ Bytes(NotBelow(d, R))' = Bytes(NotBelow(d, R)) /\ Bytes(NotBelow(d, R)) \in Nat
        /\ Bytes(NotBelow(d, R) \cup {n}) = Bytes(NotBelow(d, R)) + size
    BY <1>10, <2>1
  <2> HIDE DEF size
  <2> QED
    BY <1>1, <1>2, <2>3, <2>4
<1>18. capacity' # MaxBytes
  <2> HIDE DEF size
  <2> QED
    BY <1>1, <1>2, <1>3
<1>19. Filled(R)'
  BY <1>14, <1>15, <1>16, <1>17 DEF Filled
<1> QED
  BY <1>14, <1>15, <1>16, <1>17, <1>18, <1>19 DEF Outcome

\* What names, weighs and ties entries depends on the entries, the sources and
\* the two passes' terms alone.
LEMMA SeamFrame ==
    ASSUME UNCHANGED <<entries, claims, policy, asking>>
    PROVE  /\ \A S, tier, size : Alike(S, tier, size)' = Alike(S, tier, size)
           /\ \A e, d : Tied(e, d)' <=> Tied(e, d)
           /\ \A S, terms : InOrder(S, terms)' <=> InOrder(S, terms)
           /\ \A S : InOrder(S, asking)' <=> InOrder(S, asking)
           /\ \A e : Facts(e)' = Facts(e)
<1>1. \A e : Facts(e)' = Facts(e)
  BY DEF Facts, Claimed
<1>2. Held' = Held /\ EntryPins' = EntryPins
  BY OfferFrame
<1> QED
  BY <1>1, <1>2 DEF Alike, Tied, InOrder

\* The entries, the limit and what was turned out stay, and so does NoneAbove.
LEMMA NoneAboveFrame ==
    ASSUME NoneAbove, UNCHANGED <<caller, entries, limit, policy, asking, displaced, revisions, claims>>,
           stage \in {"wanted", "evicting", "admitted"}
    PROVE  NoneAbove'
<1>1. /\ Offer' = Offer /\ Incoming' = Incoming /\ Held' = Held
      /\ \A S : EntryBytes(S)' = EntryBytes(S)
  BY OfferFrame
<1>2. EntryBytes(Held)' = EntryBytes(Held)
  BY <1>1 DEF EntryBytes
<1>3. UNCHANGED <<caller, limit, displaced, revisions>>
  OBVIOUS
<1> QED
  BY <1>1, <1>2, <1>3 DEF NoneAbove

\* Every step keeps what the second pass owes to the first.
LEMMA SeamStep ==
    ASSUME BelowMax
    PROVE  EvictInv /\ SeamInv /\ [EvictionNext]_<<vars, evictVars, claims>> => SeamInv'
<1> SUFFICES ASSUME EvictInv, SeamInv, [EvictionNext]_<<vars, evictVars, claims>>
             PROVE  SeamInv'
  OBVIOUS
<1>1. Carried /\ NoneAbove /\ SeamAgrees /\ RoomForIncoming /\ AmongOffered
  BY DEF SeamInv
<1>2. revisions \in Nat /\ Setting /\ limit \in Nat /\ entries[Incoming].size \in Nat
  BY SpaceIs DEF EvictInv
<1>3. CASE Next /\ stage \in {"offered", "evicting"} /\ UNCHANGED <<evictVars, claims>>
  <2>1. UNCHANGED <<caller, entries, limit, policy, asking, displaced, revisions, claims, stage>>
    BY <1>3 DEF evictVars
  <2>2. Held' = Held /\ Incoming' = Incoming
    BY <2>1, OfferFrame
  <2>3. /\ \A R : (Outcome(R)' <=> Outcome(R)) /\ (Filled(R)' <=> Filled(R))
        /\ \A R : InOrder(R, asking)' <=> InOrder(R, asking)
    BY <1>3, <2>1, OutcomeFrame, FilledFrame, SeamFrame
  <2>4. Carried'
    BY <1>1, <2>1, <2>2, <2>3 DEF Carried
  <2>5. NoneAbove'
    <3>1. CASE stage = "evicting"
      BY <1>1, <2>1, <3>1, NoneAboveFrame
    <3>2. CASE stage = "offered"
      BY <2>1, <3>2 DEF NoneAbove
    <3> QED
      BY <1>3, <3>1, <3>2
  <2>6. AmongOffered'
    BY <1>1, <1>3, <2>1, <2>2 DEF AmongOffered
  <2> QED
    BY <1>3, <2>1, <2>4, <2>5, <2>6 DEF SeamInv, SeamAgrees, RoomForIncoming
<1>4. CASE Revise
  <2>1. stage' = "wanted" /\ revisions' # 0 /\ UNCHANGED <<entries, displaced>>
    BY <1>2, <1>4 DEF Revise
  <2>2. AmongOffered'
    BY <1>1, <2>1 DEF AmongOffered, Incoming
  <2> QED
    BY <2>1, <2>2 DEF SeamInv, Carried, NoneAbove, SeamAgrees, RoomForIncoming
<1>5. CASE CallerDecides
  <2>1. /\ stage = "offered" /\ phase = "done" /\ displaced' = Rejected
        /\ stage' = IF Incoming \in retained THEN "wanted" ELSE "refused"
        /\ UNCHANGED <<caller, entries, limit, policy, asking, revisions, claims>>
    BY <1>5 DEF CallerDecides
  <2>2. Asked
    BY <2>1 DEF EvictInv
  <2>3. /\ Offer' = Offer /\ Incoming' = Incoming /\ Held' = Held
        /\ \A S : EntryBytes(S)' = EntryBytes(S)
    BY <2>1, OfferFrame
  <2>4. EntryBytes(Held)' = EntryBytes(Held)
    BY <2>3 DEF EntryBytes
  <2>5. NoneAbove'
    <3> SUFFICES ASSUME stage' = "wanted", EntryBytes(Held) <= limit
                 PROVE  \A e \in Rejected : rank(Offer[e].tier) <= rank(Offer[Incoming].tier)
      BY <2>1, <2>3, <2>4 DEF NoneAbove
    <3>1. Incoming \notin Rejected
      BY <2>1, <2>2, CallerHas
    <3> QED
      BY <2>1, <2>2, <3>1, RejectsAreNotAbove
  <2>6. AmongOffered'
    <3>1. Rejected \subseteq 1..Incoming
      BY <2>1, <2>2, CallerHas
    <3> QED
      BY <2>1, <2>3, <3>1 DEF AmongOffered
  <2> QED
    BY <2>1, <2>5, <2>6 DEF SeamInv, Carried, SeamAgrees, RoomForIncoming
<1>6. CASE NothingToFree
  <2>1. /\ stage = "wanted" /\ bytes_to_free = 0 /\ victims' = {} /\ stage' = "admitted"
        /\ UNCHANGED <<caller, entries, limit, policy, asking, displaced, revisions, claims>>
    BY <1>6 DEF NothingToFree
  <2>2. /\ Incoming' = Incoming /\ Held' = Held
        /\ \A S : EntryBytes(S)' = EntryBytes(S)
    BY <2>1, OfferFrame
  <2>3. EntryBytes(Held) + entries[Incoming].size <= limit
    <3>1. EntryBytes(Held) \in Nat
      <4>1. \A e \in Held : [d \in DOMAIN entries |-> entries[d].size][e] \in Nat
        <5> SUFFICES ASSUME NEW e \in Held
                     PROVE  [d \in DOMAIN entries |-> entries[d].size][e] \in Nat
          OBVIOUS
        <5>1. e \in DOMAIN entries
          BY <1>2 DEF Setting, Held, Incoming
        <5>2. entries[e] \in Entry /\ MaxBytes \in Nat
          BY <1>2, <5>1, SelectionAssumption DEF Setting
        <5>3. entries[e].size \in 0..MaxBytes
          BY <5>2, EvictionAssumption DEF Entry
        <5> QED
          BY <5>1, <5>2, <5>3
      <4>2. IsFiniteSet(Held)
        <5>1. Held = 1..(Incoming - 1) /\ Incoming - 1 \in Int /\ 1 \in Int
          BY <1>2, OffersAre DEF Setting
        <5> QED
          BY <5>1, FS_Interval
      <4> QED
        BY <4>1, <4>2, SumOfPart DEF EntryBytes
    <3> HIDE DEF Incoming
    <3> QED
      BY <1>2, <2>1, <3>1 DEF bytes_to_free, SaturatingSub
  <2>4. SeamAgrees'
    <3> SUFFICES ASSUME caller = "asks", revisions = 0 PROVE displaced = {}
      BY <2>1 DEF SeamAgrees
    <3>1. Asked /\ phase = "done" /\ displaced = Rejected
      BY <2>1 DEF EvictInv
    <3> QED
      BY <2>1, <3>1, NothingTurnedOut
  <2>5. AmongOffered'
    BY <1>1, <2>1, <2>2 DEF AmongOffered
  <2>6. RoomForIncoming'
    <3>1. Kept' = Held
      BY <2>1, <2>2 DEF Kept
    <3>2. EntryBytes(Kept)' = EntryBytes(Held)
      BY <2>1, <3>1 DEF EntryBytes
    <3> QED
      BY <2>1, <2>2, <2>3, <3>2 DEF RoomForIncoming
  <2>7. NoneAbove'
    BY <1>1, <2>1, NoneAboveFrame
  <2> QED
    BY <2>1, <2>4, <2>6, <2>7, <2>5 DEF SeamInv, Carried
<1>7. CASE select_evictions
  <2>1. /\ stage = "wanted" /\ stage' = "evicting"
        /\ UNCHANGED <<caller, entries, limit, policy, asking, displaced, revisions, claims>>
    BY <1>7 DEF select_evictions
  <2>2. Carried'
    <3> SUFFICES ASSUME caller = "asks", revisions = 0
                 PROVE  \E R \in SUBSET Held :
                           /\ displaced = Held \ R
                           /\ Filled(R)' /\ InOrder(R, asking)
                           /\ asking = policy => Outcome(R)'
      BY <2>1, OfferFrame, SeamFrame DEF Carried
    <3>1. Asked /\ phase = "done" /\ displaced = Rejected /\ Incoming \in retained
      BY <2>1 DEF EvictInv
    <3>2. /\ Outcome(retained) /\ Rejected = Positions \ retained
          /\ Held = Positions \ {Incoming}
      BY <3>1, CallerHas
    <3>3. PICK R : R = retained \ {Incoming}
      OBVIOUS
    <3>4. R \in SUBSET Held /\ displaced = Held \ R
      BY <3>1, <3>2, <3>3 DEF Outcome
    <3>5. Filled(R)' /\ (asking = policy => Outcome(R)')
      BY <1>7, <3>1, <3>3, SeamCarries
    <3>6. InOrder(R, asking)
      <4>1. R = retained \cap Held
        BY <3>2, <3>3 DEF Outcome
      <4>2. TypeOK /\ asking \in PassTerms
        BY <1>2 DEF EvictInv, IInv, Setting
      <4> QED
        BY <1>2, <3>1, <3>2, <4>1, <4>2, OutcomeInOrder DEF Asked
    <3> QED
      BY <3>4, <3>5, <3>6
  <2>3. NoneAbove'
    BY <1>1, <2>1, NoneAboveFrame
  <2>4. AmongOffered'
    BY <1>1, <2>1 DEF AmongOffered, Incoming
  <2> QED
    BY <2>1, <2>2, <2>3, <2>4 DEF SeamInv, SeamAgrees, RoomForIncoming
<1>8. CASE Admit
  <2>1. stage = "evicting" /\ stage' = "admitted"
    BY <1>8 DEF Admit
  <2>2. /\ Outcome(retained) /\ Positions = Held /\ EntryPins = Pins
        /\ victims' = Held \ retained /\ Kept' = retained
        /\ EntryBytes(retained) = Bytes(retained)
        /\ capacity = limit - entries[Incoming].size /\ Bytes(retained) \in Nat
        /\ Incoming' = Incoming /\ EntryPins' = EntryPins
        /\ \A S : EntryBytes(S)' = EntryBytes(S)
        /\ UNCHANGED <<caller, entries, limit, policy, asking, displaced, revisions, claims>>
    BY <1>8, PolicyDecides
  <2>3. TypeOK
    BY DEF EvictInv, IInv
  <2>4. limit < MaxBytes /\ MaxBytes \in Nat /\ capacity < MaxBytes
    <3>1. limit < MaxBytes /\ MaxBytes \in Nat
      BY <1>2, SelectionAssumption DEF Setting, BelowMax
    <3> HIDE DEF Incoming
    <3> QED
      BY <1>2, <2>2, <3>1
  <2>5. SeamAgrees'
    <3> SUFFICES ASSUME caller = "asks", revisions = 0 PROVE SeamAgrees'
      BY <2>2 DEF SeamAgrees
    <3>1. PICK R \in SUBSET Held :
             /\ displaced = Held \ R
             /\ Filled(R) /\ InOrder(R, asking)
             /\ asking = policy => Outcome(R)
      BY <1>1, <2>1 DEF Carried
    <3>2. EntriesOffered /\ policy \in PassTerms
      BY <1>2, <2>1 DEF EvictInv, Setting
    <3>3. retained \in SUBSET Held /\ Filled(retained) /\ InOrder(retained, policy)
      <4>1. retained \in SUBSET Held /\ retained \cap Held = retained
        BY <2>2 DEF Outcome
      <4> QED
        BY <1>2, <2>2, <2>3, <3>2, <4>1, OutcomeFills, OutcomeInOrder DEF EntriesOffered
    <3>4. /\ \A tier \in CacheTier : \A size :
                Cardinality(Alike(Held \ retained, tier, size))
                  = Cardinality(Alike(Held \ R, tier, size))
          /\ \A e \in R \ retained, d \in retained \ R :
                Facts(e).tier = Facts(d).tier
                => entries[e].size = entries[d].size /\ Tied(e, d)
      BY <1>2, <2>3, <2>4, <3>1, <3>2, <3>3, PassesPart DEF EntriesOffered
    <3>5. asking = policy => retained = R
      BY <2>2, <2>3, <3>1, OutcomeUnique
    <3>6. victims' = Held \ retained /\ displaced' = Held \ R
      BY <2>2, <3>1
    <3>7. /\ \A S, tier, size : Alike(S, tier, size)' = Alike(S, tier, size)
          /\ \A e, d : Tied(e, d)' <=> Tied(e, d)
          /\ \A e : Facts(e)' = Facts(e)
      BY <2>2, SeamFrame
    <3>8. \A tier, size :
             /\ Alike(victims, tier, size)' = Alike(Held \ retained, tier, size)
             /\ Alike(displaced, tier, size)' = Alike(Held \ R, tier, size)
      BY <2>2, <3>6, <3>7 DEF Alike
    <3>9. \A tier \in CacheTier, size \in EntrySizes :
             Cardinality(Alike(victims, tier, size))' = Cardinality(Alike(displaced, tier, size))'
      BY <3>4, <3>8
    <3>10. \A e \in victims' \ displaced', d \in displaced' \ victims' :
              Facts(e)'.tier = Facts(d)'.tier
              => entries'[e].size = entries'[d].size /\ Tied(e, d)'
      <4>1. victims' \ displaced' = R \ retained /\ displaced' \ victims' = retained \ R
        BY <3>1, <3>3, <3>6
      <4> QED
        BY <2>2, <3>4, <3>7, <4>1
    <3>11. asking' = policy' => victims' = displaced'
      BY <2>2, <3>5, <3>6
    <3> QED
      BY <3>9, <3>10, <3>11 DEF SeamAgrees
  <2>6. RoomForIncoming'
    <3>3. retained \in SUBSET Positions /\ Pins \subseteq retained
          /\ \A d \in retained \ Pins : Bytes(NotBelow(d, retained)) <= capacity
      BY <2>2, <2>4 DEF Outcome
    <3>4. Bytes(retained) <= capacity \/ retained = Pins
      BY <2>3, <3>3, LowestFits
    <3>5. EntryBytes(Kept)' = Bytes(retained)
      <4>1. EntryBytes(Kept)' = EntryBytes(retained)
        BY <2>2 DEF EntryBytes
      <4> QED
        BY <2>2, <4>1
    <3>6. victims' \cap EntryPins' = {}
      BY <2>2, <3>3
    <3>7. CASE Bytes(retained) <= capacity
      <4>1. Bytes(retained) + entries[Incoming].size <= limit
        <5> HIDE DEF Incoming
        <5> QED
          BY <1>2, <2>2, <3>7
      <4> QED
        BY <2>2, <3>5, <3>6, <4>1 DEF RoomForIncoming
    <3>8. CASE retained = Pins
      BY <2>2, <3>6, <3>8 DEF RoomForIncoming
    <3> QED
      BY <3>4, <3>7, <3>8
  <2>7. NoneAbove'
    BY <1>1, <2>1, <2>2, NoneAboveFrame
  <2>8. AmongOffered'
    <3>1. Held' = Held
      BY <2>2, OfferFrame
    <3> QED
      BY <1>1, <2>2, <3>1 DEF AmongOffered
  <2> QED
    BY <2>1, <2>5, <2>6, <2>7, <2>8 DEF SeamInv, Carried
<1>9. CASE UNCHANGED <<vars, evictVars, claims>>
  <2>1. UNCHANGED <<caller, entries, limit, policy, asking, stage, displaced, victims, revisions, claims>>
        /\ [Next]_vars
    BY <1>9 DEF evictVars
  <2>2. /\ Held' = Held /\ Incoming' = Incoming /\ EntryPins' = EntryPins
        /\ \A R : (Outcome(R)' <=> Outcome(R)) /\ (Filled(R)' <=> Filled(R))
        /\ \A R : InOrder(R, asking)' <=> InOrder(R, asking)
    BY <2>1, OfferFrame, OutcomeFrame, FilledFrame, SeamFrame
  <2>3. Carried'
    BY <1>1, <2>1, <2>2 DEF Carried
  <2>4. NoneAbove'
    <3>1. CASE stage \in {"wanted", "evicting", "admitted"}
      BY <1>1, <2>1, <3>1, NoneAboveFrame
    <3>2. CASE stage \notin {"wanted", "evicting", "admitted"}
      BY <2>1, <3>2 DEF NoneAbove
    <3> QED
      BY <3>1, <3>2
  <2>5. SeamAgrees' /\ RoomForIncoming'
    <3>1. Kept' = Kept /\ EntryBytes(Kept)' = EntryBytes(Kept)
      BY <2>1, <2>2 DEF Kept, EntryBytes
    <3>2. /\ \A tier, size : /\ Alike(victims, tier, size)' = Alike(victims, tier, size)
                             /\ Alike(displaced, tier, size)' = Alike(displaced, tier, size)
          /\ \A e, d : Tied(e, d)' <=> Tied(e, d)
          /\ \A e : Facts(e)' = Facts(e)
      BY <2>1, SeamFrame DEF Alike
    <3>3. SeamAgrees'
      BY <1>1, <2>1, <3>2 DEF SeamAgrees
    <3> QED
      BY <1>1, <2>1, <2>2, <3>1, <3>3 DEF RoomForIncoming
  <2>6. AmongOffered'
    BY <1>1, <2>1, <2>2 DEF AmongOffered
  <2> QED
    BY <2>3, <2>4, <2>5, <2>6 DEF SeamInv
<1>10. QED
  BY <1>3, <1>4, <1>5, <1>6, <1>7, <1>8, <1>9 DEF EvictionNext

\* What the second pass owes to the first always holds.
LEMMA SeamInvariance ==
    ASSUME BelowMax
    PROVE  EvictionSpec => []SeamInv
<1>1. EvictionInit => SeamInv
  BY DEF EvictionInit, SeamInv, Carried, NoneAbove, SeamAgrees, RoomForIncoming, AmongOffered
<1> QED
  BY <1>1, SeamStep, EvictInvariance, PTL DEF EvictionSpec

\* Below u64::MAX, and as long as the sources agree, the cache evicts as many
\* entries of every tier and size as the caller's pass turned out, without
\* seeing the capsule and whatever the two passes' orders, seeds and margins;
\* others only where one of the margins makes their scores the same; and the
\* very same ones when both passes run under the same terms.
THEOREM TwoPassesAgree ==
    ASSUME BelowMax
    PROVE  EvictionSpec => []SeamAgrees
<1>1. SeamInv => SeamAgrees
  BY DEF SeamInv
<1> QED
  BY <1>1, SeamInvariance, PTL

\* Below u64::MAX the capsule the cache admits has room, or pins alone are left.
THEOREM CapsuleHasRoom ==
    ASSUME BelowMax
    PROVE  EvictionSpec => []RoomForIncoming
<1>1. SeamInv => RoomForIncoming
  BY DEF SeamInv
<1> QED
  BY <1>1, SeamInvariance, PTL

\* A victim has its like, in tier and size, among what the caller's pass turned
\* out, and that is not above the capsule.
LEMMA VictimsAreNotAbove ==
    ASSUME EvictInv, SeamInv
    PROVE  AskingNeverDemotesProfit
<1> SUFFICES ASSUME stage = "admitted", caller = "asks", revisions = 0,
                    EntryBytes(Held) <= limit, NEW e \in victims
             PROVE  rank(Offer[e].tier) <= rank(Offer[Incoming].tier)
  BY DEF AskingNeverDemotesProfit
<1>1. Setting /\ Held \subseteq 1..Incoming /\ Incoming \in Nat
  BY OffersAre DEF EvictInv, Setting
<1>2. victims \subseteq 1..Incoming /\ displaced \subseteq 1..Incoming
  BY <1>1 DEF SeamInv, AmongOffered
<1>3. \A x \in 1..Incoming : /\ Offer[x].tier = Facts(x).tier /\ Facts(x).tier \in CacheTier
                             /\ entries[x].size \in EntrySizes
  <2> SUFFICES ASSUME NEW x \in 1..Incoming
               PROVE  /\ Offer[x].tier = Facts(x).tier /\ Facts(x).tier \in CacheTier
                      /\ entries[x].size \in EntrySizes
    OBVIOUS
  <2>1. /\ candidate(x, x # Incoming) \in SelectionCandidate
        /\ candidate(x, x # Incoming).tier = Facts(x).tier
    BY <1>1, CandidateIs
  <2>2. Offer[x] = candidate(x, x # Incoming) /\ Facts(x).tier \in CacheTier
    BY <2>1 DEF Offer, SelectionCandidate
  <2>3. entries[x] \in Entry
    BY <1>1 DEF Setting, Incoming
  <2> QED
    BY <2>1, <2>2, <2>3 DEF Entry
<1> DEFINE tier == Facts(e).tier
           size == entries[e].size
<1>4. tier \in CacheTier /\ size \in EntrySizes /\ e \in Alike(victims, tier, size)
  BY <1>2, <1>3 DEF Alike
<1> HIDE DEF tier, size
<1>5. \A S \in SUBSET (1..Incoming) : IsFiniteSet(Alike(S, tier, size))
  <2>1. IsFiniteSet(1..Incoming)
    BY <1>1, FS_Interval
  <2>2. \A S \in SUBSET (1..Incoming) : Alike(S, tier, size) \in SUBSET (1..Incoming)
    BY DEF Alike
  <2> QED
    BY <2>1, <2>2, FS_Subset
<1>6. Cardinality(Alike(victims, tier, size)) = Cardinality(Alike(displaced, tier, size))
  BY <1>4 DEF SeamInv, SeamAgrees
<1>7. PICK d \in displaced : Facts(d).tier = tier
  <2>1. IsFiniteSet(Alike(victims, tier, size)) /\ IsFiniteSet(Alike(displaced, tier, size))
    BY <1>2, <1>5
  <2>2. Alike(displaced, tier, size) # {}
    BY <1>4, <1>6, <2>1, FS_EmptySet
  <2> QED
    BY <2>2 DEF Alike
<1>8. rank(Offer[d].tier) <= rank(Offer[Incoming].tier)
  BY <1>7 DEF SeamInv, NoneAbove
<1> QED
  BY <1>2, <1>3, <1>7, <1>8 DEF tier

\* Below u64::MAX a capsule that had to ask takes the place of nothing above
\* its own tier.
THEOREM ProfitIsNotTraded ==
    ASSUME BelowMax
    PROVE  EvictionSpec => []AskingNeverDemotesProfit
<1>1. EvictInv /\ SeamInv => AskingNeverDemotesProfit
  BY VictimsAreNotAbove
<1> QED
  BY <1>1, SeamInvariance, EvictInvariance, PTL
=============================================================================
