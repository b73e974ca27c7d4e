--------------------------- MODULE FlywheelProofs ---------------------------
(***************************************************************************)
(* Theorems about Flywheel, for any capsules, readers, capacity and queue. *)
(*                                                                         *)
(* FollowsCache is not inductive: a reconciliation ends the drift without  *)
(* mentioning a capsule whose advertisement already agrees, so what the    *)
(* queue says of that capsule must have been right during the drift too.   *)
(* The invariant therefore splits: the last word in the queue is right     *)
(* whenever the host is careful (LastWords), and a capsule without a word  *)
(* in the queue agrees when nothing has drifted (Agreement).               *)
(***************************************************************************)
EXTENDS Flywheel, FiniteSetTheorems, SequenceTheorems, TLAPS

Deltas == HoldingsDelta(Capsules)

Unmentioned(c) == \A i \in 1..Len(pending) : ~ Mentions(pending[i], c)

LastWordRight(c) ==
    \E i \in 1..Len(pending) :
        /\ Mentions(pending[i], c)
        /\ \A j \in (i + 1)..Len(pending) : ~ Mentions(pending[j], c)
        /\ c \in pending[i].announce <=> c \in held

Disjoint == \A i \in 1..Len(pending) : pending[i].announce \cap pending[i].retract = {}

LastWords == \A c \in Capsules : Unmentioned(c) \/ LastWordRight(c)

Agreement ==
    ~ drift => \A c \in Capsules : Unmentioned(c) => (c \in advertised <=> c \in held)

Words ==
    /\ careful => view = NoView /\ Disjoint /\ LastWords /\ Agreement
    /\ ~ careful => drift

\* The pulls that run are those in the host's set.
Counted ==
    /\ \A c \in Capsules : pulls[c] = IF c \in in_flight THEN 1 ELSE 0
    /\ ~ enabled => in_flight = {}

-----------------------------------------------------------------------------
(* The queue of deltas. *)

\* A queued delta is the last word on what it mentions and on nothing else.
LEMMA Queued ==
    ASSUME pending \in Seq(Deltas), Disjoint,
           NEW d \in Deltas, d.announce \cap d.retract = {}, Enqueue(d)
    PROVE  /\ pending' \in Seq(Deltas)
           /\ Disjoint'
           /\ \A c : Mentions(d, c) /\ (c \in d.announce <=> c \in held')
                        => LastWordRight(c)'
           /\ \A c : ~ Mentions(d, c)
                        => /\ Unmentioned(c)' <=> Unmentioned(c)
                           /\ (c \in held' <=> c \in held) /\ LastWordRight(c)
                                => LastWordRight(c)'
<1>1. CASE is_empty(d)
    <2>1. pending' = pending /\ \A c : ~ Mentions(d, c)
        BY <1>1 DEF Enqueue, is_empty, Mentions
    <2>2. QED
        BY <2>1 DEF Disjoint, Unmentioned, LastWordRight
<1>2. CASE ~ is_empty(d)
    <2> DEFINE n == Len(pending)
    <2>1. pending' = Append(pending, d) /\ n \in Nat
        BY <1>2 DEF Enqueue
    <2>2. /\ pending' \in Seq(Deltas)
          /\ Len(pending') = n + 1
          /\ \A i \in 1..n : pending'[i] = pending[i]
          /\ pending'[n + 1] = d
        BY <2>1, AppendProperties
    <2> HIDE DEF n
    <2>3. Disjoint'
        <3>1. \A i \in 1..(n + 1) : i \in 1..n \/ i = n + 1
            BY <2>1
        <3>2. QED
            BY <2>2, <3>1 DEF Disjoint, n
    <2>4. ASSUME NEW c, Mentions(d, c), c \in d.announce <=> c \in held'
          PROVE  LastWordRight(c)'
        <3>1. n + 1 \in 1..(n + 1) /\ \A j \in (n + 2)..(n + 1) : FALSE
            BY <2>1
        <3>2. QED
            BY <2>1, <2>2, <2>4, <3>1 DEF LastWordRight
    <2>5. ASSUME NEW c, ~ Mentions(d, c)
          PROVE  Unmentioned(c)' <=> Unmentioned(c)
        <3>1. 1..(n + 1) = (1..n) \union {n + 1}
            BY <2>1
        <3>2. QED
            BY <2>2, <2>5, <3>1 DEF Unmentioned, n
    <2>6. ASSUME NEW c, ~ Mentions(d, c), c \in held' <=> c \in held, LastWordRight(c)
          PROVE  LastWordRight(c)'
        <3>1. PICK i \in 1..n :
                /\ Mentions(pending[i], c)
                /\ \A j \in (i + 1)..n : ~ Mentions(pending[j], c)
                /\ c \in pending[i].announce <=> c \in held
            BY <2>6 DEF LastWordRight, n
        <3>2. i \in 1..(n + 1) /\ \A j \in (i + 1)..(n + 1) : j = n + 1 \/ (j \in (i + 1)..n /\ j \in 1..n)
            BY <2>1
        <3>3. \A j \in (i + 1)..(n + 1) : ~ Mentions(pending'[j], c)
            BY <2>2, <2>6, <3>1, <3>2
        <3>4. QED
            BY <2>2, <2>6, <3>1, <3>2, <3>3 DEF LastWordRight
    <2>7. QED
        BY <2>2, <2>3, <2>4, <2>5, <2>6
<1>3. QED
    BY <1>1, <1>2

\* The oldest delta leaves the queue.
LEMMA Dequeued ==
    ASSUME pending \in Seq(Deltas), pending # <<>>, Disjoint,
           pending' = Tail(pending), held' = held
    PROVE  /\ Disjoint'
           /\ \A c : Unmentioned(c) => Unmentioned(c)'
           /\ \A c : LastWordRight(c) =>
                 \/ LastWordRight(c)'
                 \/ /\ Unmentioned(c)'
                    /\ Mentions(pending[1], c)
                    /\ c \in pending[1].announce <=> c \in held
           /\ \A c : Unmentioned(c)' => Unmentioned(c) \/ Mentions(pending[1], c)
<1> DEFINE n == Len(pending)
<1>1. /\ n \in Nat /\ n >= 1
      /\ Len(pending') = n - 1
      /\ \A i \in 1..(n - 1) : pending'[i] = pending[i + 1] /\ i + 1 \in 1..n
      /\ \A i \in 2..n : i - 1 \in 1..(n - 1) /\ pending'[i - 1] = pending[i]
    <2>1. n \in Nat /\ n >= 1
        OBVIOUS
    <2>2. /\ Len(pending') = n - 1
          /\ \A i \in 1..(n - 1) : pending'[i] = pending[i + 1]
        BY HeadTailProperties
    <2> HIDE DEF n
    <2>3. \A i \in 2..n : i - 1 \in 1..(n - 1) /\ (i - 1) + 1 = i
        BY <2>1
    <2>4. \A i \in 1..(n - 1) : i + 1 \in 1..n
        BY <2>1
    <2>5. QED
        BY <2>1, <2>2, <2>3, <2>4
<1> HIDE DEF n
<1>2. Disjoint'
    BY <1>1 DEF Disjoint, n
<1>3. ASSUME NEW c, Unmentioned(c)
      PROVE  Unmentioned(c)'
    BY <1>1, <1>3 DEF Unmentioned, n
<1>4. ASSUME NEW c, LastWordRight(c)
      PROVE  \/ LastWordRight(c)'
             \/ /\ Unmentioned(c)'
                /\ Mentions(pending[1], c)
                /\ c \in pending[1].announce <=> c \in held
    <2>1. PICK i \in 1..n :
            /\ Mentions(pending[i], c)
            /\ \A j \in (i + 1)..n : ~ Mentions(pending[j], c)
            /\ c \in pending[i].announce <=> c \in held
        BY <1>4 DEF LastWordRight, n
    <2>2. CASE i = 1
        <3>1. \A j \in 1..(n - 1) : j + 1 \in (i + 1)..n
            BY <1>1, <2>2
        <3>2. Unmentioned(c)'
            BY <1>1, <2>1, <3>1 DEF Unmentioned
        <3>3. QED
            BY <2>1, <2>2, <3>2
    <2>3. CASE i # 1
        <3>1. i \in 2..n /\ \A j \in ((i - 1) + 1)..(n - 1) : j + 1 \in (i + 1)..n /\ j \in 1..(n - 1)
            BY <1>1, <2>3
        <3>2. i - 1 \in 1..(n - 1) /\ pending'[i - 1] = pending[i]
            BY <1>1, <3>1
        <3>3. \A j \in ((i - 1) + 1)..(n - 1) : ~ Mentions(pending'[j], c)
            BY <1>1, <2>1, <3>1
        <3>4. LastWordRight(c)'
            BY <1>1, <2>1, <3>2, <3>3 DEF LastWordRight
        <3>5. QED
            BY <3>4
    <2>4. QED
        BY <2>2, <2>3
<1>5. ASSUME NEW c, Unmentioned(c)', ~ Mentions(pending[1], c)
      PROVE  Unmentioned(c)
    <2>1. \A i \in 1..n : i = 1 \/ i \in 2..n
        BY <1>1
    <2>2. QED
        BY <1>1, <1>5, <2>1 DEF Unmentioned, n
<1>6. QED
    BY <1>2, <1>3, <1>4, <1>5

-----------------------------------------------------------------------------
(* Types. *)

\* What the three hooks return are deltas.
LEMMA DeltasTyped ==
    /\ \A c \in Capsules, s \in SUBSET Capsules : after_admission(c, s) \in Deltas
    /\ \A s \in SUBSET Capsules : after_eviction(s) \in Deltas
    /\ \A s, t \in SUBSET Capsules : reconcile(s, t) \in Deltas
    BY DEF Deltas, HoldingsDelta, after_admission, after_eviction, reconcile

\* The queue with one more delta.
LEMMA QueueTyped ==
    ASSUME pending \in Seq(Deltas), NEW d \in Deltas, Enqueue(d)
    PROVE  pending' \in Seq(Deltas)
    BY AppendProperties DEF Enqueue

\* The queue without a delta that was lost or applied.
LEMMA RemovalTyped ==
    ASSUME pending \in Seq(Deltas), NEW i \in 1..Len(pending)
    PROVE  SubSeq(pending, 1, i - 1) \o SubSeq(pending, i + 1, Len(pending)) \in Seq(Deltas)
<1>1. Len(pending) \in Nat /\ \A j \in 1..Len(pending) : pending[j] \in Deltas
    BY ElementOfSeq, LenProperties
<1>2. /\ \A j \in 1..(i - 1) : j \in 1..Len(pending)
      /\ \A j \in (i + 1)..Len(pending) : j \in 1..Len(pending)
      /\ i - 1 \in Int /\ i + 1 \in Int /\ 1 \in Int
    BY <1>1
<1>3. SubSeq(pending, 1, i - 1) \in Seq(Deltas)
    BY <1>1, <1>2, SubSeqProperties
<1>4. SubSeq(pending, i + 1, Len(pending)) \in Seq(Deltas)
    BY <1>1, <1>2, SubSeqProperties
<1>5. QED
    BY <1>3, <1>4, ConcatProperties

\* The initial state has its types.
LEMMA TypeInit == Init => TypeOK
<1> SUFFICES ASSUME Init PROVE TypeOK
    OBVIOUS
<1>1. Cardinality({}) = 0 /\ Capacity \in Nat
    BY FS_EmptySet, FlywheelAssumption
<1>2. held \in SUBSET Capsules /\ Cardinality(held) <= Capacity
    BY <1>1 DEF Init
<1>3. pending \in Seq(HoldingsDelta(Capsules))
    BY DEF Init
<1>4. /\ lookups \in [Readers -> Lookup \union {NoLookup}]
      /\ pulls \in [Capsules -> Nat]
      /\ in_flight \in SUBSET Capsules /\ advertised \in SUBSET Capsules
      /\ view \in View \union {NoView}
    BY DEF Init
<1>5. /\ enabled \in BOOLEAN /\ careful \in BOOLEAN
      /\ drift \in BOOLEAN /\ quiet \in BOOLEAN
    BY DEF Init
<1>6. QED
    BY <1>2, <1>3, <1>4, <1>5 DEF TypeOK

\* The end of a pull leaves readers, pulls and counts their types.
LEMMA PullEndsTyped ==
    ASSUME TypeOK, NEW c \in Capsules, PullEnds(c)
    PROVE  /\ lookups' \in [Readers -> Lookup \union {NoLookup}]
           /\ in_flight' \in SUBSET Capsules
           /\ pulls' \in [Capsules -> Nat]
           /\ UNCHANGED <<enabled, careful, lookups, advertised, view, drift, quiet>>
    BY DEF TypeOK, PullEnds

\* Every step keeps the types.
LEMMA TypeNext == TypeOK /\ [Next]_vars => TypeOK'
<1> SUFFICES ASSUME TypeOK, [Next]_vars PROVE TypeOK'
    OBVIOUS
<1>1. pending \in Seq(Deltas)
    BY DEF TypeOK, Deltas
<1>2. ASSUME NEW r \in Readers, NEW c \in Capsules, LookUp(r, c) PROVE TypeOK'
    <2>1. [capsule |-> c, already_held |-> c \in held] \in Lookup
        BY DEF Lookup
    <2>2. lookups' \in [Readers -> Lookup \union {NoLookup}]
        BY <1>2, <2>1 DEF LookUp, TypeOK
    <2>3. QED
        BY <1>2, <2>2 DEF LookUp, TypeOK
<1>3. ASSUME NEW r \in Readers, Decide(r) PROVE TypeOK'
    <2>1. lookups[r] \in Lookup
        BY <1>3 DEF Decide, TypeOK
    <2>2. lookups[r].capsule \in Capsules
        BY <2>1 DEF Lookup
    <2>3. in_flight' \in SUBSET Capsules /\ pulls' \in [Capsules -> Nat]
        BY <1>3, <2>2 DEF Decide, TypeOK
    <2>4. lookups' \in [Readers -> Lookup \union {NoLookup}]
        BY <1>3 DEF Decide, TypeOK
    <2>5. QED
        BY <1>3, <2>3, <2>4 DEF Decide, TypeOK
<1>4. ASSUME NEW c \in Capsules, PullLands(c) PROVE TypeOK'
    <2>1. PICK evicted \in SUBSET (held \ {c}) :
            /\ Fits((held \ evicted) \union {c})
            /\ held' = (held \ evicted) \union {c}
            /\ Enqueue(after_admission(c, evicted))
        BY <1>4 DEF PullLands
    <2>2. held' \in SUBSET Capsules /\ Cardinality(held') <= Capacity
        BY <2>1 DEF TypeOK, Fits
    <2>3. evicted \in SUBSET Capsules
        BY <2>1 DEF TypeOK
    <2>4. pending' \in Seq(Deltas)
        BY <1>1, <2>1, <2>3, DeltasTyped, QueueTyped
    <2>5. PullEnds(c)
        BY <1>4 DEF PullLands
    <2>6. QED
        BY <2>2, <2>4, <2>5, PullEndsTyped DEF TypeOK, Deltas
<1>5. ASSUME NEW c \in Capsules, PullFails(c) PROVE TypeOK'
    BY <1>5, PullEndsTyped DEF PullFails, TypeOK
<1>6. CASE Sweep
    <2>1. PICK evicted \in SUBSET held :
            held' = held \ evicted /\ Enqueue(after_eviction(evicted))
        BY <1>6 DEF Sweep
    <2>2. evicted \in SUBSET Capsules /\ held' \in SUBSET held /\ held' \in SUBSET Capsules
        BY <2>1 DEF TypeOK
    <2>3. pending' \in Seq(Deltas)
        BY <1>1, <2>1, <2>2, DeltasTyped, QueueTyped
    <2>4. IsFiniteSet(held)
        BY FS_Subset, FlywheelAssumption DEF TypeOK
    <2>5. IsFiniteSet(held') /\ Cardinality(held') <= Cardinality(held)
        BY <2>2, <2>4, FS_Subset
    <2>6. Cardinality(held') <= Capacity
        BY <2>4, <2>5, FS_CardinalityType, FlywheelAssumption DEF TypeOK
    <2>7. QED
        BY <1>6, <2>2, <2>3, <2>6 DEF Sweep, TypeOK, Deltas, acquisition
<1>7. CASE Apply
    <2>1. PICK i \in 1..Len(pending) :
            /\ advertised' = (advertised \union pending[i].announce) \ pending[i].retract
            /\ pending' = SubSeq(pending, 1, i - 1) \o SubSeq(pending, i + 1, Len(pending))
        BY <1>7 DEF Apply
    <2>2. pending' \in Seq(Deltas)
        BY <1>1, <2>1, RemovalTyped
    <2>3. pending[i] \in Deltas
        BY <1>1, <2>1, ElementOfSeq
    <2>4. advertised' \in SUBSET Capsules
        BY <2>1, <2>3 DEF TypeOK, Deltas, HoldingsDelta
    <2>5. QED
        BY <1>7, <2>2, <2>4 DEF Apply, TypeOK, Deltas, acquisition
<1>8. CASE Reconcile
    <2>1. Enqueue(reconcile(advertised, held))
        BY <1>8 DEF Reconcile
    <2>2. pending' \in Seq(Deltas)
        BY <1>1, <2>1, DeltasTyped, QueueTyped DEF TypeOK
    <2>3. QED
        BY <1>8, <2>2 DEF Reconcile, TypeOK, Deltas, acquisition
<1>9. CASE ReadView
    <2>1. [advertised |-> advertised, held |-> held] \in View
        BY DEF TypeOK, View
    <2>2. QED
        BY <1>9, <2>1 DEF ReadView, TypeOK, acquisition
<1>10. CASE ReconcileView
    <2>1. view \in View /\ Enqueue(reconcile(view.advertised, view.held))
        BY <1>10 DEF ReconcileView, TypeOK
    <2>2. view.advertised \in SUBSET Capsules /\ view.held \in SUBSET Capsules
        BY <2>1 DEF View
    <2>3. pending' \in Seq(Deltas)
        BY <1>1, <2>1, <2>2, DeltasTyped, QueueTyped
    <2>4. QED
        BY <1>10, <2>3 DEF ReconcileView, TypeOK, Deltas, acquisition
<1>11. CASE Forget
    <2>1. pending' \in Seq(Deltas)
        BY <1>1, <1>11, HeadTailProperties DEF Forget
    <2>2. QED
        BY <1>11, <2>1 DEF Forget, TypeOK, Deltas, acquisition
<1>12. CASE Crash
    <2>1. held' \in SUBSET Capsules /\ Cardinality(held') <= Capacity
        BY <1>12 DEF Crash, Fits
    <2>2. pending' \in Seq(HoldingsDelta(Capsules))
        BY <1>12 DEF Crash
    <2>3. /\ lookups' \in [Readers -> Lookup \union {NoLookup}]
          /\ pulls' \in [Capsules -> Nat]
          /\ in_flight' \in SUBSET Capsules
          /\ view' \in View \union {NoView}
        BY <1>12 DEF Crash
    <2>4. QED
        BY <1>12, <2>1, <2>2, <2>3 DEF Crash, TypeOK
<1>13. CASE FallQuiet
    BY <1>13 DEF FallQuiet, TypeOK, acquisition
<1>14. CASE UNCHANGED vars
    BY <1>14 DEF vars, TypeOK, acquisition
<1>15. QED
    BY <1>2, <1>3, <1>4, <1>5, <1>6, <1>7, <1>8, <1>9, <1>10, <1>11, <1>12, <1>13, <1>14
       DEF Next

\* Every variable keeps its type, and the cache its capacity.
THEOREM TypeCorrect == Spec => []TypeOK
<1>1. QED
    BY TypeInit, TypeNext, PTL DEF Spec

-----------------------------------------------------------------------------
(* The advertisement follows the cache. *)

\* What a queued delta does, if it is right about every capsule it mentions
\* and no other capsule enters or leaves the cache.
LEMMA RightDeltaKeeps ==
    ASSUME pending \in Seq(Deltas), Disjoint, LastWords,
           NEW d \in Deltas, d.announce \cap d.retract = {}, Enqueue(d),
           \A c \in Capsules : Mentions(d, c) => (c \in d.announce <=> c \in held'),
           \A c \in Capsules : ~ Mentions(d, c) => (c \in held' <=> c \in held),
           advertised' = advertised
    PROVE  /\ Disjoint'
           /\ LastWords'
           /\ \A c \in Capsules : Unmentioned(c)' => Unmentioned(c) /\ ~ Mentions(d, c)
<1>1. Disjoint'
    BY Queued
<1>2. ASSUME NEW c \in Capsules
      PROVE  Unmentioned(c)' \/ LastWordRight(c)'
    BY Queued DEF LastWords
<1>3. ASSUME NEW c \in Capsules, Unmentioned(c)'
      PROVE  Unmentioned(c) /\ ~ Mentions(d, c)
    <2>1. ~ LastWordRight(c)'
        BY <1>3 DEF Unmentioned, LastWordRight
    <2>2. ~ Mentions(d, c)
        BY <2>1, Queued
    <2>3. QED
        BY <1>3, <2>2, Queued
<1>4. QED
    BY <1>1, <1>2, <1>3 DEF LastWords

\* A delta that mentions what changes keeps the agreement.
LEMMA AgreementKept ==
    ASSUME Agreement, NEW d, drift' = drift, advertised' = advertised,
           \A c \in Capsules : Unmentioned(c)' => Unmentioned(c) /\ ~ Mentions(d, c),
           \A c \in Capsules : ~ Mentions(d, c) => (c \in held' <=> c \in held)
    PROVE  Agreement'
    BY DEF Agreement

\* The initial state satisfies the account of last words.
LEMMA WordsInit == Init => Words
<1> SUFFICES ASSUME Init PROVE Words
    OBVIOUS
<1>1. /\ pending = <<>> /\ advertised = {} /\ held = {}
      /\ view = NoView /\ drift = ~ careful
    BY DEF Init
<1>2. \A c : Unmentioned(c)
    BY <1>1 DEF Unmentioned
<1>3. Disjoint
    BY <1>1 DEF Disjoint
<1>4. LastWords /\ Agreement
    BY <1>1, <1>2 DEF LastWords, Agreement
<1>5. QED
    BY <1>1, <1>3, <1>4 DEF Words

\* The host does not change its ways.
LEMMA CareKept == [Next]_vars => careful' = careful
    BY DEF Next, vars, acquisition, LookUp, Decide, PullLands, PullFails, PullEnds, Sweep,
         Apply, Reconcile, ReadView, ReconcileView, Forget, Crash, FallQuiet

\* A host that is not careful never claims to be free of drift.
LEMMA WordsNextCareless ==
    ASSUME Words, ~ careful, [Next]_vars
    PROVE  Words'
<1>1. drift
    BY DEF Words
<1>2. drift'
    BY <1>1 DEF Next, vars, LookUp, Decide, PullLands, PullFails, PullEnds, Sweep,
         Apply, Reconcile, ReadView, ReconcileView, Forget, Crash, FallQuiet
<1>3. QED
    BY <1>2, CareKept DEF Words

\* Every step of a careful host keeps it.
LEMMA WordsNextCareful ==
    ASSUME TypeOK, Words, careful, [Next]_vars
    PROVE  Words'
<1>1. /\ pending \in Seq(Deltas)
      /\ held \in SUBSET Capsules /\ advertised \in SUBSET Capsules
      /\ view = NoView /\ Disjoint /\ LastWords /\ Agreement
      /\ careful /\ careful' = careful
    BY CareKept DEF TypeOK, Words, Deltas
<1>2. ASSUME UNCHANGED <<held, pending, advertised, view, drift>>
      PROVE  Words'
    BY <1>1, <1>2 DEF Words, Disjoint, LastWords, Agreement, Unmentioned, LastWordRight
<1>3. ASSUME NEW c \in Capsules, PullLands(c) PROVE Words'
    <2>1. PICK evicted \in SUBSET (held \ {c}) :
            /\ held' = (held \ evicted) \union {c}
            /\ Enqueue(after_admission(c, evicted))
        BY <1>3 DEF PullLands
    <2> DEFINE d == after_admission(c, evicted)
    <2>2. d.announce = {c} /\ d.retract = evicted
        BY DEF after_admission
    <2>3. d \in Deltas
        BY <1>1, DeltasTyped
    <2>4. UNCHANGED <<advertised, view, drift>>
        BY <1>3 DEF PullLands, PullEnds
    <2> HIDE DEF d
    <2>5. /\ d.announce \cap d.retract = {}
          /\ \A x \in Capsules : Mentions(d, x) => (x \in d.announce <=> x \in held')
          /\ \A x \in Capsules : ~ Mentions(d, x) => (x \in held' <=> x \in held)
        BY <2>1, <2>2 DEF Mentions
    <2>6. Enqueue(d)
        BY <2>1 DEF d
    <2>7. /\ Disjoint' /\ LastWords'
          /\ \A x \in Capsules : Unmentioned(x)' => Unmentioned(x) /\ ~ Mentions(d, x)
        BY <1>1, <2>3, <2>4, <2>5, <2>6, RightDeltaKeeps
    <2>8. Agreement'
        BY <1>1, <2>4, <2>5, <2>7, AgreementKept
    <2>9. QED
        BY <1>1, <2>4, <2>7, <2>8 DEF Words
<1>4. CASE Sweep
    <2>1. PICK evicted \in SUBSET held :
            held' = held \ evicted /\ Enqueue(after_eviction(evicted))
        BY <1>4 DEF Sweep
    <2> DEFINE d == after_eviction(evicted)
    <2>2. d.announce = {} /\ d.retract = evicted
        BY DEF after_eviction
    <2>3. d \in Deltas
        BY <1>1, DeltasTyped
    <2>4. UNCHANGED <<advertised, view, drift>>
        BY <1>4 DEF Sweep
    <2> HIDE DEF d
    <2>5. /\ d.announce \cap d.retract = {}
          /\ \A x \in Capsules : Mentions(d, x) => (x \in d.announce <=> x \in held')
          /\ \A x \in Capsules : ~ Mentions(d, x) => (x \in held' <=> x \in held)
        BY <2>1, <2>2 DEF Mentions
    <2>6. Enqueue(d)
        BY <2>1 DEF d
    <2>7. /\ Disjoint' /\ LastWords'
          /\ \A x \in Capsules : Unmentioned(x)' => Unmentioned(x) /\ ~ Mentions(d, x)
        BY <1>1, <2>3, <2>4, <2>5, <2>6, RightDeltaKeeps
    <2>8. Agreement'
        BY <1>1, <2>4, <2>5, <2>7, AgreementKept
    <2>9. QED
        BY <1>1, <2>4, <2>7, <2>8 DEF Words
<1>5. CASE Apply
    <2>1. /\ pending # <<>>
          /\ advertised' = (advertised \union pending[1].announce) \ pending[1].retract
          /\ pending' = SubSeq(pending, 1, 0) \o SubSeq(pending, 2, Len(pending))
          /\ UNCHANGED <<held, view, drift>>
        BY <1>1, <1>5 DEF Apply
    <2>2. pending' = Tail(pending)
        <3>1. SubSeq(pending, 1, 0) = <<>>
            BY SubSeqEmpty
        <3>2. SubSeq(pending, 2, Len(pending)) = Tail(pending)
            BY <1>1, <2>1, TailIsSubSeq
        <3>3. Tail(pending) \in Seq(Deltas)
            BY <1>1, <2>1, HeadTailProperties
        <3>4. QED
            BY <2>1, <3>1, <3>2, <3>3, ConcatEmptySeq
    <2>3. /\ Disjoint'
          /\ \A c : Unmentioned(c) => Unmentioned(c)'
          /\ \A c : LastWordRight(c) =>
                \/ LastWordRight(c)'
                \/ /\ Unmentioned(c)'
                   /\ Mentions(pending[1], c)
                   /\ c \in pending[1].announce <=> c \in held
          /\ \A c : Unmentioned(c)' => Unmentioned(c) \/ Mentions(pending[1], c)
        BY <1>1, <2>1, <2>2, Dequeued
    <2>4. LastWords'
        BY <1>1, <2>3 DEF LastWords
    <2>5. pending[1].announce \cap pending[1].retract = {}
        BY <1>1, <2>1 DEF Disjoint
    <2>6. ASSUME NEW c \in Capsules, ~ drift, Unmentioned(c)'
          PROVE  c \in advertised' <=> c \in held
        <3>1. CASE Unmentioned(c)
            <4>1. ~ Mentions(pending[1], c)
                BY <1>1, <2>1, <3>1 DEF Unmentioned
            <4>2. c \in advertised <=> c \in held
                BY <1>1, <2>6, <3>1 DEF Agreement
            <4>3. QED
                BY <2>1, <4>1, <4>2 DEF Mentions
        <3>2. CASE ~ Unmentioned(c)
            <4>1. ~ LastWordRight(c)'
                BY <2>6 DEF Unmentioned, LastWordRight
            <4>2. /\ Mentions(pending[1], c)
                  /\ c \in pending[1].announce <=> c \in held
                BY <1>1, <2>3, <3>2, <4>1 DEF LastWords
            <4>3. QED
                BY <2>1, <2>5, <4>2 DEF Mentions
        <3>3. QED
            BY <3>1, <3>2
    <2>7. Agreement'
        BY <2>1, <2>6 DEF Agreement
    <2>8. QED
        BY <1>1, <2>1, <2>3, <2>4, <2>7 DEF Words
<1>6. CASE Reconcile
    <2> DEFINE d == reconcile(advertised, held)
    <2>1. d.announce = held \ advertised /\ d.retract = advertised \ held
        BY DEF reconcile
    <2>2. d \in Deltas
        BY <1>1, DeltasTyped
    <2>3. Enqueue(d) /\ UNCHANGED <<held, advertised, view>> /\ drift' = FALSE
        BY <1>6 DEF Reconcile
    <2> HIDE DEF d
    <2>4. /\ d.announce \cap d.retract = {}
          /\ \A x \in Capsules : Mentions(d, x) => (x \in d.announce <=> x \in held')
          /\ \A x \in Capsules : ~ Mentions(d, x) => (x \in advertised <=> x \in held)
        BY <2>1, <2>3 DEF Mentions
    <2>5. /\ Disjoint' /\ LastWords'
          /\ \A x \in Capsules : Unmentioned(x)' => Unmentioned(x) /\ ~ Mentions(d, x)
        BY <1>1, <2>2, <2>3, <2>4, RightDeltaKeeps
    <2>6. Agreement'
        BY <2>3, <2>4, <2>5 DEF Agreement
    <2>7. QED
        BY <1>1, <2>3, <2>5, <2>6 DEF Words
<1>7. CASE Crash
    <2>1. pending' = <<>> /\ drift' = TRUE /\ view' = NoView
        BY <1>7 DEF Crash
    <2>2. \A c : Unmentioned(c)'
        BY <2>1 DEF Unmentioned
    <2>3. Disjoint'
        BY <2>1 DEF Disjoint
    <2>4. QED
        BY <1>1, <2>1, <2>2, <2>3 DEF Words, LastWords, Agreement
<1>8. ASSUME ReadView \/ ReconcileView \/ Forget PROVE FALSE
    BY <1>1, <1>8 DEF ReadView, ReconcileView, Forget
<1>9. ASSUME NEW r \in Readers, NEW c \in Capsules, LookUp(r, c) PROVE Words'
    BY <1>2, <1>9 DEF LookUp
<1>10. ASSUME NEW r \in Readers, Decide(r) PROVE Words'
    BY <1>2, <1>10 DEF Decide
<1>11. ASSUME NEW c \in Capsules, PullFails(c) PROVE Words'
    BY <1>2, <1>11 DEF PullFails, PullEnds
<1>12. CASE FallQuiet \/ UNCHANGED vars
    BY <1>2, <1>12 DEF FallQuiet, vars
<1>13. QED
    BY <1>3, <1>4, <1>5, <1>6, <1>7, <1>8, <1>9, <1>10, <1>11, <1>12 DEF Next

\* With a careful host, what is pending says of every capsule whether it is
\* held, unless a crash has not been reconciled yet.
THEOREM AdvertisementFollows == Spec => []FollowsCache
<1> DEFINE IInv == TypeOK /\ Words
<1>1. Init => IInv
    BY TypeInit, WordsInit
<1>2. IInv /\ [Next]_vars => IInv'
    BY TypeNext, WordsNextCareful, WordsNextCareless
<1>3. IInv => FollowsCache
    BY DEF Words, FollowsCache, Follows, LastWords, Agreement, Unmentioned, LastWordRight
<1>4. QED
    BY <1>1, <1>2, <1>3, PTL DEF Spec

-----------------------------------------------------------------------------
(* One pull per capsule. *)

\* The initial state satisfies the count of pulls.
LEMMA CountedInit == Init => Counted
    BY DEF Init, Counted

\* Every step keeps it.
LEMMA CountedNext == TypeOK /\ Counted /\ [Next]_vars => Counted'
<1> SUFFICES ASSUME TypeOK, Counted, [Next]_vars PROVE Counted'
    OBVIOUS
<1>1. ASSUME UNCHANGED <<enabled, careful, in_flight, pulls>> PROVE Counted'
    BY <1>1 DEF Counted
<1>2. ASSUME NEW r \in Readers, Decide(r) PROVE Counted'
    <2> DEFINE c == lookups[r].capsule
    <2>1. c \in Capsules
        BY <1>2 DEF Decide, TypeOK, Lookup
    <2>2. CASE decide(enabled, c, lookups[r].already_held, in_flight) = "Acquire"
        <3>1. enabled /\ c \notin in_flight
            BY <2>2 DEF decide
        <3>2. /\ in_flight' = in_flight \union {c}
              /\ pulls' = [pulls EXCEPT ![c] = @ + 1]
              /\ enabled' = enabled
            BY <1>2, <2>2 DEF Decide
        <3> HIDE DEF c
        <3>3. QED
            BY <2>1, <3>1, <3>2 DEF Counted, TypeOK
    <2>3. CASE decide(enabled, c, lookups[r].already_held, in_flight) # "Acquire"
        BY <1>1, <1>2, <2>3 DEF Decide
    <2>4. QED
        BY <2>2, <2>3
<1>3. ASSUME NEW c \in Capsules, PullEnds(c) PROVE Counted'
    <2>1. pulls[c] = 1 /\ c \in in_flight
        BY <1>3 DEF PullEnds, Counted, TypeOK
    <2>2. /\ pulls' = [pulls EXCEPT ![c] = @ - 1]
          /\ in_flight' = in_flight \ {c}
          /\ enabled' = enabled
        BY <1>3 DEF PullEnds
    <2>3. QED
        BY <2>1, <2>2 DEF Counted, TypeOK
<1>4. CASE Crash
    BY <1>4 DEF Crash, Counted
<1>5. QED
    BY <1>1, <1>2, <1>3, <1>4
       DEF Next, vars, acquisition, LookUp, PullLands, PullFails, Sweep, Apply,
           Reconcile, ReadView, ReconcileView, Forget, FallQuiet

\* However stale the lookups of a burst of reads, one pull at a time.
THEOREM BurstsCollapse == Spec => []OnePullPerCapsule
<1> DEFINE IInv == TypeOK /\ Counted
<1>1. Init => IInv
    BY TypeInit, CountedInit
<1>2. IInv /\ [Next]_vars => IInv'
    BY TypeNext, CountedNext
<1>3. IInv => OnePullPerCapsule
    BY DEF Counted, OnePullPerCapsule
<1>4. QED
    BY <1>1, <1>2, <1>3, PTL DEF Spec

\* Whatever else is being pulled, a capsule nobody pulls is pulled when asked.
THEOREM GenerationsIndependent == Spec => NoGenerationStranded
<1> DEFINE IInv == TypeOK /\ Counted
<1>1. Init => IInv
    BY TypeInit, CountedInit
<1>2. IInv /\ [Next]_vars => IInv'
    BY TypeNext, CountedNext
<1>3. ASSUME TypeOK, Counted, NEW r \in Readers, Decide(r), enabled,
             ~ lookups[r].already_held, pulls[lookups[r].capsule] = 0
      PROVE  pulls'[lookups[r].capsule] = 1
    <2> DEFINE c == lookups[r].capsule
    <2>1. c \in Capsules
        BY <1>3 DEF Decide, TypeOK, Lookup
    <2>2. c \notin in_flight
        BY <1>3, <2>1 DEF Counted
    <2>3. decide(enabled, c, lookups[r].already_held, in_flight) = "Acquire"
        BY <1>3, <2>2 DEF decide
    <2>4. pulls' = [pulls EXCEPT ![c] = @ + 1]
        BY <1>3, <2>3 DEF Decide
    <2> HIDE DEF c
    <2>5. QED
        BY <1>3, <2>1, <2>4 DEF TypeOK, c
<1>4. IInv /\ [Next]_vars => [\A r \in Readers :
          LET seen == lookups[r] IN
          (/\ Decide(r)
           /\ enabled
           /\ ~ seen.already_held
           /\ pulls[seen.capsule] = 0)
          => pulls'[seen.capsule] = 1]_vars
    BY <1>3
<1>5. QED
    BY <1>1, <1>2, <1>4, PTL DEF Spec, NoGenerationStranded
=============================================================================
