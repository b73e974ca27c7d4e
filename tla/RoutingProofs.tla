--------------------------- MODULE RoutingProofs ---------------------------
(***************************************************************************)
(* Theorems about the log of observations and the scores made from it, for *)
(* any peers, capacities, widths and half-lives.                           *)
(*                                                                         *)
(* What makes a score a share is an order among the counts: conclusive     *)
(* answers are answers, and answers are asks.  It survives saturation      *)
(* because the three counts have the same width, and a tracked peer was    *)
(* asked at least once.                                                    *)
(***************************************************************************)
EXTENDS Routing, FiniteSetTheorems, FunctionTheorems, TLAPS

Ordered(seen) ==
    /\ seen.conclusive <= seen.answered
    /\ seen.answered <= seen.asks
    /\ 1 <= seen.asks

IInv ==
    /\ TypeOK
    /\ \A p \in Tracked : Ordered(log[p])

-----------------------------------------------------------------------------
(* The log *)

\* The greater of two numbers.
LEMMA MaxOfTwo ==
    ASSUME NEW x \in Int, NEW y \in Int
    PROVE  Max({x, y}) \in {x, y} /\ y <= Max({x, y})
<1> DEFINE most == IF x >= y THEN x ELSE y
<1>1. most \in {x, y} /\ \A z \in {x, y} : most >= z
  OBVIOUS
<1>2. \E w \in {x, y} : \A z \in {x, y} : w >= z
  BY <1>1
<1>3. Max({x, y}) \in {x, y} /\ \A z \in {x, y} : Max({x, y}) >= z
  BY <1>2 DEF Max
<1> QED
  BY <1>3

\* A slate is made of candidates.
LEMMA SlateOfCandidates ==
    ASSUME NEW candidates
    PROVE  select_fan_out(candidates) \subseteq candidates
  BY DEF select_fan_out, Top, Hindmost, Unknown

\* What record makes of a row: its counts keep their widths and their order.
LEMMA RecordedRow ==
    ASSUME NEW seen \in PeerObservations, NEW outcome \in AskOutcome,
           NEW latency \in 0..MaxU64,
           seen = unobserved \/ Ordered(seen)
    PROVE  /\ recorded(seen, outcome, latency) \in PeerObservations
           /\ Ordered(recorded(seen, outcome, latency))
<1> DEFINE row == recorded(seen, outcome, latency)
           one(x) == SaturatingAdd(x, 1, MaxU32)
<1>1. MaxU32 \in Nat \ {0} /\ MaxU64 \in Nat /\ Faded \in Nat
  BY RoutingAssumption
<1>2. /\ seen.asks \in 0..MaxU32 /\ seen.answered \in 0..MaxU32
      /\ seen.conclusive \in 0..MaxU32 /\ seen.latency_total \in 0..MaxU64
  BY DEF PeerObservations
<1>3. seen.conclusive <= seen.answered /\ seen.answered <= seen.asks
  BY DEF unobserved, Ordered
<1>4. \A x \in 0..MaxU32 : one(x) \in 0..MaxU32 /\ one(x) >= x /\ one(x) >= 1
  BY <1>1 DEF SaturatingAdd
<1>5. \A x, y \in 0..MaxU32 : x <= y => one(x) <= one(y)
  BY <1>1 DEF SaturatingAdd
<1>6. SaturatingAdd(seen.latency_total, latency, MaxU64) \in 0..MaxU64
  BY <1>1, <1>2 DEF SaturatingAdd
<1> HIDE DEF one
<1>7. /\ row.asks = one(seen.asks)
      /\ row.answered = IF outcome # "Silent" THEN one(seen.answered) ELSE seen.answered
      /\ row.conclusive = IF outcome = "Conclusive" THEN one(seen.conclusive) ELSE seen.conclusive
      /\ row.latency_total \in 0..MaxU64
      /\ row.age = 0
  BY <1>2, <1>6 DEF recorded, one
<1>8. row \in PeerObservations
  <2>1. /\ row.asks \in 0..MaxU32 /\ row.answered \in 0..MaxU32
        /\ row.conclusive \in 0..MaxU32 /\ row.age \in 0..Faded
    BY <1>1, <1>2, <1>4, <1>7
  <2>2. row = [asks |-> row.asks, answered |-> row.answered, conclusive |-> row.conclusive,
               latency_total |-> row.latency_total, age |-> row.age]
    BY DEF recorded
  <2> HIDE DEF row
  <2> QED
    BY <1>7, <2>1, <2>2 DEF PeerObservations
<1>9. Ordered(row)
  <2>1. row.asks >= 1
    BY <1>2, <1>4, <1>7
  <2>2. row.answered <= row.asks
    <3>1. one(seen.answered) <= one(seen.asks) /\ seen.answered <= one(seen.asks)
      BY <1>1, <1>2, <1>3, <1>4, <1>5
    <3> QED
      BY <1>7, <3>1
  <2>3. row.conclusive <= row.answered
    <3>1. one(seen.conclusive) <= one(seen.answered) /\ seen.conclusive <= one(seen.answered)
      BY <1>1, <1>2, <1>3, <1>4, <1>5
    <3> QED
      BY <1>3, <1>7, <3>1
  <2> HIDE DEF row
  <2> QED
    BY <1>1, <1>8, <2>1, <2>2, <2>3 DEF Ordered, PeerObservations
<1> QED
  BY <1>8, <1>9

\* Recording keeps the log within its capacity and its rows in order.
LEMMA RecordKeeps ==
    ASSUME IInv, NEW p \in Peers, NEW outcome \in AskOutcome,
           NEW latency \in 0..MaxU64, record(p, outcome, latency)
    PROVE  /\ Tracked' \subseteq Peers
           /\ log' \in [Tracked' -> PeerObservations]
           /\ Cardinality(Tracked') <= capacity
           /\ \A q \in Tracked' : Ordered(log'[q])
<1> DEFINE seen == recorded(of(p), outcome, latency)
<1>1. /\ Tracked \subseteq Peers /\ log \in [Tracked -> PeerObservations]
      /\ capacity \in Nat \ {0} /\ Cardinality(Tracked) <= capacity
      /\ \A q \in Tracked : Ordered(log[q])
  BY DEF IInv, TypeOK
<1>2. IsFiniteSet(Tracked) /\ Cardinality(Tracked) \in Nat
  BY <1>1, RoutingAssumption, FS_Subset, FS_CardinalityType
<1>3. of(p) \in PeerObservations /\ (of(p) = unobserved \/ Ordered(of(p)))
  <2>1. unobserved \in PeerObservations
    BY RoutingAssumption DEF unobserved, PeerObservations
  <2> QED
    BY <1>1, <2>1 DEF of
<1>4. seen \in PeerObservations /\ Ordered(seen)
  BY <1>3, RecordedRow
<1> HIDE DEF seen
<1>5. ASSUME NEW kept \in SUBSET Tracked, log' = With(p, seen, kept),
             Cardinality(kept \cup {p}) <= capacity
      PROVE  /\ Tracked' \subseteq Peers
             /\ log' \in [Tracked' -> PeerObservations]
             /\ Cardinality(Tracked') <= capacity
             /\ \A q \in Tracked' : Ordered(log'[q])
  <2>1. Tracked' = kept \cup {p}
    BY <1>5 DEF With, Tracked
  <2>2. \A q \in Tracked' : log'[q] = IF q = p THEN seen ELSE log[q]
    BY <1>5, <2>1 DEF With
  <2>3. \A q \in Tracked' : log'[q] \in PeerObservations /\ Ordered(log'[q])
    BY <1>1, <1>4, <2>1, <2>2
  <2>4. log' \in [Tracked' -> PeerObservations]
    BY <1>5, <2>1, <2>3 DEF With
  <2> QED
    BY <1>1, <1>5, <2>1, <2>3, <2>4
<1>6. CASE p \in Tracked /\ log' = With(p, seen, Tracked)
  <2>1. Tracked \cup {p} = Tracked
    BY <1>6
  <2> QED
    BY <1>1, <1>5, <1>6, <2>1
<1>7. CASE p \notin Tracked /\ Cardinality(Tracked) < capacity /\ log' = With(p, seen, Tracked)
  <2>1. Cardinality(Tracked \cup {p}) = Cardinality(Tracked) + 1
    BY <1>2, <1>7, FS_AddElement
  <2> QED
    BY <1>1, <1>2, <1>5, <1>7, <2>1
<1>8. CASE /\ p \notin Tracked
           /\ \E oldest \in LeastRecent : log' = With(p, seen, Tracked \ {oldest})
  <2>1. PICK oldest \in LeastRecent : log' = With(p, seen, Tracked \ {oldest})
    BY <1>8
  <2>2. oldest \in Tracked
    BY DEF LeastRecent
  <2>3. IsFiniteSet(Tracked \ {oldest}) /\ Cardinality(Tracked \ {oldest}) = Cardinality(Tracked) - 1
    BY <1>2, <2>2, FS_RemoveElement
  <2>4. Cardinality((Tracked \ {oldest}) \cup {p}) = Cardinality(Tracked \ {oldest}) + 1
    BY <1>8, <2>3, FS_AddElement
  <2>5. Cardinality((Tracked \ {oldest}) \cup {p}) <= capacity
    BY <1>1, <1>2, <2>3, <2>4
  <2> QED
    BY <1>5, <2>1, <2>5
<1> QED
  BY <1>6, <1>7, <1>8 DEF record, seen

\* The invariant holds of every behaviour.
THEOREM Invariance == Spec => []IInv
<1>1. Init => IInv
  <2> SUFFICES ASSUME Init PROVE IInv
    OBVIOUS
  <2>1. PICK c \in Capacities : capacity = Max({c, 1})
    BY DEF Init
  <2>2. c \in Nat
    BY RoutingAssumption
  <2>3. c \in Int /\ 1 \in Int
    BY <2>2
  <2>4. Max({c, 1}) \in {c, 1} /\ 1 <= Max({c, 1})
    BY ONLY <2>3, MaxOfTwo
  <2>5. capacity \in Nat \ {0}
    BY <2>1, <2>2, <2>4
  <2>6. Tracked = {} /\ log \in [Tracked -> PeerObservations] /\ Cardinality({}) = 0
    BY FS_EmptySet DEF Init, Tracked
  <2> QED
    BY <2>5, <2>6, RoutingAssumption DEF Init, IInv, TypeOK
<1>2. IInv /\ [Next]_vars => IInv'
  <2> SUFFICES ASSUME IInv, [Next]_vars PROVE IInv'
    OBVIOUS
  <2>1. /\ Tracked \subseteq Peers /\ log \in [Tracked -> PeerObservations]
        /\ capacity \in Nat \ {0} /\ Cardinality(Tracked) <= capacity
        /\ pool \subseteq Peers /\ asked \subseteq Peers
        /\ \A q \in Tracked : Ordered(log[q])
    BY DEF IInv, TypeOK
  <2>2. ASSUME UNCHANGED <<log, capacity>>, pool' \subseteq Peers, asked' \subseteq Peers
        PROVE  IInv'
    BY <2>1, <2>2 DEF IInv, TypeOK, Tracked
  <2>3. CASE Ask
    BY <2>1, <2>2, <2>3, SlateOfCandidates DEF Ask
  <2>4. CASE Retain
    <3>1. Tracked' = Tracked \cap pool /\ \A p \in Tracked' : log'[p] = log[p]
      BY <2>4 DEF Retain, Tracked
    <3>2. log' \in [Tracked' -> PeerObservations]
      BY <2>1, <2>4, <3>1 DEF Retain
    <3>3. Cardinality(Tracked') <= Cardinality(Tracked)
      <4>1. IsFiniteSet(Tracked) /\ Tracked' \in SUBSET Tracked
        BY <2>1, <3>1, RoutingAssumption, FS_Subset
      <4> QED
        BY <4>1, FS_Subset
    <3>4. Cardinality(Tracked') \in Nat /\ Cardinality(Tracked) \in Nat
      BY <2>1, <3>1, RoutingAssumption, FS_Subset, FS_CardinalityType
    <3> QED
      BY <2>1, <2>4, <3>1, <3>2, <3>3, <3>4 DEF Retain, IInv, TypeOK
  <2>5. CASE Tick
    <3> DEFINE older(row) == [row EXCEPT !.age = IF @ < Faded THEN @ + 1 ELSE @]
    <3>1. Tracked' = Tracked /\ log' = [p \in Tracked |-> older(log[p])]
      BY <2>5 DEF Tick, Tracked
    <3>2. \A row \in PeerObservations :
             /\ older(row) \in PeerObservations
             /\ Ordered(row) => Ordered(older(row))
      <4> SUFFICES ASSUME NEW row \in PeerObservations
                   PROVE  /\ older(row) \in PeerObservations
                          /\ Ordered(row) => Ordered(older(row))
        OBVIOUS
      <4>1. row.age \in 0..Faded /\ Faded \in Nat
        BY RoutingAssumption DEF PeerObservations
      <4>2. (IF row.age < Faded THEN row.age + 1 ELSE row.age) \in 0..Faded
        BY <4>1
      <4>3. older(row) \in PeerObservations
        BY <4>2 DEF PeerObservations
      <4>4. /\ older(row).asks = row.asks /\ older(row).answered = row.answered
            /\ older(row).conclusive = row.conclusive
        BY DEF PeerObservations
      <4> QED
        BY <4>3, <4>4 DEF Ordered
    <3> HIDE DEF older
    <3>3. log' \in [Tracked' -> PeerObservations] /\ \A p \in Tracked' : Ordered(log'[p])
      BY <2>1, <3>1, <3>2
    <3> QED
      BY <2>1, <2>5, <3>1, <3>3 DEF Tick, IInv, TypeOK
  <2>6. ASSUME NEW p \in Peers, Complete(p) PROVE IInv'
    <3>1. PICK outcome \in AskOutcome, latency \in 0..MaxU64 : record(p, outcome, latency)
      BY <2>6, RoutingAssumption DEF Complete, AskOutcome
    <3>2. /\ Tracked' \subseteq Peers
          /\ log' \in [Tracked' -> PeerObservations]
          /\ Cardinality(Tracked') <= capacity
          /\ \A q \in Tracked' : Ordered(log'[q])
      BY <3>1, RecordKeeps
    <3> QED
      BY <2>1, <2>6, <3>2 DEF Complete, IInv, TypeOK
  <2>7. ASSUME NEW p \in Visitors, Connect(p) \/ Disconnect(p) PROVE IInv'
    BY <2>1, <2>2, <2>7, RoutingAssumption DEF Connect, Disconnect
  <2>8. CASE UNCHANGED vars
    BY <2>1, <2>2, <2>8 DEF vars
  <2> QED
    BY <2>3, <2>4, <2>5, <2>6, <2>7, <2>8 DEF Next
<1> QED
  BY <1>1, <1>2, PTL DEF Spec

\* The log never holds more peers than its capacity, and every row is one.
THEOREM TypeCorrect == Spec => []TypeOK
<1>1. IInv => TypeOK
  BY DEF IInv
<1> QED
  BY <1>1, Invariance, PTL

-----------------------------------------------------------------------------
(* Scores *)

\* Products keep an order.
LEMMA Scale ==
    ASSUME NEW x \in Int, NEW y \in Int, NEW z \in Nat, x <= y
    PROVE  x * z <= y * z
<1>1. (y - x) \in Nat
  OBVIOUS
<1>2. (y - x) * z >= 0
  BY <1>1
<1>3. (y - x) * z = y * z - x * z
  OBVIOUS
<1>4. x * z \in Int /\ y * z \in Int
  OBVIOUS
<1> QED
  BY <1>2, <1>3, <1>4

\* The weighted sum stays within its weights, whatever it is divided by.
LEMMA WeightedShare ==
    ASSUME NEW asks \in Nat \ {0}, NEW answered \in 0..asks, NEW conclusive \in 0..answered,
           NEW spread \in Nat \ {0}, NEW scaled \in 0..spread, NEW halving \in Nat \ {0},
           NEW num \in Int, NEW den \in Int,
           num = (12 * conclusive + 5 * answered - 10 * asks) * spread + 3 * scaled * asks,
           den = asks * spread * halving
    PROVE  -10 * den <= num /\ num <= 10 * den
<1> DEFINE rates == 12 * conclusive + 5 * answered - 10 * asks
           whole == asks * spread
<1>1. whole \in Nat /\ rates \in Int /\ -10 * asks <= rates /\ rates <= 7 * asks
  OBVIOUS
<1>2. (-10 * asks) * spread <= rates * spread /\ rates * spread <= (7 * asks) * spread
  <2> HIDE DEF rates
  <2> QED
    BY <1>1, Scale
<1>3. scaled * asks <= spread * asks /\ 0 <= scaled * asks
  BY Scale
<1>4. whole <= den
  <2>1. 1 * whole <= halving * whole
    BY <1>1, Scale
  <2>2. halving * whole = den
    OBVIOUS
  <2> QED
    BY <1>1, <2>1, <2>2
<1>5. (-10 * asks) * spread = -10 * whole /\ (7 * asks) * spread = 7 * whole
  OBVIOUS
<1>6. spread * asks = whole /\ 3 * scaled * asks = 3 * (scaled * asks)
  OBVIOUS
<1> DEFINE x == rates * spread
           y == scaled * asks
<1>7. num = x + 3 * y /\ x \in Int /\ y \in Int
  BY <1>6
<1>8. -10 * whole <= x /\ x <= 7 * whole /\ 0 <= y /\ y <= whole
  BY <1>2, <1>3, <1>5, <1>6
<1> HIDE DEF x, y, whole
<1> QED
  BY <1>1, <1>4, <1>7, <1>8

\* What a score is made from, for a row in order.
LEMMA Parts ==
    ASSUME NEW seen \in PeerObservations, Ordered(seen)
    PROVE  LET scaled == LATENCY_SCALE_TICKS * seen.answered
               spread == IF seen.answered = 0 THEN 1 ELSE scaled + seen.latency_total
           IN  /\ seen.asks \in Nat \ {0}
               /\ seen.answered \in 0..seen.asks
               /\ seen.conclusive \in 0..seen.answered
               /\ seen.latency_total \in Nat
               /\ spread \in Nat \ {0}
               /\ scaled \in 0..spread
               /\ Halvings[seen.age] \in Nat \ {0}
<1>1. /\ seen.asks \in Nat /\ seen.answered \in Nat /\ seen.conclusive \in Nat
      /\ seen.latency_total \in Nat /\ seen.age \in 0..Faded
  BY RoutingAssumption DEF PeerObservations
<1>2. LATENCY_SCALE_TICKS \in Nat \ {0} /\ Halvings[seen.age] \in Nat \ {0}
  BY <1>1, RoutingAssumption
<1> DEFINE scaled == LATENCY_SCALE_TICKS * seen.answered
<1>3. scaled \in Nat /\ (seen.answered = 0 => scaled = 0) /\ (seen.answered # 0 => scaled # 0)
  BY <1>1, <1>2
<1> HIDE DEF scaled
<1>4. LET spread == IF seen.answered = 0 THEN 1 ELSE scaled + seen.latency_total
      IN  spread \in Nat \ {0} /\ scaled \in 0..spread
  BY <1>1, <1>3
<1> QED
  BY <1>1, <1>2, <1>4 DEF Ordered, scaled

\* So the score of a row in order is a share.
LEMMA RowShare ==
    ASSUME NEW seen \in PeerObservations, Ordered(seen)
    PROVE  /\ quality(seen).num \in Int
           /\ quality(seen).den \in Nat \ {0}
           /\ -10 * quality(seen).den <= quality(seen).num
           /\ quality(seen).num <= 10 * quality(seen).den
<1> DEFINE scaled == LATENCY_SCALE_TICKS * seen.answered
           spread == IF seen.answered = 0 THEN 1 ELSE scaled + seen.latency_total
           rates  == 12 * seen.conclusive + 5 * seen.answered - 10 * seen.asks
           num    == rates * spread + 3 * scaled * seen.asks
           den    == seen.asks * spread * Halvings[seen.age]
<1>1. /\ seen.asks \in Nat \ {0} /\ seen.answered \in 0..seen.asks
      /\ seen.conclusive \in 0..seen.answered
      /\ spread \in Nat \ {0} /\ scaled \in 0..spread
      /\ Halvings[seen.age] \in Nat \ {0}
  BY Parts
<1>2. quality(seen) = IF is_unobserved(seen) \/ seen.age = Faded
                      THEN [num |-> 0, den |-> 1] ELSE [num |-> num, den |-> den]
  BY DEF quality
<1> HIDE DEF scaled, spread
<1>3. num \in Int /\ den \in Nat \ {0}
  BY <1>1
<1>4. -10 * den <= num /\ num <= 10 * den
  <2>1. /\ num = (12 * seen.conclusive + 5 * seen.answered - 10 * seen.asks) * spread
                    + 3 * scaled * seen.asks
        /\ den = seen.asks * spread * Halvings[seen.age]
    OBVIOUS
  <2>2. num \in Int /\ den \in Int
    BY <1>3
  <2> HIDE DEF num, den, rates
  <2> QED
    BY ONLY <1>1, <2>1, <2>2, WeightedShare
<1> HIDE DEF num, den
<1> QED
  BY <1>2, <1>3, <1>4

\* No history, however long, puts a score outside the range of a share
\* (routing.rs:136-137), and a tracked peer has been observed.
THEOREM SharesHold == Spec => []QualityIsAShare
<1>1. IInv => QualityIsAShare
  BY RowShare DEF IInv, TypeOK, QualityIsAShare, Ordered, is_unobserved
<1> QED
  BY <1>1, Invariance, PTL

\* A half-life halves a score that has not faded, and leaves nothing of it when
\* it was the last.
LEMMA HalfLife ==
    ASSUME NEW row \in PeerObservations, Ordered(row),
           NEW older, older = [row EXCEPT !.age = IF @ < Faded THEN @ + 1 ELSE @]
    PROVE  LET q == quality(row)
               r == quality(older)
           IN  /\ older.age = Faded => r = [num |-> 0, den |-> 1]
               /\ older.age # Faded => r = [num |-> q.num, den |-> 2 * q.den]
<1>1. row.age \in 0..Faded /\ Faded \in Nat \ {0}
  BY RoutingAssumption DEF PeerObservations
<1>2. /\ older.asks = row.asks /\ older.answered = row.answered
      /\ older.conclusive = row.conclusive /\ older.latency_total = row.latency_total
      /\ older.age = IF row.age < Faded THEN row.age + 1 ELSE row.age
  BY DEF PeerObservations
<1>3. ~is_unobserved(row) /\ ~is_unobserved(older)
  BY <1>2 DEF Ordered, is_unobserved, PeerObservations
<1>4. ASSUME older.age # Faded
      PROVE  quality(older) = [num |-> quality(row).num, den |-> 2 * quality(row).den]
  <2>1. row.age < Faded /\ older.age = row.age + 1 /\ older.age \in 1..Faded
    BY <1>1, <1>2, <1>4
  <2>2. Halvings[older.age] = 2 * Halvings[row.age]
    <3>1. older.age - 1 = row.age
      BY <1>1, <2>1
    <3> QED
      BY <2>1, <3>1, RoutingAssumption
  <2> DEFINE scaled == LATENCY_SCALE_TICKS * row.answered
             spread == IF row.answered = 0 THEN 1 ELSE scaled + row.latency_total
             rates  == 12 * row.conclusive + 5 * row.answered - 10 * row.asks
             num    == rates * spread + 3 * scaled * row.asks
  <2>3. row.age # Faded
    BY <1>1, <2>1
  <2>4. quality(row) = [num |-> num, den |-> row.asks * spread * Halvings[row.age]]
    BY <1>3, <2>3 DEF quality
  <2>5. quality(older) = [num |-> num, den |-> row.asks * spread * Halvings[older.age]]
    BY <1>2, <1>3, <1>4 DEF quality
  <2>6. row.asks \in Nat /\ spread \in Nat /\ Halvings[row.age] \in Nat
    BY Parts
  <2> HIDE DEF num, spread
  <2>7. row.asks * spread * (2 * Halvings[row.age]) = 2 * (row.asks * spread * Halvings[row.age])
    BY <2>6
  <2> QED
    BY <2>2, <2>4, <2>5, <2>7
<1>5. older.age = Faded => quality(older) = [num |-> 0, den |-> 1]
  BY DEF quality
<1> QED
  BY <1>4, <1>5

\* A score is at least twice as close to "unknown" with every half-life, on its
\* own side, and there in the end (routing.rs:26-32).
THEOREM TimeTakesBack == Spec => TimeFades
<1>1. ASSUME IInv, Tick, NEW p \in Tracked
      PROVE  LET q == quality(log[p])
                 r == quality(log'[p])
             IN  /\ q.num > 0 => r.num >= 0
                 /\ q.num < 0 => r.num <= 0
                 /\ 2 * Distance(r.num) * q.den <= Distance(q.num) * r.den
                 /\ log'[p].age = Faded => r.num = 0
  <2> DEFINE row == log[p]
             q == quality(row)
             r == quality(log'[p])
  <2>1. row \in PeerObservations /\ Ordered(row)
    BY <1>1 DEF IInv, TypeOK
  <2>2. log'[p] = [row EXCEPT !.age = IF @ < Faded THEN @ + 1 ELSE @]
    BY <1>1 DEF Tick
  <2>3. q.num \in Int /\ q.den \in Nat \ {0}
    BY <2>1, RowShare
  <2>4. /\ log'[p].age = Faded => r = [num |-> 0, den |-> 1]
        /\ log'[p].age # Faded => r = [num |-> q.num, den |-> 2 * q.den]
    BY <2>1, <2>2, HalfLife
  <2> HIDE DEF q, r
  <2>5. CASE log'[p].age = Faded
    <3>1. r.num = 0 /\ r.den = 1
      BY <2>4, <2>5
    <3>2. Distance(q.num) \in Nat /\ Distance(0) = 0
      BY <2>3 DEF Distance
    <3>3. 2 * Distance(r.num) * q.den <= Distance(q.num) * r.den
      BY <2>3, <3>1, <3>2
    <3> QED
      BY <3>1, <3>3 DEF q, r
  <2>6. CASE log'[p].age # Faded
    <3>1. r.num = q.num /\ r.den = 2 * q.den
      BY <2>4, <2>6
    <3>2. Distance(q.num) \in Nat
      BY <2>3 DEF Distance
    <3>3. 2 * Distance(r.num) * q.den <= Distance(q.num) * r.den
      <4>1. \A d, n \in Nat : 2 * d * n = d * (2 * n)
        OBVIOUS
      <4>2. 2 * Distance(q.num) * q.den = Distance(q.num) * (2 * q.den)
        BY <2>3, <3>2, <4>1
      <4>3. Distance(q.num) * (2 * q.den) \in Int
        BY <2>3, <3>2
      <4> QED
        BY <3>1, <4>2, <4>3
    <3>4. (q.num > 0 => r.num >= 0) /\ (q.num < 0 => r.num <= 0)
      BY <2>3, <3>1
    <3> QED
      BY <2>6, <3>3, <3>4 DEF q, r
  <2> QED
    BY <2>5, <2>6
<1>2. IInv /\ [Next]_vars
        => [Tick => \A p \in Tracked :
              LET q == quality(log[p])
                  r == quality(log'[p])
              IN  /\ q.num > 0 => r.num >= 0
                  /\ q.num < 0 => r.num <= 0
                  /\ 2 * Distance(r.num) * q.den <= Distance(q.num) * r.den
                  /\ log'[p].age = Faded => r.num = 0]_vars
  BY <1>1
<1> QED
  BY <1>2, Invariance, PTL DEF Spec, TimeFades

-----------------------------------------------------------------------------
(* An answer and a silence *)

\* One more answer, no slower than the others on average, does not lower the
\* share of the latency.
LEMMA LatencyShareGrows ==
    ASSUME NEW scale \in Nat, NEW answered \in Nat, NEW total \in Nat, NEW latency \in Nat,
           NEW new \in Nat, new <= total + latency, latency * answered <= total,
           NEW spread \in Nat,
           spread = IF answered = 0 THEN 1 ELSE scale * answered + total
    PROVE  (scale * answered) * (scale * (answered + 1) + new)
              <= (scale * (answered + 1)) * spread
<1>1. CASE answered = 0
  <2>1. scale * answered = 0 /\ scale * (answered + 1) = scale /\ spread = 1
    BY <1>1
  <2>2. (scale * answered) * (scale * (answered + 1) + new) = 0
    BY <2>1
  <2> QED
    BY <2>1, <2>2
<1>2. CASE answered # 0
  <2>1. spread = scale * answered + total
    BY <1>2
  <2>2. new * answered <= (total + latency) * answered
    BY Scale
  <2>3. (total + latency) * answered = total * answered + latency * answered
    OBVIOUS
  <2> DEFINE x == new * answered
             y == total * answered
             z == latency * answered
  <2>4. x \in Nat /\ y \in Nat /\ z \in Nat
    OBVIOUS
  <2>5. x <= y + total
    <3>1. x <= y + z /\ z <= total
      BY <2>2, <2>3
    <3> HIDE DEF x, y, z
    <3> QED
      BY <2>4, <3>1
  <2>6. x * scale <= (y + total) * scale
    <3> HIDE DEF x, y
    <3> QED
      BY <2>4, <2>5, Scale
  <2> DEFINE square == (scale * answered) * (scale * (answered + 1))
  <2>7. (scale * answered) * (scale * (answered + 1) + new) = square + x * scale
    OBVIOUS
  <2>8. (scale * (answered + 1)) * (scale * answered + total) = square + (y + total) * scale
    OBVIOUS
  <2>9. square \in Nat /\ x * scale \in Nat /\ (y + total) * scale \in Nat
    OBVIOUS
  <2> HIDE DEF square, x, y
  <2> QED
    BY <2>1, <2>6, <2>7, <2>8, <2>9
<1> QED
  BY <1>1, <1>2

\* And with it the score.
LEMMA AnswerBeatsSilence ==
    ASSUME NEW asks \in Nat, NEW spread \in Nat, NEW wider \in Nat,
           NEW low \in Int, NEW high \in Int, low <= high,
           NEW part \in Nat, NEW more \in Nat, part * wider <= more * spread
    PROVE  (low * spread + 3 * part * asks) * (asks * wider)
              <= (high * wider + 3 * more * asks) * (asks * spread)
<1> DEFINE u == asks * (spread * wider)
           w == 3 * (asks * asks)
           s == part * wider
           t == more * spread
<1>1. u \in Nat /\ w \in Nat /\ s \in Nat /\ t \in Nat
  OBVIOUS
<1>2. (low * spread + 3 * part * asks) * (asks * wider) = low * u + s * w
  OBVIOUS
<1>3. (high * wider + 3 * more * asks) * (asks * spread) = high * u + t * w
  OBVIOUS
<1> HIDE DEF u, w, s, t
<1>4. low * u <= high * u
  BY <1>1, Scale
<1>5. s * w <= t * w
  BY <1>1, Scale DEF s, t
<1>6. low * u \in Int /\ high * u \in Int /\ s * w \in Int /\ t * w \in Int
  BY <1>1
<1> QED
  BY <1>2, <1>3, <1>4, <1>5, <1>6

\* The scores a silence and an empty answer leave behind.
LEMMA RowBeatsSilence ==
    ASSUME NEW seen \in PeerObservations, seen = unobserved \/ Ordered(seen),
           NEW latency \in 0..MaxU64,
           seen.answered < MaxU32, latency * seen.answered <= seen.latency_total
    PROVE  ~Exceeds(quality(recorded(seen, "Silent", 0)),
                    quality(recorded(seen, "Inconclusive", latency)))
<1> DEFINE silent   == recorded(seen, "Silent", 0)
           answer   == recorded(seen, "Inconclusive", latency)
           asks     == silent.asks
           new      == answer.latency_total
           part     == LATENCY_SCALE_TICKS * seen.answered
           more     == LATENCY_SCALE_TICKS * (seen.answered + 1)
           spread   == IF seen.answered = 0 THEN 1 ELSE part + seen.latency_total
           wider    == more + new
           low      == 12 * seen.conclusive + 5 * seen.answered - 10 * asks
           high     == 12 * seen.conclusive + 5 * (seen.answered + 1) - 10 * asks
<1>1. /\ MaxU32 \in Nat /\ MaxU64 \in Nat /\ LATENCY_SCALE_TICKS \in Nat \ {0}
      /\ Faded \in Nat \ {0} /\ Halvings[0] = 1
  BY RoutingAssumption
<1>2. /\ silent \in PeerObservations /\ Ordered(silent)
      /\ answer \in PeerObservations /\ Ordered(answer)
  BY <1>1, RecordedRow DEF AskOutcome
<1>3. /\ seen.answered \in Nat /\ seen.conclusive \in Nat /\ seen.latency_total \in Nat
      /\ latency \in Nat
  BY <1>1 DEF PeerObservations
<1>4. /\ silent.answered = seen.answered /\ silent.conclusive = seen.conclusive
      /\ silent.latency_total = seen.latency_total /\ silent.age = 0
      /\ answer.asks = asks /\ answer.conclusive = seen.conclusive /\ answer.age = 0
  BY DEF recorded
<1>5. answer.answered = seen.answered + 1
  BY <1>1, <1>3 DEF recorded, SaturatingAdd
<1>6. new \in Nat /\ new <= seen.latency_total + latency
  BY <1>1, <1>3 DEF recorded, SaturatingAdd
<1>7. asks \in Nat \ {0}
  BY <1>1, <1>2 DEF Ordered, PeerObservations
<1> HIDE DEF silent, answer, asks, new
<1>8. /\ part \in Nat /\ more \in Nat \ {0} /\ spread \in Nat /\ wider \in Nat
      /\ low \in Int /\ high \in Int /\ low <= high
  <2>1. part \in Nat /\ more \in Nat \ {0}
    BY <1>1, <1>3
  <2> HIDE DEF part, more
  <2> QED
    BY <1>3, <1>6, <1>7, <2>1
<1>9. quality(silent) = [num |-> low * spread + 3 * part * asks, den |-> asks * spread]
  <2>1. ~is_unobserved(silent) /\ silent.age # Faded
    BY <1>1, <1>4, <1>7 DEF is_unobserved, asks
  <2>2. asks * spread * 1 = asks * spread
    BY <1>7, <1>8
  <2> QED
    BY <1>1, <1>4, <2>1, <2>2 DEF quality, asks
<1>10. quality(answer) = [num |-> high * wider + 3 * more * asks, den |-> asks * wider]
  <2>1. ~is_unobserved(answer) /\ answer.age # Faded /\ answer.answered # 0
    BY <1>1, <1>3, <1>4, <1>5, <1>7 DEF is_unobserved
  <2>2. asks * wider * 1 = asks * wider
    BY <1>7, <1>8
  <2> QED
    BY <1>1, <1>4, <1>5, <2>1, <2>2 DEF quality, new
<1>11. part * wider <= more * spread
  <2>1. LATENCY_SCALE_TICKS \in Nat
    BY <1>1
  <2> QED
    BY <1>3, <1>6, <1>8, <2>1, LatencyShareGrows
<1> HIDE DEF part, more, spread, wider, low, high
<1>12. (low * spread + 3 * part * asks) * (asks * wider)
          <= (high * wider + 3 * more * asks) * (asks * spread)
  BY <1>7, <1>8, <1>11, AnswerBeatsSilence
<1> DEFINE mute == (low * spread + 3 * part * asks) * (asks * wider)
           heard == (high * wider + 3 * more * asks) * (asks * spread)
<1>13. mute \in Int /\ heard \in Int
  BY <1>7, <1>8
<1>14. ~(mute > heard)
  <2> HIDE DEF mute, heard
  <2> QED
    BY <1>12, <1>13 DEF mute, heard
<1> QED
  BY <1>9, <1>10, <1>14 DEF Exceeds, silent, answer

\* A peer that answered, even with nothing, is never ranked below itself had
\* it been silent, while it is no slower than before.
THEOREM AnsweringPays == Spec => []PromptAnswersBeatSilence
<1>1. IInv => PromptAnswersBeatSilence
  <2> SUFFICES ASSUME IInv, NEW p \in Peers, NEW latency \in Latencies,
                      of(p).answered < MaxU32,
                      latency * of(p).answered <= of(p).latency_total
               PROVE  ~Exceeds(quality(recorded(of(p), "Silent", 0)),
                               quality(recorded(of(p), "Inconclusive", latency)))
    BY DEF PromptAnswersBeatSilence
  <2>1. of(p) \in PeerObservations /\ (of(p) = unobserved \/ Ordered(of(p)))
    BY RoutingAssumption DEF of, IInv, TypeOK, unobserved, PeerObservations
  <2>2. latency \in 0..MaxU64
    BY RoutingAssumption
  <2> HIDE DEF of
  <2> QED
    BY <2>1, <2>2, RowBeatsSilence
<1> QED
  BY <1>1, Invariance, PTL

\* A score is a share, and with every half-life at least twice as close to that
\* of a peer never observed, on its own side, until nothing is left of it.
THEOREM SharesFadeAway == Spec => SharesFade
  BY SharesHold, TimeTakesBack, PTL DEF SharesFade

-----------------------------------------------------------------------------
(* The slate *)

\* p goes before q, whoever else is ranked with them.
Better(p, q) ==
    \/ Exceeds(quality(of(p)), quality(of(q)))
    \/ Equals(quality(of(p)), quality(of(q))) /\ Tiebreak[p] < Tiebreak[q]

\* Fractions are compared by a total order.
LEMMA Fractions ==
    ASSUME NEW a \in Int, NEW b \in Nat \ {0}, NEW c \in Int, NEW d \in Nat \ {0},
           NEW e \in Int, NEW f \in Nat \ {0}, a * d >= c * b, c * f >= e * d
    PROVE  /\ a * f >= e * b
           /\ a * f = e * b => a * d = c * b /\ c * f = e * d
<1> DEFINE x == (a * f) * d
           y == (c * f) * b
           z == (e * b) * d
<1>1. x \in Int /\ y \in Int /\ z \in Int /\ a * f \in Int /\ e * b \in Int
      /\ a * d \in Int /\ c * b \in Int /\ c * f \in Int /\ e * d \in Int
  OBVIOUS
<1>2. (c * b) * f <= (a * d) * f /\ (e * d) * b <= (c * f) * b
  BY <1>1, Scale
<1>3. (c * b) * f = y /\ (a * d) * f = x /\ (e * d) * b = z
  OBVIOUS
<1>4. z <= y /\ y <= x
  BY <1>2, <1>3
<1>5. \A v, w \in Int, n \in Nat \ {0} : v * n <= w * n => v <= w
  <2> SUFFICES ASSUME NEW v \in Int, NEW w \in Int, NEW n \in Nat \ {0}, v > w
               PROVE  v * n > w * n
    OBVIOUS
  <2>1. v - w \in Nat \ {0}
    OBVIOUS
  <2>2. (v - w) * n > 0
    BY <2>1
  <2>3. (v - w) * n = v * n - w * n /\ v * n \in Int /\ w * n \in Int
    OBVIOUS
  <2> QED
    BY <2>2, <2>3
<1>6. e * b <= a * f
  <2>1. z <= x
    BY <1>1, <1>4
  <2> QED
    BY <1>1, <1>5, <2>1
<1>7. a * f = e * b => a * d = c * b /\ c * f = e * d
  <2> SUFFICES ASSUME a * f = e * b PROVE a * d = c * b /\ c * f = e * d
    OBVIOUS
  <2>1. x = y /\ y = z
    BY <1>1, <1>4
  <2>2. (a * d) * f <= (c * b) * f /\ (c * f) * b <= (e * d) * b
    BY <1>1, <1>3, <2>1
  <2>3. a * d <= c * b /\ c * f <= e * d
    BY <1>1, <1>5, <2>2
  <2> QED
    BY <1>1, <2>3
<1> QED
  BY <1>1, <1>6, <1>7

\* Of any peers one goes before the other, never both, and going before is
\* transitive.
LEMMA BetterIsAnOrder ==
    ASSUME IInv, NEW p \in Peers, NEW q \in Peers, NEW r \in Peers
    PROVE  /\ ~Better(p, p)
           /\ p # q => Better(p, q) \/ Better(q, p)
           /\ Better(p, q) /\ Better(q, r) => Better(p, r)
<1>1. \A s \in Peers : quality(of(s)).num \in Int /\ quality(of(s)).den \in Nat \ {0}
  <2> SUFFICES ASSUME NEW s \in Peers
               PROVE  quality(of(s)).num \in Int /\ quality(of(s)).den \in Nat \ {0}
    OBVIOUS
  <2>1. CASE s \in Tracked
    BY <2>1, RowShare DEF of, IInv, TypeOK
  <2>2. CASE s \notin Tracked
    BY <2>2 DEF of, unobserved, is_unobserved, quality
  <2> QED
    BY <2>1, <2>2
<1>2. \A s \in Peers : Tiebreak[s] \in Nat
  BY RoutingAssumption
<1> DEFINE num(s) == quality(of(s)).num
           den(s) == quality(of(s)).den
<1>3. \A s, t \in Peers : Better(s, t) <=>
         \/ num(s) * den(t) > num(t) * den(s)
         \/ num(s) * den(t) = num(t) * den(s) /\ Tiebreak[s] < Tiebreak[t]
  BY DEF Better, Exceeds, Equals
<1>4. \A s, t \in Peers : num(s) * den(t) \in Int
  <2> SUFFICES ASSUME NEW s \in Peers, NEW t \in Peers PROVE num(s) * den(t) \in Int
    OBVIOUS
  <2> QED
    BY <1>1
<1>5. /\ num(p) \in Int /\ num(q) \in Int /\ num(r) \in Int
      /\ den(p) \in Nat \ {0} /\ den(q) \in Nat \ {0} /\ den(r) \in Nat \ {0}
  BY <1>1
<1> HIDE DEF num, den
<1>6. ~Better(p, p)
  BY <1>2, <1>3, <1>4
<1>7. ASSUME p # q PROVE Better(p, q) \/ Better(q, p)
  <2>1. Tiebreak[p] # Tiebreak[q]
    BY <1>7, RoutingAssumption
  <2> QED
    BY <1>2, <1>3, <1>4, <2>1
<1>8. ASSUME Better(p, q), Better(q, r) PROVE Better(p, r)
  <2>1. num(p) * den(q) >= num(q) * den(p) /\ num(q) * den(r) >= num(r) * den(q)
    BY <1>3, <1>4, <1>8
  <2>2. /\ num(p) * den(r) >= num(r) * den(p)
        /\ num(p) * den(r) = num(r) * den(p) =>
              num(p) * den(q) = num(q) * den(p) /\ num(q) * den(r) = num(r) * den(q)
    BY <1>5, <2>1, Fractions
  <2>3. num(p) * den(r) = num(r) * den(p) => Tiebreak[p] < Tiebreak[r]
    BY <1>2, <1>3, <1>4, <1>8, <2>2
  <2> QED
    BY <1>3, <1>4, <2>2, <2>3
<1> QED
  BY <1>6, <1>7, <1>8

\* The candidates that go before p.
Before(p, candidates) == {q \in candidates : Better(q, p)}

\* As many places as candidates, one each.
LEMMA Places ==
    ASSUME IInv, NEW candidates \in SUBSET Peers
    PROVE  LET n == Cardinality(candidates)
               place == [p \in candidates |-> Cardinality(Before(p, candidates))]
           IN  /\ IsFiniteSet(candidates) /\ n \in Nat
               /\ place \in [candidates -> 0..(n - 1)]
               /\ \A p, q \in candidates : place[p] = place[q] => p = q
               /\ \A i \in 0..(n - 1) : \E p \in candidates : place[p] = i
<1> DEFINE n == Cardinality(candidates)
           place == [p \in candidates |-> Cardinality(Before(p, candidates))]
<1>1. IsFiniteSet(candidates) /\ n \in Nat
  BY RoutingAssumption, FS_Subset, FS_CardinalityType
<1>2. ASSUME NEW p \in candidates
      PROVE  /\ IsFiniteSet(Before(p, candidates))
             /\ Cardinality(Before(p, candidates)) \in 0..(n - 1)
  <2>1. Before(p, candidates) \in SUBSET (candidates \ {p})
    BY BetterIsAnOrder DEF Before
  <2>2. IsFiniteSet(candidates \ {p}) /\ Cardinality(candidates \ {p}) = n - 1
    BY <1>1, FS_RemoveElement
  <2>3. /\ IsFiniteSet(Before(p, candidates))
        /\ Cardinality(Before(p, candidates)) <= n - 1
    BY <2>1, <2>2, FS_Subset
  <2>4. Cardinality(Before(p, candidates)) \in Nat
    BY <2>3, FS_CardinalityType
  <2> QED
    BY <1>1, <2>3, <2>4
<1>3. ASSUME NEW p \in candidates, NEW q \in candidates, Better(p, q)
      PROVE  place[p] < place[q]
  <2>1. Before(p, candidates) \in SUBSET Before(q, candidates)
    <3> SUFFICES ASSUME NEW r \in candidates, Better(r, p) PROVE Better(r, q)
      BY DEF Before
    <3> QED
      BY <1>3, BetterIsAnOrder
  <2>2. p \in Before(q, candidates) /\ p \notin Before(p, candidates)
    BY <1>3, BetterIsAnOrder DEF Before
  <2>3. /\ Cardinality(Before(p, candidates)) <= Cardinality(Before(q, candidates))
        /\ Cardinality(Before(q, candidates)) # Cardinality(Before(p, candidates))
    BY <1>2, <2>1, <2>2, FS_Subset
  <2>4. Cardinality(Before(p, candidates)) \in Nat /\ Cardinality(Before(q, candidates)) \in Nat
    BY <1>2
  <2> QED
    BY <2>3, <2>4
<1>4. place \in [candidates -> 0..(n - 1)]
  BY <1>2
<1>5. \A p \in candidates : place[p] \in Nat
  BY <1>2
<1> HIDE DEF place
<1>6. \A p, q \in candidates : place[p] = place[q] => p = q
  <2> SUFFICES ASSUME NEW p \in candidates, NEW q \in candidates, p # q
               PROVE  place[p] # place[q]
    OBVIOUS
  <2>1. Better(p, q) \/ Better(q, p)
    BY BetterIsAnOrder
  <2>2. place[p] < place[q] \/ place[q] < place[p]
    BY <1>3, <2>1
  <2> QED
    BY <1>5, <2>2
<1>7. place \in Injection(candidates, 0..(n - 1))
  BY <1>4, <1>6, Fun_IsInj
<1>8. IsFiniteSet(0..(n - 1)) /\ Cardinality(0..(n - 1)) = n
  <2>1. 0 \in Int /\ n - 1 \in Int
    BY <1>1
  <2>2. Cardinality(0..(n - 1)) = IF 0 > n - 1 THEN 0 ELSE (n - 1) - 0 + 1
    BY <2>1, FS_Interval
  <2> QED
    BY <1>1, <2>1, <2>2, FS_Interval
<1>9. place \in Surjection(candidates, 0..(n - 1))
  BY <1>7, <1>8, FS_Injection
<1>10. \A i \in 0..(n - 1) : \E p \in candidates : place[p] = i
  BY <1>9 DEF Surjection
<1> QED
  BY <1>1, <1>4, <1>6, <1>10 DEF place

\* The top k of the candidates are k of them, or all.
LEMMA TopIsFull ==
    ASSUME IInv, NEW candidates \in SUBSET Peers, NEW k \in Nat
    PROVE  /\ Top(k, candidates) \subseteq candidates
           /\ k <= Cardinality(candidates) => Cardinality(Top(k, candidates)) = k
           /\ k >= Cardinality(candidates) => Top(k, candidates) = candidates
<1> DEFINE n == Cardinality(candidates)
           place == [p \in candidates |-> Cardinality(Before(p, candidates))]
           top == {p \in candidates : place[p] < k}
<1>1. Top(k, candidates) = top
  <2>1. \A p, q \in candidates : Outranks(Scores(candidates), q, p) <=> Better(q, p)
    BY DEF Outranks, Scores, Better
  <2>2. \A p \in candidates :
           {q \in candidates : Outranks(Scores(candidates), q, p)} = Before(p, candidates)
    BY <2>1 DEF Before
  <2> QED
    BY <2>2 DEF Top
<1>2. /\ IsFiniteSet(candidates) /\ n \in Nat
      /\ place \in [candidates -> 0..(n - 1)]
      /\ \A p, q \in candidates : place[p] = place[q] => p = q
      /\ \A i \in 0..(n - 1) : \E p \in candidates : place[p] = i
  BY Places
<1> HIDE DEF place, n
<1>3. ASSUME k <= n PROVE Cardinality(top) = k
  <2> DEFINE f == [p \in top |-> place[p]]
  <2>1. f \in [top -> 0..(k - 1)]
    <3> SUFFICES ASSUME NEW p \in top PROVE place[p] \in 0..(k - 1)
      OBVIOUS
    <3>1. place[p] \in 0..(n - 1) /\ place[p] < k
      BY <1>2
    <3> QED
      BY <3>1
  <2>2. \A p, q \in top : f[p] = f[q] => p = q
    BY <1>2
  <2>3. \A i \in 0..(k - 1) : \E p \in top : f[p] = i
    <3> SUFFICES ASSUME NEW i \in 0..(k - 1) PROVE \E p \in top : f[p] = i
      OBVIOUS
    <3>1. i \in 0..(n - 1) /\ i < k
      BY <1>2, <1>3
    <3>2. PICK p \in candidates : place[p] = i
      BY <1>2, <3>1
    <3> QED
      BY <3>1, <3>2
  <2>4. IsFiniteSet(0..(k - 1)) /\ Cardinality(0..(k - 1)) = k
    <3>1. 0 \in Int /\ k - 1 \in Int
      OBVIOUS
    <3>2. Cardinality(0..(k - 1)) = IF 0 > k - 1 THEN 0 ELSE (k - 1) - 0 + 1
      BY <3>1, FS_Interval
    <3> QED
      BY <3>1, <3>2, FS_Interval
  <2> HIDE DEF f, top
  <2>5. f \in Injection(top, 0..(k - 1)) /\ f \in Surjection(top, 0..(k - 1))
    BY <2>1, <2>2, <2>3, Fun_IsInj, Fun_IsSurj
  <2>6. Cardinality(top) = Cardinality(0..(k - 1))
    BY <2>4, <2>5, FS_Injection
  <2> QED
    BY <2>4, <2>6
<1>4. ASSUME k >= n PROVE top = candidates
  <2> SUFFICES ASSUME NEW p \in candidates PROVE place[p] < k
    OBVIOUS
  <2>1. place[p] \in 0..(n - 1)
    BY <1>2
  <2> QED
    BY <1>2, <1>4, <2>1
<1> QED
  BY <1>1, <1>3, <1>4 DEF n

\* Of candidates, if there are any, one is the last.
LEMMA OneIsHindmost ==
    ASSUME IInv, NEW candidates \in SUBSET Peers, candidates # {}
    PROVE  \E p \in candidates : Hindmost(candidates) = {p}
<1> DEFINE n == Cardinality(candidates)
<1>1. /\ IsFiniteSet(candidates) /\ n \in Nat
      /\ \A i \in 0..(n - 1) : \E p \in candidates : Cardinality(Before(p, candidates)) = i
  <2> DEFINE place == [p \in candidates |-> Cardinality(Before(p, candidates))]
  <2>1. /\ IsFiniteSet(candidates) /\ n \in Nat
        /\ \A i \in 0..(n - 1) : \E p \in candidates : place[p] = i
    BY Places
  <2> QED
    BY <2>1
<1>2. n # 0
  BY <1>1, FS_EmptySet
<1>3. n - 1 \in 0..(n - 1)
  BY <1>1, <1>2
<1>4. PICK p \in candidates : Cardinality(Before(p, candidates)) = n - 1
  BY <1>1, <1>3
<1>5. Before(p, candidates) = candidates \ {p}
  <2>1. Before(p, candidates) \in SUBSET (candidates \ {p})
    BY BetterIsAnOrder DEF Before
  <2>2. IsFiniteSet(candidates \ {p}) /\ Cardinality(candidates \ {p}) = n - 1
    BY <1>1, FS_RemoveElement
  <2> QED
    BY <1>4, <2>1, <2>2, FS_Subset
<1>6. \A r \in candidates :
         r \in Hindmost(candidates) <=> \A q \in candidates \ {r} : Better(q, r)
  BY DEF Hindmost, Outranks, Scores, Better
<1>7. p \in Hindmost(candidates)
  BY <1>5, <1>6 DEF Before
<1>8. ASSUME NEW r \in Hindmost(candidates), r # p PROVE FALSE
  <2>1. r \in candidates
    BY DEF Hindmost
  <2>2. Better(p, r) /\ Better(r, p)
    BY <1>5, <1>6, <1>8, <2>1 DEF Before
  <2> QED
    BY <2>1, <2>2, BetterIsAnOrder
<1> QED
  BY <1>7, <1>8

\* The least of two numbers.
LEMMA MinOfTwo ==
    ASSUME NEW x \in Int, NEW y \in Int
    PROVE  Min({x, y}) = IF x <= y THEN x ELSE y
<1> DEFINE least == IF x <= y THEN x ELSE y
<1>1. least \in {x, y} /\ \A z \in {x, y} : least <= z
  OBVIOUS
<1>2. \E w \in {x, y} : \A z \in {x, y} : w <= z
  BY <1>1
<1>3. Min({x, y}) \in {x, y} /\ \A z \in {x, y} : Min({x, y}) <= z
  BY <1>2 DEF Min
<1> QED
  BY <1>3

\* Every miss asks a full slate that keeps a slot for a peer never observed
\* and gives up at most one of the best for it, whatever was observed of whom.
THEOREM SlateIsFair == Spec => []SlateKeepsASlot
<1>1. ASSUME IInv PROVE SlateKeepsASlot
  <2> DEFINE slate == select_fan_out(pool)
             best == Top(FanOut, pool)
             n == Cardinality(pool)
  <2>1. pool \in SUBSET Peers /\ FanOut \in Nat
    BY <1>1, RoutingAssumption DEF IInv, TypeOK
  <2>2. IsFiniteSet(pool) /\ n \in Nat
    BY <2>1, RoutingAssumption, FS_Subset, FS_CardinalityType
  <2>3. /\ best \subseteq pool
        /\ FanOut <= n => Cardinality(best) = FanOut
        /\ FanOut >= n => best = pool
    BY <1>1, <2>1, TopIsFull
  <2>4. Min({FanOut, n}) = IF FanOut <= n THEN FanOut ELSE n
    BY <2>1, <2>2, MinOfTwo
  <2>5. Cardinality(best) = Min({FanOut, n})
    BY <2>1, <2>2, <2>3, <2>4
  <2>6. slate \subseteq pool
    BY SlateOfCandidates
  <2>7. IsFiniteSet(best)
    BY <2>2, <2>3, FS_Subset
  <2>8. CASE Explores(pool, best)
    <3>1. /\ FanOut >= 2 /\ Cardinality(best) >= FanOut
          /\ Unknown(best) = {} /\ Unknown(pool \ best) # {}
      BY <2>8 DEF Explores
    <3> DEFINE others == Unknown(pool \ best)
    <3>2. others \in SUBSET Peers /\ others \subseteq pool \ best /\ IsFiniteSet(others)
      BY <2>1, RoutingAssumption, FS_Subset DEF Unknown
    <3>3. Cardinality(others) \in Nat /\ Cardinality(others) # 0
      BY <3>1, <3>2, FS_CardinalityType, FS_EmptySet
    <3>4. Top(1, others) \subseteq others /\ Cardinality(Top(1, others)) = 1
      <4>1. 1 \in Nat /\ 1 <= Cardinality(others)
        BY <3>3
      <4> HIDE DEF others
      <4> QED
        BY <1>1, <3>2, <4>1, TopIsFull
    <3>5. PICK e : Top(1, others) = {e}
      <4>1. IsFiniteSet(Top(1, others))
        BY <3>2, <3>4, FS_Subset
      <4> QED
        BY <3>4, <4>1, FS_Singleton
    <3>6. e \in pool \ best /\ is_unobserved(of(e))
      BY <3>4, <3>5 DEF Unknown
    <3>7. best # {}
      BY <2>1, <3>1, FS_EmptySet
    <3>8. PICK h \in best : Hindmost(best) = {h}
      BY <1>1, <2>1, <2>3, <3>7, OneIsHindmost
    <3>9. slate = (best \ {h}) \cup {e}
      BY <2>8, <3>5, <3>8 DEF select_fan_out
    <3>10. /\ IsFiniteSet(best \ {h})
           /\ Cardinality(best \ {h}) = Cardinality(best) - 1
      BY <2>7, FS_RemoveElement
    <3>11. Cardinality(slate) = Cardinality(best \ {h}) + 1
      <4>1. e \notin best \ {h}
        BY <3>6
      <4> QED
        BY <3>9, <3>10, <4>1, FS_AddElement
    <3>12. Cardinality(best) \in Nat
      BY <2>7, FS_CardinalityType
    <3>13. Cardinality(slate) = Cardinality(best)
      BY <3>10, <3>11, <3>12
    <3>14. e \in Unknown(slate)
      BY <3>6, <3>9 DEF Unknown
    <3>15. best \ slate = {h}
      BY <3>6, <3>8, <3>9
    <3>16. Cardinality(best \ slate) <= 1
      BY <3>15, FS_Singleton
    <3> QED
      BY <2>5, <2>6, <3>1, <3>13, <3>14, <3>16 DEF SlateKeepsASlot
  <2>9. CASE ~Explores(pool, best)
    <3>1. slate = best
      BY <2>9 DEF select_fan_out
    <3>2. best \ slate = {} /\ Cardinality({}) = 0
      BY <3>1, FS_EmptySet
    <3>3. ASSUME FanOut >= 2, Unknown(pool) # {} PROVE Unknown(slate) # {}
      <4>1. CASE FanOut <= n
        <5>1. Cardinality(best) >= FanOut
          BY <2>1, <2>3, <4>1
        <5>2. Unknown(best) # {} \/ Unknown(pool \ best) = {}
          BY <2>9, <3>3, <5>1 DEF Explores
        <5> QED
          BY <3>1, <3>3, <5>2 DEF Unknown
      <4>2. CASE FanOut >= n
        BY <2>3, <3>1, <3>3, <4>2
      <4> QED
        BY <2>1, <2>2, <4>1, <4>2
    <3>4. Cardinality(best \ slate) <= 1
      BY <3>2
    <3> QED
      BY <2>5, <2>6, <3>1, <3>3, <3>4 DEF SlateKeepsASlot
  <2> QED
    BY <2>8, <2>9
<1> QED
  BY <1>1, Invariance, PTL
=============================================================================
