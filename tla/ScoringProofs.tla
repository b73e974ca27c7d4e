--------------------------- MODULE ScoringProofs ---------------------------
(***************************************************************************)
(* Theorems about scores, for any stores, distances, reports and margins.  *)
(*                                                                         *)
(* All of them come from the same bounds: each term of a score lies        *)
(* between nothing and the whole, so what others can bring about is worth  *)
(* at most 85 hundredths, and an operator's pin more than all the rest.    *)
(*                                                                         *)
(* That sweeps settle is about a run of steps: the invariant Settling says *)
(* by what kind of lead the slot was taken.  A lead of a store read no     *)
(* later than the other lasts, because two ages that grow together lose    *)
(* their difference in freshness (FreshnessEvens, up to a rounding the     *)
(* margin is wider than); the only other kind, a fresher read, can be      *)
(* undone once, and by a lead that lasts.                                  *)
(***************************************************************************)
EXTENDS Scoring, FiniteSetTheorems, TLAPS

-----------------------------------------------------------------------------
(* Arithmetic *)

\* The parts of 1.0 are a natural number.
LEMMA WholeType == Whole \in Nat
  BY DEF Whole

\* A share is between nothing and the whole.
LEMMA ShareOf ==
    ASSUME NEW w \in Nat, NEW d \in Nat \ {0}
    PROVE  w \div d \in 0..w
  OBVIOUS

\* The gameable terms together weigh 85 hundredths.
LEMMA WeightedSum ==
    ASSUME NEW w \in Nat, NEW a \in 0..w, NEW b \in 0..w, NEW c \in 0..w
    PROVE  25 * a + 40 * b + 20 * c \in 0..(85 * w)
  OBVIOUS

\* A score is a natural number; a pin outweighs all the rest.
LEMMA Total ==
    ASSUME NEW w \in Nat, NEW a \in 0..w, NEW b \in 0..(85 * w), NEW c \in Nat
    PROVE  /\ 100 * a + b + c \in Nat
           /\ c >= 200 * w => 100 * a + b + c >= 200 * w
           /\ c <= 15 * w => 100 * a + b + c <= 200 * w
  OBVIOUS

\* A term of weight 25 moves a score by at most its weight.
LEMMA Nudge ==
    ASSUME NEW w \in Nat, NEW a \in Int, NEW b \in 0..w, NEW c \in 0..w
    PROVE  (a + 25 * b) - (a + 25 * c) <= 25 * w
  OBVIOUS

-----------------------------------------------------------------------------
(* The terms *)

\* Scarcity is a share of the whole.
LEMMA ScarcityBounds ==
    ASSUME NEW count \in Nat
    PROVE  scarcity_term(count) \in 0..Whole
  BY DEF scarcity_term, Least, Whole, SCARCITY_CLAMP_LO, SCARCITY_CLAMP_HI

\* So is demand, which saturates,
LEMMA DemandBounds ==
    ASSUME NEW count \in Nat
    PROVE  demand_term(count) \in 0..Whole
  BY DEF demand_term, Least, Whole, DEMAND_SATURATION

\* and so is recency.
LEMMA RecencyBounds ==
    ASSUME NEW ages \in Optional(0..MaxAge)
    PROVE  recency_term(ages) \in 0..Whole
<1>1. CASE ages = {}
  BY <1>1, WholeType DEF recency_term
<1>2. CASE ages # {}
  <2>1. PICK age \in 0..MaxAge : ages = {age}
    BY <1>2 DEF Optional
  <2>2. (CHOOSE a \in ages : TRUE) = age
    BY <2>1
  <2>3. 1 + age \in Nat \ {0}
    BY ScoringAssumption
  <2>4. recency_term(ages) = Whole \div (1 + age)
    BY <1>2, <2>2 DEF recency_term
  <2>5. Whole \div (1 + age) \in 0..Whole
    BY ONLY <2>3, WholeType, ShareOf
  <2> QED
    BY <2>4, <2>5
<1> QED
  BY <1>1, <1>2

\* A share of sixteenths is a share of the whole, and less than half of it is
\* left above twelve of them.
LEMMA Sixteenths ==
    ASSUME NEW x \in 0..16
    PROVE  /\ Whole - (Whole * x) \div 16 \in 0..Whole
           /\ x >= 12 => 2 * (Whole - (Whole * x) \div 16) < Whole
  BY DEF Whole

\* Rounding keeps a distance between 0 and the rounded largest one.
LEMMA ProximityBounds ==
    ASSUME NEW hi \in 0..MaxDistance
    PROVE  /\ F!Rounded(hi) \in 0..16
           /\ F!Rounded(MaxDistance) = 16
           /\ xor_proximity(hi) = Whole - (Whole * F!Rounded(hi)) \div 16
           /\ xor_proximity(hi) \in 0..Whole
<1>1. F!Rounded(MaxDistance) = 16
  BY DEF MaxDistance, F!Rounded, F!Ulp
<1>2. F!Rounded(hi) \in 0..16
  <2>1. CASE hi < 4
    BY <2>1 DEF MaxDistance, F!Rounded, F!Ulp
  <2>2. CASE 4 <= hi /\ hi < 8
    BY <2>2 DEF MaxDistance, F!Rounded, F!Ulp
  <2>3. CASE 8 <= hi
    BY <2>3 DEF MaxDistance, F!Rounded, F!Ulp
  <2> QED
    BY <2>1, <2>2, <2>3 DEF MaxDistance
<1>3. xor_proximity(hi) = Whole - (Whole * F!Rounded(hi)) \div 16
  BY <1>1 DEF xor_proximity
<1>4. xor_proximity(hi) \in 0..Whole
  BY <1>2, <1>3, Sixteenths
<1> QED
  BY <1>1, <1>2, <1>3, <1>4

\* What others can bring about is worth 85 hundredths, and a report of
\* providers alone 25.
LEMMA GameableBounds ==
    ASSUME NEW s \in RelevanceInputs
    PROVE  gameable(s) \in 0..(85 * Whole)
<1> DEFINE x == scarcity_term(s.known_provider_count)
           y == demand_term(s.local_read_count)
           z == recency_term(s.reads_recency_ticks)
<1>1. s.known_provider_count \in Nat /\ s.local_read_count \in Nat
      /\ s.reads_recency_ticks \in Optional(0..MaxAge)
  BY ScoringAssumption DEF RelevanceInputs
<1>2. x \in 0..Whole /\ y \in 0..Whole /\ z \in 0..Whole
  BY <1>1, ScarcityBounds, DemandBounds, RecencyBounds
<1>3. gameable(s) = 25 * x + 40 * y + 20 * z
  BY DEF gameable, weights
<1> HIDE DEF x, y, z
<1>4. 25 * x + 40 * y + 20 * z \in 0..(85 * Whole)
  BY ONLY <1>2, WholeType, WeightedSum
<1> QED
  BY <1>3, <1>4

\* A pin is worth 200 hundredths, its neighbourhood at most 15.
LEMMA OperatorsBounds ==
    ASSUME NEW s \in RelevanceInputs
    PROVE  /\ operators(s) \in Nat
           /\ s.is_pinned => operators(s) >= 200 * Whole
           /\ ~s.is_pinned => operators(s) <= 15 * Whole
<1>1. s.is_pinned \in BOOLEAN /\ s.pin_adjacent \in BOOLEAN
  BY DEF RelevanceInputs
<1>2. operators(s) = (IF s.pin_adjacent THEN 15 * Whole ELSE 0)
                       + (IF s.is_pinned THEN 200 * Whole ELSE 0)
  BY DEF operators, weights
<1>3. CASE s.is_pinned
  BY <1>1, <1>2, <1>3, WholeType
<1>4. CASE ~s.is_pinned
  BY <1>1, <1>2, <1>4, WholeType
<1> QED
  BY <1>3, <1>4

-----------------------------------------------------------------------------
(* Type correctness *)

\* Every variable keeps its type: the ages stop at MaxAge and the read counts
\* at MaxReads, whatever is reported (RelevanceInputs, relevance.rs).
THEOREM TypeCorrect == Spec => []TypeOK
<1>1. Init => TypeOK
  <2> SUFFICES ASSUME Init PROVE TypeOK
    OBVIOUS
  <2> DEFINE fresh == [known_provider_count |-> 1, local_read_count |-> 0,
                       reads_recency_ticks |-> {}, is_pinned |-> FALSE,
                       pin_adjacent |-> FALSE]
  <2>1. fresh \in RelevanceInputs
    BY ScoringAssumption DEF RelevanceInputs, Optional
  <2>2. signals \in [Stores -> RelevanceInputs]
    BY <2>1 DEF Init
  <2> QED
    BY <2>2 DEF Init, TypeOK
<1>2. TypeOK /\ [Next]_vars => TypeOK'
  <2> SUFFICES ASSUME TypeOK, [Next]_vars PROVE TypeOK'
    OBVIOUS
  <2>1. ASSUME NEW store \in Stores, NEW revised \in RelevanceInputs, Revise(store, revised)
        PROVE  TypeOK'
    BY <2>1 DEF Revise, TypeOK
  <2>2. \A s \in Stores : signals[s] \in RelevanceInputs
    BY DEF TypeOK
  <2>3. ASSUME NEW store \in Stores, NEW count \in Reports, Report(store, count)
        PROVE  TypeOK'
    <3>1. [signals[store] EXCEPT !.known_provider_count = count] \in RelevanceInputs
      BY <2>2, ScoringAssumption DEF RelevanceInputs
    <3> QED
      BY <2>1, <2>3, <3>1 DEF Report
  <2>4. ASSUME NEW store \in Stores, Read(store)
        PROVE  TypeOK'
    <3>1. signals[store].local_read_count \in 0..MaxReads
      BY <2>2 DEF RelevanceInputs
    <3>2. signals[store].local_read_count + Batch \in 0..MaxReads
      BY <2>4, <3>1, ScoringAssumption DEF Read
    <3>3. {0} \in Optional(0..MaxAge)
      BY ScoringAssumption DEF Optional
    <3>4. [signals[store] EXCEPT !.local_read_count = @ + Batch,
                                 !.reads_recency_ticks = {0}] \in RelevanceInputs
      BY <2>2, <3>2, <3>3 DEF RelevanceInputs
    <3> QED
      BY <2>1, <2>4, <3>4 DEF Read
  <2>5. ASSUME NEW store \in Stores, NEW adjacent \in BOOLEAN, Pin(store, adjacent)
        PROVE  TypeOK'
    <3>1. \A s \in Stores : [signals[s] EXCEPT !.is_pinned = s = store,
                                               !.pin_adjacent = s # store /\ adjacent]
                               \in RelevanceInputs
      BY <2>2 DEF RelevanceInputs
    <3> QED
      BY <2>5, <3>1 DEF Pin, TypeOK
  <2>6. CASE Unpin
    <3>1. \A s \in Stores : [signals[s] EXCEPT !.is_pinned = FALSE, !.pin_adjacent = FALSE]
                               \in RelevanceInputs
      BY <2>2 DEF RelevanceInputs
    <3> QED
      BY <2>6, <3>1 DEF Unpin, TypeOK
  <2>7. CASE Tick
    <3>1. \A ages \in Optional(0..MaxAge) :
             {Least(age + 1, MaxAge) : age \in ages} \in Optional(0..MaxAge)
      <4> SUFFICES ASSUME NEW age \in 0..MaxAge PROVE Least(age + 1, MaxAge) \in 0..MaxAge
        BY DEF Optional
      <4> QED
        BY ScoringAssumption DEF Least
    <3>2. \A s \in Stores : [signals[s] EXCEPT !.reads_recency_ticks =
                               {Least(age + 1, MaxAge) : age \in @}] \in RelevanceInputs
      BY <2>2, <3>1 DEF RelevanceInputs
    <3> QED
      BY <2>7, <3>2 DEF Tick, TypeOK
  <2>8. ASSUME NEW store \in Stores, Displace(store)
        PROVE  TypeOK'
    BY <2>8 DEF Displace, TypeOK
  <2>9. CASE UNCHANGED vars
    BY <2>9 DEF vars, TypeOK
  <2> QED
    BY <2>3, <2>4, <2>5, <2>6, <2>7, <2>8, <2>9 DEF Next
<1> QED
  BY <1>1, <1>2, PTL DEF Spec

-----------------------------------------------------------------------------
(* What moves a score, and who takes a place *)

\* A score in its three parts.
LEMMA Parts ==
    ASSUME TypeOK, NEW s \in Stores
    PROVE  /\ signals[s] \in RelevanceInputs
           /\ Worth(s) = 100 * xor_proximity(distance[s]) + gameable(signals[s])
                           + operators(signals[s])
           /\ xor_proximity(distance[s]) \in 0..Whole
           /\ gameable(signals[s]) \in 0..(85 * Whole)
           /\ operators(signals[s]) \in Nat
           /\ Worth(s) \in Nat
           /\ distance[s] \in 0..MaxDistance
<1>1. signals[s] \in RelevanceInputs /\ distance[s] \in 0..MaxDistance
  BY ScoringAssumption DEF TypeOK
<1> DEFINE x == xor_proximity(distance[s])
           g == gameable(signals[s])
           o == operators(signals[s])
<1>2. x \in 0..Whole /\ g \in 0..(85 * Whole) /\ o \in Nat
  BY <1>1, ProximityBounds, GameableBounds, OperatorsBounds
<1>3. Worth(s) = 100 * x + g + o
  BY DEF Worth, relevance, weights
<1>4. Worth(s) \in Nat
  <2> HIDE DEF x, g, o
  <2>1. 100 * x + g + o \in Nat
    BY ONLY <1>2, WholeType, Total
  <2> QED
    BY <1>3, <2>1
<1> QED
  BY <1>1, <1>2, <1>3, <1>4

\* No run of counts and reads is worth the whole of the proximity, and no
\* report more than its weight (relevance.rs:44-51).
THEOREM LiesNudge == Spec => []ALieNudges
<1>1. TypeOK => ALieNudges
  <2> SUFFICES ASSUME TypeOK, NEW s \in Stores, NEW count \in Reports
               PROVE  LET told == relevance(distance[s],
                                    [signals[s] EXCEPT !.known_provider_count = count])
                      IN  /\ told - Worth(s) <= 25 * Whole
                          /\ Worth(s) - told <= 25 * Whole
    BY Parts DEF ALieNudges, weights
  <2> DEFINE row  == signals[s]
             lie  == [row EXCEPT !.known_provider_count = count]
             rest == 100 * xor_proximity(distance[s]) + 40 * demand_term(row.local_read_count)
                       + 20 * recency_term(row.reads_recency_ticks) + operators(row)
             x    == scarcity_term(row.known_provider_count)
             y    == scarcity_term(count)
  <2>1. row \in RelevanceInputs
    BY Parts
  <2>2. row.known_provider_count \in Nat /\ count \in Nat
    BY <2>1, ScoringAssumption DEF RelevanceInputs
  <2>3. x \in 0..Whole /\ y \in 0..Whole
    BY <2>2, ScarcityBounds
  <2>4. /\ xor_proximity(distance[s]) \in Int /\ operators(row) \in Int
        /\ demand_term(row.local_read_count) \in Int
        /\ recency_term(row.reads_recency_ticks) \in Int
    <3>1. row.local_read_count \in Nat /\ row.reads_recency_ticks \in Optional(0..MaxAge)
      BY <2>1, ScoringAssumption DEF RelevanceInputs
    <3>2. demand_term(row.local_read_count) \in 0..Whole
      BY <3>1, DemandBounds
    <3>3. recency_term(row.reads_recency_ticks) \in 0..Whole
      BY <3>1, RecencyBounds
    <3>4. xor_proximity(distance[s]) \in 0..Whole /\ operators(row) \in Nat
      BY Parts
    <3> HIDE DEF row
    <3> QED
      BY <3>2, <3>3, <3>4, WholeType
  <2>5. /\ lie.known_provider_count = count /\ lie.local_read_count = row.local_read_count
        /\ lie.reads_recency_ticks = row.reads_recency_ticks
        /\ lie.is_pinned = row.is_pinned /\ lie.pin_adjacent = row.pin_adjacent
    BY <2>1 DEF RelevanceInputs
  <2>6. rest \in Int
    BY <2>4
  <2>7. Worth(s) = rest + 25 * x
    BY <2>3, <2>4 DEF Worth, relevance, gameable, weights
  <2>8. relevance(distance[s], lie) = rest + 25 * y
    BY <2>3, <2>4, <2>5 DEF relevance, gameable, operators, weights
  <2> HIDE DEF rest, x, y, lie
  <2>9. /\ (rest + 25 * x) - (rest + 25 * y) <= 25 * Whole
        /\ (rest + 25 * y) - (rest + 25 * x) <= 25 * Whole
    BY ONLY <2>3, <2>6, WholeType, Nudge
  <2>10. /\ relevance(distance[s], lie) - Worth(s) <= 25 * Whole
         /\ Worth(s) - relevance(distance[s], lie) <= 25 * Whole
    BY <2>7, <2>8, <2>9
  <2> QED
    BY <2>10 DEF lie
<1> QED
  BY <1>1, TypeCorrect, PTL

\* A change of the slot is a displacement by a score above the margin.
LEMMA SlotChanges ==
    ASSUME TypeOK, [Next]_vars, slot' # slot
    PROVE  /\ slot \in Stores /\ slot' \in Stores
           /\ Wanted(slot')
           /\ Worth(slot') > Worth(slot)
<1>1. PICK store \in Stores : Displace(store)
  BY DEF Next, Report, Read, Pin, Unpin, Tick, Revise, vars
<1>2. slot' = store /\ Wanted(store) /\ Worth(store) > Worth(slot) + margin
  BY <1>1 DEF Displace, should_displace
<1>3. slot \in Stores /\ margin \in Nat \ {0}
  BY ScoringAssumption DEF TypeOK, MIN_DISPLACEMENT_MARGIN
<1>4. Worth(store) \in Int /\ Worth(slot) \in Int
  BY <1>1, <1>3, Parts
<1> QED
  BY <1>1, <1>2, <1>3, <1>4

\* Between two stores of which the operator says the same, the one nearer by
\* more than the gameable weights keeps its place.
THEOREM NearKeeps == Spec => NearKeepsItsPlace
<1>1. ASSUME TypeOK, [Next]_vars, slot' # slot,
             operators(signals[slot]) = operators(signals[slot'])
      PROVE  100 * (xor_proximity(distance[slot]) - xor_proximity(distance[slot']))
                < 85 * Whole
  <2>1. slot \in Stores /\ slot' \in Stores /\ Worth(slot') > Worth(slot)
    BY <1>1, SlotChanges
  <2> DEFINE x == xor_proximity(distance[slot])
             y == xor_proximity(distance[slot'])
             g == gameable(signals[slot])
             h == gameable(signals[slot'])
             o == operators(signals[slot])
  <2>2. /\ x \in Int /\ y \in Int /\ o \in Nat
        /\ g \in 0..(85 * Whole) /\ h \in 0..(85 * Whole)
        /\ Worth(slot) = 100 * x + g + o
        /\ Worth(slot') = 100 * y + h + o
    BY <1>1, <2>1, Parts
  <2> HIDE DEF x, y, g, h, o
  <2>3. 100 * (x - y) < 85 * Whole
    BY <2>1, <2>2, WholeType
  <2> QED
    BY <2>3 DEF x, y
<1> QED
  BY <1>1, TypeCorrect, PTL DEF Spec, NearKeepsItsPlace

\* A pinned store gives its place only to a pinned store.
THEOREM PinKeeps == Spec => PinKeepsItsPlace
<1>1. ASSUME TypeOK, [Next]_vars, slot' # slot, signals[slot].is_pinned
      PROVE  signals[slot'].is_pinned
  <2>1. slot \in Stores /\ slot' \in Stores /\ Worth(slot') > Worth(slot)
    BY <1>1, SlotChanges
  <2>2. ASSUME NEW s \in Stores
        PROVE  /\ Worth(s) \in Nat
               /\ signals[s].is_pinned => Worth(s) >= 200 * Whole
               /\ ~signals[s].is_pinned => Worth(s) <= 200 * Whole
    <3> DEFINE x == xor_proximity(distance[s])
               g == gameable(signals[s])
               o == operators(signals[s])
    <3>1. /\ Worth(s) = 100 * x + g + o /\ Worth(s) \in Nat
          /\ x \in 0..Whole /\ g \in 0..(85 * Whole) /\ o \in Nat
          /\ signals[s] \in RelevanceInputs
      BY <1>1, Parts
    <3>2. /\ signals[s].is_pinned => o >= 200 * Whole
          /\ ~signals[s].is_pinned => o <= 15 * Whole
      BY <3>1, OperatorsBounds
    <3> HIDE DEF x, g, o
    <3>3. /\ o >= 200 * Whole => 100 * x + g + o >= 200 * Whole
          /\ o <= 15 * Whole => 100 * x + g + o <= 200 * Whole
      BY ONLY <3>1, WholeType, Total
    <3> QED
      BY <3>1, <3>2, <3>3
  <2>3. Worth(slot') \in Nat /\ Worth(slot) \in Nat /\ Worth(slot) >= 200 * Whole
    BY <1>1, <2>1, <2>2
  <2>4. ~(Worth(slot') <= 200 * Whole)
    BY <2>1, <2>3, WholeType
  <2> QED
    BY <2>1, <2>2, <2>4
<1> QED
  BY <1>1, TypeCorrect, PTL DEF Spec, PinKeepsItsPlace

\* A store beyond the border is held only for its own users or the operator.
THEOREM FarStaysOut == Spec => FarIsNotDemanded
<1>1. ASSUME TypeOK, [Next]_vars, slot' # slot,
             2 * distance[slot'] > MaxDistance + 1 + F!Ulp(MaxDistance)
      PROVE  signals[slot'].local_read_count > 0 \/ signals[slot'].is_pinned
  <2>1. slot' \in Stores /\ Wanted(slot')
    BY <1>1, SlotChanges
  <2>2. distance[slot'] \in 0..MaxDistance
    BY <1>1, <2>1, Parts
  <2>3. distance[slot'] > 10
    BY <1>1, <2>2 DEF MaxDistance, F!Ulp
  <2>4. F!Rounded(distance[slot']) >= 12
    BY <2>2, <2>3 DEF MaxDistance, F!Rounded, F!Ulp
  <2>5. ~in_keyspace_neighbourhood(distance[slot'])
    <3>1. /\ F!Rounded(distance[slot']) \in 0..16
          /\ xor_proximity(distance[slot'])
               = Whole - (Whole * F!Rounded(distance[slot'])) \div 16
      BY <2>2, ProximityBounds
    <3>2. 2 * (Whole - (Whole * F!Rounded(distance[slot'])) \div 16) < Whole
      BY ONLY <2>4, <3>1, Sixteenths
    <3>3. 2 * xor_proximity(distance[slot']) < Whole
      BY <3>1, <3>2
    <3>4. xor_proximity(distance[slot']) \in Nat
      BY <2>2, ProximityBounds, WholeType
    <3> QED
      BY <3>3, <3>4, WholeType DEF in_keyspace_neighbourhood
  <2> QED
    BY <2>1, <2>5 DEF Wanted
<1> QED
  BY <1>1, TypeCorrect, PTL DEF Spec, FarIsNotDemanded

\* No place is lost to what peers can bring about.
THEOREM DisplacementEarned == Spec => DisplacementIsEarned
  BY NearKeeps, PinKeeps, FarStaysOut, PTL DEF DisplacementIsEarned
-----------------------------------------------------------------------------
(* Sweeps settle *)

\* How fresh a store read this long ago is.
Fresh(age) == Whole \div (1 + age)

\* What a store is worth but for how recently it was read.
RestOf(hi, row) ==
      weights.xor * xor_proximity(hi)
    + weights.scarcity * scarcity_term(row.known_provider_count)
    + weights.demand * demand_term(row.local_read_count)
    + operators(row)

Rest(s) == RestOf(distance[s], signals[s])

Ages(s) == signals[s].reads_recency_ticks

\* A lead that time does not take away: that of a store never read, or read no
\* later than the other, which was beyond the margin at these ages or at
\* earlier ones.
Lasting(rest, ages, others_rest, others_ages, m) ==
    \/ /\ ages = {}
       /\ rest > others_rest + weights.recency * recency_term(others_ages) + m
    \/ \E a \in ages, b \in others_ages : \E a0, b0 \in 0..MaxAge :
          /\ a0 >= b0 /\ a >= a0 /\ b >= b0 /\ a >= b /\ a - b <= a0 - b0
          /\ rest + weights.recency * Fresh(a0)
                > others_rest + weights.recency * Fresh(b0) + m

\* Read at least as recently as the other.
Fresher(ages, others_ages) ==
    \E a \in ages : \A b \in others_ages : a <= b

\* The place was taken from the other store by a lead that lasts, or once by
\* one that fades.
Settling ==
    /\ swaps <= 2
    /\ \A o \in Stores \ {slot} :
          LET lasts == Lasting(Rest(slot), Ages(slot), Rest(o), Ages(o), margin)
          IN  /\ swaps = 1 => lasts \/ Fresher(Ages(slot), Ages(o))
              /\ swaps = 2 => lasts

SweepInv == TypeOK /\ (Cardinality(Stores) <= 2 => Settling)

\* Whole shares, without remainders.
LEMMA FreshIs ==
    ASSUME NEW age \in Nat
    PROVE  /\ Fresh(age) \in 0..Whole
           /\ Fresh(age) * (1 + age) <= Whole
           /\ Whole < (Fresh(age) + 1) * (1 + age)
<1>1. ASSUME NEW w \in Nat, NEW n \in Nat \ {0}
      PROVE  /\ w \div n \in 0..w
             /\ (w \div n) * n <= w
             /\ w < (w \div n + 1) * n
  OBVIOUS
<1>2. 1 + age \in Nat \ {0}
  OBVIOUS
<1> QED
  BY <1>1, <1>2, WholeType DEF Fresh

\* Products are monotone.
LEMMA Times ==
    ASSUME NEW x \in Int, NEW y \in Int, NEW z \in Nat
    PROVE  /\ x <= y => x * z <= y * z /\ z * x <= z * y
           /\ x < y /\ z > 0 => x * z < y * z /\ z * x < z * y
           /\ x * z > 0 => x > 0
  OBVIOUS

\* Two ages that grow together lose no more of their difference in freshness
\* than what the shares are rounded by.
LEMMA FreshnessEvens ==
    ASSUME NEW a \in Nat, NEW b \in Nat, NEW a0 \in Nat, NEW b0 \in Nat,
           a0 >= b0, a >= a0, b >= b0, a >= b, a - b <= a0 - b0
    PROVE  Fresh(b) - Fresh(a) <= Fresh(b0) - Fresh(a0) + 1
<1> DEFINE A == 1 + a  B == 1 + b  A0 == 1 + a0  B0 == 1 + b0
           p == Fresh(b)  q == Fresh(a) + 1  p0 == Fresh(b0) + 1  q0 == Fresh(a0)
           w == Whole
<1>1. /\ A \in Nat /\ B \in Nat /\ A0 \in Nat /\ B0 \in Nat /\ B0 > 0 /\ w \in Nat
      /\ A0 >= B0 /\ A >= A0 /\ B >= B0 /\ A >= B /\ A - B <= A0 - B0
  BY WholeType
<1>2. /\ p \in Nat /\ q \in Nat /\ p0 \in Nat /\ q0 \in Nat
      /\ p * B <= w /\ w < q * A /\ w < p0 * B0 /\ q0 * A0 <= w
  BY FreshIs
<1>3. Fresh(b) - Fresh(a) = p - q + 1 /\ Fresh(b0) - Fresh(a0) = p0 - q0 - 1
  <2>1. Fresh(a) \in 0..Whole /\ Fresh(b) \in 0..Whole
        /\ Fresh(a0) \in 0..Whole /\ Fresh(b0) \in 0..Whole
    BY FreshIs
  <2>2. \A x, y \in 0..Whole : x - y = x - (y + 1) + 1 /\ x - y = (x + 1) - y - 1
    BY WholeType
  <2> QED
    BY <2>1, <2>2
<1> HIDE DEF A, B, A0, B0, p, q, p0, q0, w
<1> SUFFICES ASSUME ~(p - q < p0 - q0)
             PROVE  FALSE
  BY <1>2, <1>3
<1> DEFINE d == p - q  d0 == p0 - q0
<1>4. d \in Int /\ d0 \in Int /\ d >= d0 /\ B > 0 /\ A > 0 /\ A0 > 0
  BY <1>1, <1>2
<1>5. d * (A * B) < w * (A - B)
  <2>1. (p * B) * A <= w * A
    BY <1>1, <1>2, Times
  <2>2. w * B < (q * A) * B
    BY <1>1, <1>2, <1>4, Times
  <2>3. d * (A * B) = (p * B) * A - (q * A) * B /\ w * (A - B) = w * A - w * B
    BY <1>1, <1>2
  <2>4. (p * B) * A \in Int /\ (q * A) * B \in Int /\ w * A \in Int /\ w * B \in Int
    BY <1>1, <1>2
  <2> QED
    BY <2>1, <2>2, <2>3, <2>4
<1>6. w * (A0 - B0) < d0 * (A0 * B0)
  <2>1. w * A0 < (p0 * B0) * A0
    BY <1>1, <1>2, <1>4, Times
  <2>2. (q0 * A0) * B0 <= w * B0
    BY <1>1, <1>2, Times
  <2>3. d0 * (A0 * B0) = (p0 * B0) * A0 - (q0 * A0) * B0 /\ w * (A0 - B0) = w * A0 - w * B0
    BY <1>1, <1>2
  <2>4. (p0 * B0) * A0 \in Int /\ (q0 * A0) * B0 \in Int /\ w * A0 \in Int /\ w * B0 \in Int
    BY <1>1, <1>2
  <2> QED
    BY <2>1, <2>2, <2>3, <2>4
<1>7. w * (A - B) <= w * (A0 - B0) /\ 0 <= w * (A - B)
  <2>1. A - B \in Int /\ A0 - B0 \in Int /\ 0 <= A - B
    BY <1>1
  <2> QED
    BY <1>1, <2>1, Times
<1>8. A0 * B0 <= A * B /\ A0 * B0 \in Nat /\ A * B \in Nat
  <2>1. A0 * B0 <= A * B0
    BY <1>1, Times
  <2>2. A * B0 <= A * B
    BY <1>1, Times
  <2>3. A0 * B0 \in Nat /\ A * B0 \in Nat /\ A * B \in Nat
    BY <1>1
  <2> QED
    BY <2>1, <2>2, <2>3
<1> DEFINE low == A0 * B0  high == A * B  fall == w * (A - B)  fall0 == w * (A0 - B0)
<1>9. low \in Nat /\ high \in Nat /\ fall \in Int /\ fall0 \in Int
  BY <1>1, <1>8
<1>10. d * high < fall /\ fall0 < d0 * low /\ fall <= fall0 /\ 0 <= fall /\ low <= high
  BY <1>5, <1>6, <1>7, <1>8
<1> HIDE DEF d, d0, low, high, fall, fall0
<1>11. d0 > 0
  <2>1. d0 * low \in Int
    BY <1>4, <1>9
  <2>2. d0 * low > 0
    BY <1>9, <1>10, <2>1
  <2> QED
    BY <1>4, <1>9, <2>2, Times
<1>12. d0 * low <= d0 * high
  BY <1>4, <1>9, <1>10, <1>11, Times
<1>13. d0 * high <= d * high
  BY <1>4, <1>9, Times
<1>14. d0 * low \in Int /\ d0 * high \in Int /\ d * high \in Int
  BY <1>4, <1>9
<1> QED
  BY <1>9, <1>10, <1>12, <1>13, <1>14

\* A score is what it is worth without its age, and its freshness.
LEMMA WorthSplits ==
    ASSUME TypeOK, NEW s \in Stores
    PROVE  /\ Rest(s) \in Int /\ Worth(s) = Rest(s) + 20 * recency_term(Ages(s))
           /\ Ages(s) \in Optional(0..MaxAge) /\ recency_term(Ages(s)) \in 0..Whole
<1> DEFINE row == signals[s]
<1>1. row \in RelevanceInputs
  BY Parts
<1>2. /\ row.known_provider_count \in Nat /\ row.local_read_count \in Nat
      /\ Ages(s) \in Optional(0..MaxAge)
  BY <1>1, ScoringAssumption DEF RelevanceInputs, Ages
<1>3. /\ scarcity_term(row.known_provider_count) \in 0..Whole
      /\ demand_term(row.local_read_count) \in 0..Whole
      /\ recency_term(Ages(s)) \in 0..Whole
  BY <1>2, ScarcityBounds, DemandBounds, RecencyBounds
<1>4. xor_proximity(distance[s]) \in 0..Whole /\ operators(row) \in Nat
  BY Parts
<1> HIDE DEF row
<1>5. Rest(s) = 100 * xor_proximity(distance[s]) + 25 * scarcity_term(row.known_provider_count)
                  + 40 * demand_term(row.local_read_count) + operators(row)
  BY DEF Rest, RestOf, weights, row
<1>6. Worth(s) = 100 * xor_proximity(distance[s])
                   + (25 * scarcity_term(row.known_provider_count)
                        + 40 * demand_term(row.local_read_count)
                        + 20 * recency_term(Ages(s)))
                   + operators(row)
  BY DEF Worth, relevance, gameable, weights, row, Ages
<1> DEFINE x == xor_proximity(distance[s])  o == operators(row)
           y == scarcity_term(row.known_provider_count)
           d == demand_term(row.local_read_count)
           z == recency_term(Ages(s))
<1>7. /\ x \in Int /\ o \in Int /\ y \in Int /\ d \in Int /\ z \in Int
      /\ Rest(s) = 100 * x + 25 * y + 40 * d + o
      /\ Worth(s) = 100 * x + (25 * y + 40 * d + 20 * z) + o
  BY <1>3, <1>4, <1>5, <1>6, WholeType
<1> HIDE DEF x, o, y, d, z
<1>8. Rest(s) \in Int /\ Worth(s) = Rest(s) + 20 * z
  BY <1>7
<1> QED
  BY <1>2, <1>3, <1>8 DEF z

\* The freshness of a store read once, or never.
LEMMA RecencyIs ==
    /\ recency_term({}) = 0
    /\ \A age \in Nat : recency_term({age}) = Fresh(age)
<1>1. \A age : (CHOOSE a \in {age} : TRUE) = age
  OBVIOUS
<1> QED
  BY <1>1 DEF recency_term, Fresh

\* The later, the less fresh.
LEMMA FreshFalls ==
    ASSUME NEW a \in Nat, NEW b \in Nat, a <= b
    PROVE  Fresh(b) <= Fresh(a)
<1>1. Fresh(b) - Fresh(a) < 1 \/ Fresh(b) > Fresh(a)
  BY FreshIs, WholeType
<1> SUFFICES ASSUME Fresh(a) + 1 <= Fresh(b)
             PROVE  FALSE
  BY FreshIs, WholeType
<1> DEFINE p == Fresh(b)  q == Fresh(a) + 1  A == 1 + a  B == 1 + b  w == Whole
<1>2. /\ p \in Nat /\ q \in Nat /\ A \in Nat /\ B \in Nat /\ w \in Nat
      /\ q <= p /\ A <= B /\ p * B <= w /\ w < q * A
  BY FreshIs, WholeType
<1> HIDE DEF p, q, A, B, w
<1>3. q * A <= p * A
  BY <1>2, Times
<1>4. p * A <= p * B
  BY <1>2, Times
<1>5. q * A \in Int /\ p * A \in Int /\ p * B \in Int
  BY <1>2
<1> QED
  BY <1>2, <1>3, <1>4, <1>5

\* A lasting lead stands: the other does not take the place back.
LEMMA LastingHolds ==
    ASSUME TypeOK, NEW s \in Stores, NEW o \in Stores,
           Lasting(Rest(s), Ages(s), Rest(o), Ages(o), margin)
    PROVE  ~should_displace(Worth(s), Worth(o), margin)
<1>1. /\ Rest(s) \in Int /\ Worth(s) = Rest(s) + 20 * recency_term(Ages(s))
      /\ Rest(o) \in Int /\ Worth(o) = Rest(o) + 20 * recency_term(Ages(o))
      /\ Ages(s) \in Optional(0..MaxAge) /\ Ages(o) \in Optional(0..MaxAge)
      /\ recency_term(Ages(o)) \in 0..Whole
  BY WorthSplits
<1>2. margin \in Nat /\ margin >= 1488
  BY ScoringAssumption DEF TypeOK, MIN_DISPLACEMENT_MARGIN
<1>3. CASE /\ Ages(s) = {}
           /\ Rest(s) > Rest(o) + weights.recency * recency_term(Ages(o)) + margin
  <2>1. Rest(s) > Rest(o) + 20 * recency_term(Ages(o)) + margin
    BY <1>3 DEF weights
  <2>2. Worth(s) = Rest(s)
    BY <1>1, <1>3, RecencyIs
  <2> QED
    BY <1>1, <1>2, <2>1, <2>2, WholeType DEF should_displace
<1>4. CASE \E a \in Ages(s), b \in Ages(o) : \E a0, b0 \in 0..MaxAge :
              /\ a0 >= b0 /\ a >= a0 /\ b >= b0 /\ a >= b /\ a - b <= a0 - b0
              /\ Rest(s) + weights.recency * Fresh(a0)
                    > Rest(o) + weights.recency * Fresh(b0) + margin
  <2>1. PICK a \in Ages(s), b \in Ages(o), a0 \in 0..MaxAge, b0 \in 0..MaxAge :
              /\ a0 >= b0 /\ a >= a0 /\ b >= b0 /\ a >= b /\ a - b <= a0 - b0
              /\ Rest(s) + weights.recency * Fresh(a0)
                    > Rest(o) + weights.recency * Fresh(b0) + margin
    BY <1>4
  <2>2. Rest(s) + 20 * Fresh(a0) > Rest(o) + 20 * Fresh(b0) + margin
    BY <2>1 DEF weights
  <2>3. Ages(s) = {a} /\ Ages(o) = {b} /\ a \in Nat /\ b \in Nat /\ a0 \in Nat /\ b0 \in Nat
    BY <1>1, <2>1 DEF Optional
  <2>4. Fresh(b) - Fresh(a) <= Fresh(b0) - Fresh(a0) + 1
    BY <2>1, <2>3, FreshnessEvens
  <2>5. /\ Fresh(a) \in 0..Whole /\ Fresh(b) \in 0..Whole
        /\ Fresh(a0) \in 0..Whole /\ Fresh(b0) \in 0..Whole
    BY <2>3, FreshIs
  <2>6. Worth(s) = Rest(s) + 20 * Fresh(a) /\ Worth(o) = Rest(o) + 20 * Fresh(b)
    BY <1>1, <2>3, RecencyIs
  <2> DEFINE fa == Fresh(a)  fb == Fresh(b)  fa0 == Fresh(a0)  fb0 == Fresh(b0)
             rs == Rest(s)  ro == Rest(o)
  <2>7. /\ fa \in Int /\ fb \in Int /\ fa0 \in Int /\ fb0 \in Int /\ rs \in Int /\ ro \in Int
        /\ fb - fa <= fb0 - fa0 + 1 /\ rs + 20 * fa0 > ro + 20 * fb0 + margin
    BY <1>1, <2>2, <2>4, <2>5, WholeType
  <2> HIDE DEF fa, fb, fa0, fb0, rs, ro
  <2>8. ~(ro + 20 * fb > rs + 20 * fa + margin)
    BY <1>2, <2>7
  <2> QED
    BY <2>6, <2>8 DEF should_displace, fa, fb, rs, ro
<1> QED
  BY <1>3, <1>4 DEF Lasting

\* A place taken by a store that was read no later is taken by a lead that
\* lasts.
LEMMA TakenForGood ==
    ASSUME TypeOK, NEW s \in Stores, NEW o \in Stores,
           should_displace(Worth(o), Worth(s), margin)
    PROVE  Lasting(Rest(s), Ages(s), Rest(o), Ages(o), margin) \/ Fresher(Ages(s), Ages(o))
<1>1. /\ Rest(s) \in Int /\ Worth(s) = Rest(s) + 20 * recency_term(Ages(s))
      /\ Rest(o) \in Int /\ Worth(o) = Rest(o) + 20 * recency_term(Ages(o))
      /\ Ages(s) \in Optional(0..MaxAge) /\ Ages(o) \in Optional(0..MaxAge)
      /\ Worth(s) > Worth(o) + margin
  BY WorthSplits DEF should_displace
<1>2. CASE Ages(s) = {}
  <2>1. Rest(s) > Rest(o) + 20 * recency_term(Ages(o)) + margin
    BY <1>1, <1>2, RecencyIs
  <2> QED
    BY <1>2, <2>1 DEF Lasting, weights
<1>3. CASE Ages(s) # {} /\ Ages(o) = {}
  BY <1>3 DEF Fresher
<1>4. CASE Ages(s) # {} /\ Ages(o) # {}
  <2>1. PICK a \in 0..MaxAge, b \in 0..MaxAge : Ages(s) = {a} /\ Ages(o) = {b}
    BY <1>1, <1>4 DEF Optional
  <2>2. a \in Nat /\ b \in Nat
    BY ScoringAssumption
  <2>3. CASE a <= b
    BY <2>1, <2>3 DEF Fresher
  <2>4. CASE ~(a <= b)
    <3>1. Rest(s) + 20 * Fresh(a) > Rest(o) + 20 * Fresh(b) + margin
      BY <1>1, <2>1, <2>2, RecencyIs
    <3>2. a >= b /\ a >= a /\ b >= b /\ a - b <= a - b
      BY <2>2, <2>4
    <3> QED
      BY <2>1, <3>1, <3>2 DEF Lasting, weights
  <2> QED
    BY <2>3, <2>4
<1> QED
  BY <1>2, <1>3, <1>4

\* Taken back from one that is fresher, it is taken for good.
LEMMA TakenBack ==
    ASSUME TypeOK, NEW s \in Stores, NEW o \in Stores,
           should_displace(Worth(o), Worth(s), margin), Fresher(Ages(o), Ages(s))
    PROVE  Lasting(Rest(s), Ages(s), Rest(o), Ages(o), margin)
<1>1. /\ Rest(s) \in Int /\ Worth(s) = Rest(s) + 20 * recency_term(Ages(s))
      /\ Rest(o) \in Int /\ Worth(o) = Rest(o) + 20 * recency_term(Ages(o))
      /\ Ages(s) \in Optional(0..MaxAge) /\ Ages(o) \in Optional(0..MaxAge)
      /\ Worth(s) > Worth(o) + margin
  BY WorthSplits DEF should_displace
<1>2. CASE Ages(s) = {}
  <2>1. Rest(s) > Rest(o) + 20 * recency_term(Ages(o)) + margin
    BY <1>1, <1>2, RecencyIs
  <2> QED
    BY <1>2, <2>1 DEF Lasting, weights
<1>3. CASE Ages(s) # {}
  <2>1. PICK a \in 0..MaxAge, b \in 0..MaxAge : Ages(s) = {a} /\ Ages(o) = {b} /\ b <= a
    BY <1>1, <1>3 DEF Optional, Fresher
  <2>2. a \in Nat /\ b \in Nat
    BY ScoringAssumption
  <2>3. Rest(s) + 20 * Fresh(a) > Rest(o) + 20 * Fresh(b) + margin
    BY <1>1, <2>1, <2>2, RecencyIs
  <2>4. a >= b /\ a >= a /\ b >= b /\ a - b <= a - b
    BY <2>1, <2>2
  <2> QED
    BY <2>1, <2>3, <2>4 DEF Lasting, weights
<1> QED
  BY <1>2, <1>3

\* Time takes away neither.
LEMMA TickKeeps ==
    ASSUME TypeOK, Tick, NEW s \in Stores, NEW o \in Stores
    PROVE  /\ Rest(s)' = Rest(s) /\ Rest(o)' = Rest(o)
           /\ Lasting(Rest(s), Ages(s), Rest(o), Ages(o), margin) =>
                 Lasting(Rest(s), Ages(s)', Rest(o), Ages(o)', margin)
           /\ Fresher(Ages(s), Ages(o)) => Fresher(Ages(s)', Ages(o)')
<1> DEFINE older(age) == Least(age + 1, MaxAge)
<1>1. /\ \A x \in Stores : signals[x] \in RelevanceInputs
      /\ distance' = distance /\ margin' = margin
      /\ signals' = [x \in Stores |->
                       [signals[x] EXCEPT !.reads_recency_ticks = {older(age) : age \in @}]]
  BY DEF TypeOK, Tick
<1>2. \A x \in Stores :
         /\ signals'[x].known_provider_count = signals[x].known_provider_count
         /\ signals'[x].local_read_count = signals[x].local_read_count
         /\ signals'[x].is_pinned = signals[x].is_pinned
         /\ signals'[x].pin_adjacent = signals[x].pin_adjacent
         /\ signals'[x].reads_recency_ticks = {older(age) : age \in signals[x].reads_recency_ticks}
  BY <1>1 DEF RelevanceInputs
<1>3. ASSUME NEW x \in Stores
      PROVE  Rest(x)' = Rest(x) /\ Ages(x)' = {older(age) : age \in Ages(x)}
  BY <1>1, <1>2 DEF Rest, RestOf, operators, Ages
<1>4. /\ Rest(s) \in Int /\ Ages(s) \in Optional(0..MaxAge)
      /\ Rest(o) \in Int /\ Ages(o) \in Optional(0..MaxAge)
  BY WorthSplits
<1>5. MaxAge \in Nat /\ margin \in Nat
  BY ScoringAssumption DEF TypeOK
<1>6. \A age \in 0..MaxAge : older(age) = IF age + 1 <= MaxAge THEN age + 1 ELSE MaxAge
  BY DEF Least
<1>7. \A a, b \in 0..MaxAge :
         /\ older(a) \in 0..MaxAge /\ older(a) >= a
         /\ a >= b => older(a) >= older(b) /\ older(a) - older(b) <= a - b
  BY <1>5, <1>6
<1> HIDE DEF older
<1>8. Fresher(Ages(s), Ages(o)) => Fresher(Ages(s)', Ages(o)')
  <2> SUFFICES ASSUME Fresher(Ages(s), Ages(o))
               PROVE  Fresher({older(age) : age \in Ages(s)}, {older(age) : age \in Ages(o)})
    BY <1>3
  <2>1. PICK a \in Ages(s) : \A b \in Ages(o) : a <= b
    BY DEF Fresher
  <2>2. a \in 0..MaxAge /\ \A b \in Ages(o) : b \in 0..MaxAge
    BY <1>4, <2>1 DEF Optional
  <2>3. \A b \in Ages(o) : older(a) <= older(b)
    BY <1>5, <1>7, <2>1, <2>2
  <2> QED
    BY <2>1, <2>3 DEF Fresher
<1>9. ASSUME Lasting(Rest(s), Ages(s), Rest(o), Ages(o), margin)
      PROVE  Lasting(Rest(s), {older(age) : age \in Ages(s)},
                     Rest(o), {older(age) : age \in Ages(o)}, margin)
  <2>1. CASE /\ Ages(s) = {}
             /\ Rest(s) > Rest(o) + weights.recency * recency_term(Ages(o)) + margin
    <3>1. CASE Ages(o) = {}
      <4>1. {older(age) : age \in Ages(o)} = {} /\ {older(age) : age \in Ages(s)} = {}
        BY <2>1, <3>1
      <4> QED
        BY <2>1, <3>1, <4>1 DEF Lasting
    <3>2. CASE Ages(o) # {}
      <4>1. PICK b \in 0..MaxAge : Ages(o) = {b}
        BY <1>4, <3>2 DEF Optional
      <4>2. b \in Nat /\ older(b) \in Nat /\ b <= older(b)
        BY <1>5, <1>7
      <4>3. Fresh(older(b)) <= Fresh(b) /\ Fresh(b) \in 0..Whole /\ Fresh(older(b)) \in 0..Whole
        BY <4>2, FreshFalls, FreshIs
      <4>4. Rest(s) > Rest(o) + 20 * Fresh(b) + margin
        BY <2>1, <4>1, <4>2, RecencyIs DEF weights
      <4>5. Rest(s) > Rest(o) + 20 * Fresh(older(b)) + margin
        BY <1>4, <1>5, <4>3, <4>4, WholeType
      <4>6. /\ {older(age) : age \in Ages(o)} = {older(b)} /\ {older(age) : age \in Ages(s)} = {}
            /\ recency_term({older(b)}) = Fresh(older(b))
        BY <2>1, <4>1, <4>2, RecencyIs
      <4> QED
        BY <4>5, <4>6 DEF Lasting, weights
    <3> QED
      BY <3>1, <3>2
  <2>2. CASE \E a \in Ages(s), b \in Ages(o) : \E a0, b0 \in 0..MaxAge :
                /\ a0 >= b0 /\ a >= a0 /\ b >= b0 /\ a >= b /\ a - b <= a0 - b0
                /\ Rest(s) + weights.recency * Fresh(a0)
                      > Rest(o) + weights.recency * Fresh(b0) + margin
    <3>1. PICK a \in Ages(s), b \in Ages(o), a0 \in 0..MaxAge, b0 \in 0..MaxAge :
                /\ a0 >= b0 /\ a >= a0 /\ b >= b0 /\ a >= b /\ a - b <= a0 - b0
                /\ Rest(s) + weights.recency * Fresh(a0)
                      > Rest(o) + weights.recency * Fresh(b0) + margin
      BY <2>2
    <3>2. a \in 0..MaxAge /\ b \in 0..MaxAge
      BY <1>4, <3>1 DEF Optional
    <3>3. /\ older(a) >= a /\ older(b) >= b /\ older(a) >= older(b)
          /\ older(a) - older(b) <= a - b
          /\ older(a) \in 0..MaxAge /\ older(b) \in 0..MaxAge
      BY <1>7, <3>1, <3>2
    <3>4. /\ older(a) >= a0 /\ older(b) >= b0 /\ older(a) - older(b) <= a0 - b0
      BY <1>5, <3>1, <3>2, <3>3
    <3> QED
      BY <3>1, <3>3, <3>4 DEF Lasting
  <2> QED
    BY <1>9, <2>1, <2>2 DEF Lasting
<1> QED
  BY <1>3, <1>8, <1>9

\* Of two stores at most, another than this one is the only other.
LEMMA TheOther ==
    ASSUME Cardinality(Stores) <= 2, NEW s \in Stores, NEW o \in Stores, s # o
    PROVE  Stores \ {s} = {o}
<1> SUFFICES ASSUME NEW x \in Stores, x # s, x # o
             PROVE  FALSE
  OBVIOUS
<1>1. IsFiniteSet(Stores)
  BY ScoringAssumption
<1>2. Cardinality({s}) = 1 /\ IsFiniteSet({s})
  BY FS_Singleton
<1>3. Cardinality({s} \cup {o}) = 2 /\ IsFiniteSet({s} \cup {o})
  BY <1>2, FS_AddElement
<1>4. Cardinality({s} \cup {o} \cup {x}) = 3
  BY <1>3, FS_AddElement
<1>5. {s} \cup {o} \cup {x} \subseteq Stores
  OBVIOUS
<1>6. Cardinality({s} \cup {o} \cup {x}) <= Cardinality(Stores)
  BY <1>1, <1>5, FS_Subset
<1>7. Cardinality(Stores) \in Nat
  BY <1>1, FS_CardinalityType
<1> QED
  BY <1>4, <1>6, <1>7

\* Every step keeps the account of the lead.
LEMMA SettlingStep ==
    ASSUME TypeOK, Cardinality(Stores) <= 2, Settling, [Next]_vars
    PROVE  Settling'
<1>0. slot \in Stores /\ swaps \in Nat
  BY DEF TypeOK
<1>1. ASSUME swaps' = 0
      PROVE  Settling'
  BY <1>1 DEF Settling
<1>2. CASE Tick
  <2>1. slot' = slot /\ swaps' = swaps /\ margin' = margin
    BY <1>2 DEF Tick
  <2>2. ASSUME NEW o \in Stores \ {slot}
        PROVE  /\ Lasting(Rest(slot), Ages(slot), Rest(o), Ages(o), margin) =>
                     Lasting(Rest(slot)', Ages(slot)', Rest(o)', Ages(o)', margin')
               /\ Fresher(Ages(slot), Ages(o)) => Fresher(Ages(slot)', Ages(o)')
    <3> DEFINE s == slot
    <3>1. s \in Stores /\ o \in Stores
      BY <1>0
    <3>2. Ages(slot)' = signals'[s].reads_recency_ticks
      BY <2>1 DEF Ages
    <3> QED
      BY <1>2, <2>1, <3>1, TickKeeps
  <2> QED
    BY <2>1, <2>2 DEF Settling
<1>3. ASSUME NEW store \in Stores, Displace(store)
      PROVE  Settling'
  <2>1. /\ store # slot /\ slot' = store /\ swaps' = swaps + 1
        /\ should_displace(Worth(slot), Worth(store), margin)
        /\ distance' = distance /\ signals' = signals /\ margin' = margin
    BY <1>3 DEF Displace
  <2>2. Stores \ {store} = {slot} /\ store \in Stores \ {slot}
    BY <1>0, <2>1, TheOther
  <2> DEFINE lasts  == Lasting(Rest(store), Ages(store), Rest(slot), Ages(slot), margin)
             lasted == Lasting(Rest(slot), Ages(slot), Rest(store), Ages(store), margin)
  <2>3. ~lasted
    BY <1>0, <2>1, LastingHolds
  <2>4. lasts \/ Fresher(Ages(store), Ages(slot))
    BY <1>0, <2>1, TakenForGood
  <2>5. swaps = 0 \/ swaps = 1
    BY <1>0, <2>2, <2>3 DEF Settling
  <2>6. swaps = 1 => lasts
    BY <1>0, <2>1, <2>2, <2>3, TakenBack DEF Settling
  <2>7. \A o \in Stores \ {store} :
           Lasting(Rest(store), Ages(store), Rest(o), Ages(o), margin)
              \/ (swaps = 0 /\ Fresher(Ages(store), Ages(o)))
    BY <2>2, <2>4, <2>5, <2>6
  <2>8. \A x \in Stores : Rest(x)' = Rest(x) /\ Ages(x)' = Ages(x)
    BY <2>1 DEF Rest, Ages
  <2>9. /\ swaps' <= 2
        /\ \A o \in Stores \ {slot'} :
              LET holds == Lasting(RestOf(distance'[slot'], signals'[slot']),
                                  signals'[slot'].reads_recency_ticks,
                                  RestOf(distance'[o], signals'[o]),
                                  signals'[o].reads_recency_ticks, margin')
              IN  /\ swaps' = 1 => holds \/ Fresher(signals'[slot'].reads_recency_ticks,
                                                   signals'[o].reads_recency_ticks)
                  /\ swaps' = 2 => holds
    BY <2>1, <2>5, <2>7 DEF Rest, Ages
  <2> QED
    BY <2>9 DEF Settling, Rest, Ages
<1>4. CASE UNCHANGED vars
  BY <1>4 DEF vars, Settling, Rest, Ages
<1>5. CASE \E store \in Stores : \/ \E count \in Reports : Report(store, count)
                                 \/ Read(store)
                                 \/ \E adjacent \in BOOLEAN : Pin(store, adjacent)
  BY <1>1, <1>5 DEF Report, Read, Pin, Revise
<1>6. CASE Unpin
  BY <1>1, <1>6 DEF Unpin
<1> QED
  BY <1>2, <1>3, <1>4, <1>5, <1>6 DEF Next

\* Two stores change places at most twice while nothing but time passes: the
\* margin outlives the bonus of a recent read (relevance.rs:250-255).
THEOREM SweepsDoSettle == Spec => []SweepsSettle
<1>1. Init => (Cardinality(Stores) <= 2 => Settling)
  BY DEF Init, Settling
<1>2. TypeOK /\ (Cardinality(Stores) <= 2 => Settling) /\ [Next]_vars
         => (Cardinality(Stores) <= 2 => Settling)'
  <2> SUFFICES ASSUME TypeOK, Cardinality(Stores) <= 2 => Settling, [Next]_vars,
                      Cardinality(Stores) <= 2
               PROVE  Settling'
    OBVIOUS
  <2> QED
    BY SettlingStep
<1>3. (Cardinality(Stores) <= 2 => Settling) => SweepsSettle
  BY DEF Settling, SweepsSettle
<1> QED
  BY <1>1, <1>2, <1>3, TypeCorrect, PTL DEF Spec
=============================================================================
