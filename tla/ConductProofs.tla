--------------------------- MODULE ConductProofs ---------------------------
(***************************************************************************)
(* Theorems about Conduct, for every ceiling and every decay period.       *)
(*                                                                         *)
(* The argument runs over what is left of a penalty, in ticks: the height  *)
(* of the leaky bucket.  `decay` leaves the height alone and rounds the    *)
(* penalty to the units begun (Decays); a failure adds a period's worth    *)
(* unless the ceiling is reached (Pours); a tick takes one (Drips).  So    *)
(* each copy's height is a function of what happened to it, and the        *)
(* theorems compare heights.                                               *)
(***************************************************************************)
EXTENDS Conduct, TLAPS

Height(r, now) ==
    LET due     == r.non_performance * NON_PERFORMANCE_DECAY_TICKS
        elapsed == now - r.last_update_ticks
    IN  IF due > elapsed THEN due - elapsed ELSE 0

\* A record the node can hold at a tick.
Sound(r, now) ==
    /\ r \in ConductRecord
    /\ r.proven_faults <= MaxCount
    /\ r.non_performance <= NON_PERFORMANCE_CEILING
    /\ r.last_update_ticks <= now

-----------------------------------------------------------------------------
(* Arithmetic of whole periods. *)

\* A quotient and the rest it leaves.
LEMMA Quotient ==
    ASSUME NEW a \in Nat, NEW p \in Nat \ {0}
    PROVE  /\ a \div p \in Nat
           /\ (a \div p) * p <= a
           /\ a < (a \div p) * p + p
    OBVIOUS

\* A product distributes over a sum.
LEMMA Product ==
    ASSUME NEW a \in Int, NEW b \in Int, NEW p \in Int
    PROVE  /\ a * p \in Int
           /\ (a + b) * p = a * p + b * p
           /\ (a - b) * p = a * p - b * p
    OBVIOUS

\* A product keeps the order.
LEMMA ProductOrder ==
    ASSUME NEW a \in Int, NEW b \in Int, NEW p \in Nat \ {0}
    PROVE  /\ a <= b => a * p <= b * p
           /\ a * p < b * p => a < b
    OBVIOUS

-----------------------------------------------------------------------------
(* What decay, a failure and a tick do to the height. *)

\* Decay brings a record up to the tick and leaves its height.
LEMMA Decays ==
    ASSUME NEW now \in Nat, NEW r, Sound(r, now)
    PROVE  LET d == decay(r, now) IN
           /\ Sound(d, now)
           /\ d.proven_faults = r.proven_faults
           /\ Height(d, now) = Height(r, now)
           /\ d.non_performance = 0 => d.last_update_ticks = now
           /\ now - d.last_update_ticks < NON_PERFORMANCE_DECAY_TICKS
<1> DEFINE P == NON_PERFORMANCE_DECAY_TICKS
           n == r.non_performance
           e == now - r.last_update_ticks
           k == e \div P
           d == decay(r, now)
<1>1. /\ P \in Nat \ {0} /\ n \in Nat /\ e \in Nat
      /\ r.last_update_ticks \in Nat /\ r.proven_faults \in Nat
    BY ConductAssumption DEF Sound, ConductRecord
<1>2. k \in Nat /\ k * P <= e /\ e < k * P + P
    BY <1>1, Quotient
<1>3. SaturatingSub(now, r.last_update_ticks) = e
    BY <1>1 DEF Sound, SaturatingSub
<1>4. CASE n <= k
    <2>1. /\ d.non_performance = 0
          /\ d.last_update_ticks = now
          /\ d.proven_faults = r.proven_faults
          /\ d \in ConductRecord
        BY <1>1, <1>2, <1>3, <1>4 DEF decay, SaturatingSub, ConductRecord
    <2>2. n * P <= e
        <3>1. n * P <= k * P
            BY <1>1, <1>2, <1>4, ProductOrder
        <3>2. QED
            BY <1>1, <1>2, <3>1, Product
    <2>3. Height(r, now) = 0
        BY <1>1, <2>2, Product DEF Height
    <2>4. Height(d, now) = 0
        BY <1>1, <2>1 DEF Height
    <2>5. QED
        BY <1>1, <2>1, <2>3, <2>4, ConductAssumption DEF Sound
<1>5. CASE n > k
    <2>1. /\ d.non_performance = n - k
          /\ d.last_update_ticks = r.last_update_ticks + k * P
          /\ d.proven_faults = r.proven_faults
          /\ k * P \in Nat
        BY <1>1, <1>2, <1>3, <1>5, Product DEF decay, SaturatingSub
    <2>2. d \in ConductRecord
        BY <1>1, <1>2, <1>3, <1>5, <2>1 DEF decay, SaturatingSub, ConductRecord
    <2>3. /\ now - d.last_update_ticks = e - k * P
          /\ (n - k) * P = n * P - k * P
          /\ n * P \in Int
        BY <1>1, <1>2, <2>1, Product
    <2>4. Height(d, now) = Height(r, now)
        BY <1>1, <2>1, <2>3 DEF Height
    <2>5. Sound(d, now)
        BY <1>1, <1>2, <1>5, <2>1, <2>2, ConductAssumption DEF Sound
    <2>6. QED
        BY <1>1, <1>2, <1>5, <2>1, <2>3, <2>4, <2>5
<1>6. QED
    BY <1>1, <1>2, <1>4, <1>5

\* The penalty is the number of units begun.
LEMMA UnitsOfHeight ==
    ASSUME NEW now \in Nat, NEW r, Sound(r, now)
    PROVE  LET n == decay(r, now).non_performance
               h == Height(r, now)
               P == NON_PERFORMANCE_DECAY_TICKS
           IN  /\ n \in 0..NON_PERFORMANCE_CEILING
               /\ h \in Nat
               /\ h <= n * P
               /\ n = 0 => h = 0
               /\ n * P < h + P
<1> DEFINE P == NON_PERFORMANCE_DECAY_TICKS
           d == decay(r, now)
           n == d.non_performance
           e == now - d.last_update_ticks
<1>1. /\ Sound(d, now) /\ Height(d, now) = Height(r, now)
      /\ n = 0 => d.last_update_ticks = now
      /\ e < P
    BY Decays
<1>2. P \in Nat \ {0} /\ n \in Nat /\ n <= NON_PERFORMANCE_CEILING /\ e \in Nat
    BY <1>1, ConductAssumption DEF Sound, ConductRecord
<1>3. n * P \in Nat /\ (n = 0 => n * P = 0) /\ (n > 0 => P <= n * P)
    BY <1>2
<1>4. Height(d, now) = IF n * P > e THEN n * P - e ELSE 0
    BY DEF Height
<1>5. QED
    BY <1>1, <1>2, <1>3, <1>4, ConductAssumption

\* Equal heights, equal penalties.
LEMMA UnitsAreUnique ==
    ASSUME NEW h \in Nat, NEW m \in Nat, NEW n \in Nat, NEW p \in Nat \ {0},
           h <= m * p, m * p < h + p, h <= n * p, n * p < h + p
    PROVE  m = n
<1>1. m * p < n * p + p /\ n * p < m * p + p
    BY Product
<1>2. (n + 1) * p = n * p + p /\ (m + 1) * p = m * p + p
    BY Product
<1>3. m * p < (n + 1) * p /\ n * p < (m + 1) * p
    BY <1>1, <1>2
<1>4. m < n + 1 /\ n < m + 1
    BY <1>3, ProductOrder
<1>5. QED
    BY <1>4

\* A failure adds one period to the height, up to the ceiling.
LEMMA Pours ==
    ASSUME NEW now \in Nat, NEW r, Sound(r, now)
    PROVE  LET o == observe_NonPerformance(r, now)
               n == decay(r, now).non_performance
           IN  /\ Sound(o, now)
               /\ o.proven_faults = r.proven_faults
               /\ n = NON_PERFORMANCE_CEILING => Height(o, now) = Height(r, now)
               /\ n # NON_PERFORMANCE_CEILING =>
                     Height(o, now) = Height(r, now) + NON_PERFORMANCE_DECAY_TICKS
<1> DEFINE P == NON_PERFORMANCE_DECAY_TICKS
           C == NON_PERFORMANCE_CEILING
           d == decay(r, now)
           n == d.non_performance
           o == observe_NonPerformance(r, now)
           e == now - d.last_update_ticks
<1>1. /\ Sound(d, now) /\ Height(d, now) = Height(r, now)
      /\ d.proven_faults = r.proven_faults
      /\ n = 0 => d.last_update_ticks = now
      /\ e < P
    BY Decays
<1>2. /\ P \in Nat \ {0} /\ C \in Nat \ {0} /\ MaxCount \in Nat /\ C <= MaxCount
      /\ n \in Nat /\ n <= C /\ e \in Nat /\ d \in ConductRecord
    BY <1>1, ConductAssumption DEF Sound, ConductRecord
<1>3. o = [d EXCEPT !.non_performance = IF n = C THEN C ELSE n + 1]
    BY <1>2 DEF observe_NonPerformance, SaturatingAdd, NON_PERFORMANCE_PENALTY
<1>4. Sound(o, now) /\ o.proven_faults = r.proven_faults
    BY <1>1, <1>2, <1>3 DEF Sound, ConductRecord
<1>5. ASSUME n = C
      PROVE  Height(o, now) = Height(r, now)
    BY <1>1, <1>2, <1>3, <1>5 DEF Height, ConductRecord
<1>6. ASSUME n # C
      PROVE  Height(o, now) = Height(r, now) + P
    <2>1. /\ o.non_performance = n + 1
          /\ o.last_update_ticks = d.last_update_ticks
        BY <1>2, <1>3, <1>6 DEF ConductRecord
    <2>2. (n + 1) * P = n * P + P /\ n * P \in Nat
        BY <1>2
    <2>3. Height(o, now) = n * P + P - e
        BY <1>2, <1>1, <2>1, <2>2 DEF Height
    <2>4. Height(d, now) = n * P - e
        <3>1. n = 0 => n * P = 0 /\ e = 0
            BY <1>1, <1>2
        <3>2. n > 0 => P <= n * P
            BY <1>2
        <3>3. Height(d, now) = IF n * P > e THEN n * P - e ELSE 0
            BY DEF Height
        <3>4. n * P >= e
            <4>1. CASE n = 0
                BY <3>1, <4>1
            <4>2. CASE n > 0
                <5>1. P <= n * P /\ e < P /\ P \in Nat
                    BY <1>1, <1>2, <3>2, <4>2
                <5> HIDE DEF P, n, e
                <5>2. QED
                    BY <1>2, <2>2, <5>1
            <4>3. QED
                BY <1>2, <4>1, <4>2
        <3>5. n * P - e \in Nat /\ (n * P = e => n * P - e = 0)
            BY <1>2, <2>2, <3>4
        <3>6. QED
            BY <1>2, <2>2, <3>3, <3>4, <3>5
    <2>5. QED
        BY <1>1, <1>2, <2>2, <2>3, <2>4
<1>7. QED
    BY <1>4, <1>5, <1>6

\* A tick takes one off the height.
LEMMA Drips ==
    ASSUME NEW now \in Nat, NEW r, Sound(r, now)
    PROVE  /\ Sound(r, now + 1)
           /\ Height(r, now + 1) =
                 IF Height(r, now) > 0 THEN Height(r, now) - 1 ELSE 0
<1>1. /\ r.non_performance * NON_PERFORMANCE_DECAY_TICKS \in Nat
      /\ r.last_update_ticks \in Nat /\ r.last_update_ticks <= now
    BY ConductAssumption DEF Sound, ConductRecord
<1>2. QED
    BY <1>1 DEF Sound, Height

\* A fault leaves the height.
LEMMA Faults ==
    ASSUME NEW now \in Nat, NEW r, Sound(r, now)
    PROVE  LET o == observe_Fault(r, now) IN
           /\ Sound(o, now)
           /\ Height(o, now) = Height(r, now)
           /\ o.proven_faults > 0
<1> DEFINE d == decay(r, now)
<1>1. Sound(d, now) /\ Height(d, now) = Height(r, now)
    BY Decays
<1>2. d \in ConductRecord /\ MaxCount \in Nat \ {0} /\ d.proven_faults <= MaxCount
    BY <1>1, ConductAssumption DEF Sound
<1>3. /\ SaturatingAdd(d.proven_faults, 1) \in Nat \ {0}
      /\ SaturatingAdd(d.proven_faults, 1) <= MaxCount
    BY <1>2 DEF SaturatingAdd, ConductRecord
<1>4. observe_Fault(r, now) =
        [d EXCEPT !.proven_faults = SaturatingAdd(d.proven_faults, 1)]
    BY DEF observe_Fault
<1>5. QED
    BY <1>1, <1>2, <1>3, <1>4 DEF Sound, Height, ConductRecord
-----------------------------------------------------------------------------
(* What each action does to the heights and the faults of the copies. *)

\* The copies hold sound records.
Held ==
    /\ now_ticks \in 0..MaxTicks
    /\ lied \in BOOLEAN
    /\ record \in [Copies -> ConductRecord]
    /\ \A c \in Copies : Sound(record[c], now_ticks)

Poured(c) ==
    IF Penalty(c) = NON_PERFORMANCE_CEILING
    THEN Remaining(c)
    ELSE Remaining(c) + NON_PERFORMANCE_DECAY_TICKS

Faulty(c) == record[c].proven_faults > 0

\* What Remaining and Penalty are of a sound record.
LEMMA Standing ==
    ASSUME Held, NEW c \in Copies
    PROVE  /\ now_ticks \in Nat
           /\ Sound(record[c], now_ticks)
           /\ Remaining(c) = Height(record[c], now_ticks)
           /\ Remaining(c) \in Nat
           /\ Penalty(c) \in 0..NON_PERFORMANCE_CEILING
           /\ Remaining(c) <= Penalty(c) * NON_PERFORMANCE_DECAY_TICKS
           /\ Penalty(c) * NON_PERFORMANCE_DECAY_TICKS
                 < Remaining(c) + NON_PERFORMANCE_DECAY_TICKS
<1>1. now_ticks \in Nat /\ Sound(record[c], now_ticks)
    BY ConductAssumption DEF Held
<1>2. Remaining(c) = Height(record[c], now_ticks)
    BY DEF Remaining, Height
<1>3. QED
    BY <1>1, <1>2, UnitsOfHeight DEF Penalty

\* What a tick does to the three copies of the record.
LEMMA TickMoves ==
    ASSUME Held, Tick
    PROVE  /\ Held'
           /\ \A c \in Copies :
                /\ Remaining(c)' = IF Remaining(c) > 0 THEN Remaining(c) - 1 ELSE 0
                /\ Faulty(c)' <=> Faulty(c)
<1>1. now_ticks' = now_ticks + 1 /\ now_ticks \in Nat /\ now_ticks' \in 0..MaxTicks
    BY ConductAssumption DEF Held, Tick
<1>2. record' = record /\ lied' = lied
    BY DEF Tick
<1>3. ASSUME NEW c \in Copies
      PROVE  /\ Sound(record[c], now_ticks)'
             /\ Remaining(c)' = IF Remaining(c) > 0 THEN Remaining(c) - 1 ELSE 0
    <2>1. Remaining(c)' = Height(record[c], now_ticks + 1)
        BY <1>1, <1>2 DEF Remaining, Height
    <2>2. QED
        BY <1>1, <1>2, <2>1, Standing, Drips
<1>4. Held'
    BY <1>1, <1>2, <1>3 DEF Held
<1>5. QED
    BY <1>2, <1>3, <1>4 DEF Faulty

\* What a proven fault does to them.
LEMMA FaultMoves ==
    ASSUME Held, Fault
    PROVE  /\ Held'
           /\ \A c \in Copies : Remaining(c)' = Remaining(c) /\ Faulty(c)'
<1>1. now_ticks' = now_ticks /\ lied' = TRUE
    BY DEF Fault
<1>2. record' = [c \in Copies |-> observe_Fault(record[c], now_ticks)]
    BY DEF Fault
<1>3. ASSUME NEW c \in Copies
      PROVE  /\ Sound(record[c], now_ticks)'
             /\ Remaining(c)' = Remaining(c)
             /\ Faulty(c)'
    <2>1. record'[c] = observe_Fault(record[c], now_ticks)
        BY <1>2
    <2>2. Remaining(c)' = Height(record'[c], now_ticks)
        BY <1>1 DEF Remaining, Height
    <2>3. QED
        BY <1>1, <2>1, <2>2, Standing, Faults DEF Faulty
<1>4. record' \in [Copies -> ConductRecord]
    BY <1>2, <1>3 DEF Sound
<1>5. QED
    BY <1>1, <1>3, <1>4 DEF Held

\* What a failure does to them.
LEMMA FailureMoves ==
    ASSUME Held, NonPerformance
    PROVE  /\ Held'
           /\ \A c \in Copies :
                Remaining(c)' = Poured(c) /\ (Faulty(c)' <=> Faulty(c))
<1>1. now_ticks' = now_ticks /\ lied' = lied
    BY DEF NonPerformance
<1>2. record' = [c \in Copies |-> observe_NonPerformance(record[c], now_ticks)]
    BY DEF NonPerformance
<1>3. ASSUME NEW c \in Copies
      PROVE  /\ Sound(record[c], now_ticks)'
             /\ Remaining(c)' = Poured(c)
             /\ Faulty(c)' <=> Faulty(c)
    <2>1. record'[c] = observe_NonPerformance(record[c], now_ticks)
        BY <1>2
    <2>2. Remaining(c)' = Height(record'[c], now_ticks)
        BY <1>1 DEF Remaining, Height
    <2>3. QED
        BY <1>1, <2>1, <2>2, Standing, Pours DEF Faulty, Poured, Penalty
<1>4. record' \in [Copies -> ConductRecord]
    BY <1>2, <1>3 DEF Sound
<1>5. QED
    BY <1>1, <1>3, <1>4 DEF Held

\* What an honest answer does to them: only silence fills.
LEMMA AnswerMoves ==
    ASSUME Held, HonestAnswer
    PROVE  /\ Held'
           /\ \A c \in Copies : Faulty(c)' <=> Faulty(c)
           /\ Remaining("answers")' = Remaining("answers")
           /\ Remaining("unasked")' = Remaining("unasked")
           /\ Remaining("silent")' = Poured("silent")
<1>1. now_ticks' = now_ticks /\ lied' = lied
    BY DEF HonestAnswer
<1>2. /\ record' \in [Copies -> {record'[c] : c \in Copies}]
      /\ record'["answers"] = decay(record["answers"], now_ticks)
      /\ record'["unasked"] = record["unasked"]
      /\ record'["silent"] = observe_NonPerformance(record["silent"], now_ticks)
    BY DEF HonestAnswer, Held, Copies, observe_HonestAnswer
<1>3. /\ "answers" \in Copies /\ "unasked" \in Copies /\ "silent" \in Copies
      /\ \A c \in Copies : c = "answers" \/ c = "unasked" \/ c = "silent"
    BY DEF Copies
<1>4. \A c \in Copies : Remaining(c)' = Height(record'[c], now_ticks)
    BY <1>1 DEF Remaining, Height
<1>5. /\ Sound(record["answers"], now_ticks)'
      /\ Remaining("answers")' = Remaining("answers")
      /\ Faulty("answers")' <=> Faulty("answers")
    BY <1>1, <1>2, <1>3, <1>4, Standing, Decays DEF Faulty
<1>6. /\ Sound(record["unasked"], now_ticks)'
      /\ Remaining("unasked")' = Remaining("unasked")
      /\ Faulty("unasked")' <=> Faulty("unasked")
    BY <1>1, <1>2, <1>3, <1>4, Standing DEF Faulty
<1>7. /\ Sound(record["silent"], now_ticks)'
      /\ Remaining("silent")' = Poured("silent")
      /\ Faulty("silent")' <=> Faulty("silent")
    BY <1>1, <1>2, <1>3, <1>4, Standing, Pours DEF Faulty, Poured, Penalty
<1>8. \A c \in Copies : Sound(record[c], now_ticks)'
    BY <1>3, <1>5, <1>6, <1>7
<1>9. record' \in [Copies -> ConductRecord]
    BY <1>2, <1>8 DEF Sound
<1>10. QED
    BY <1>1, <1>3, <1>5, <1>6, <1>7, <1>8, <1>9 DEF Held
-----------------------------------------------------------------------------
(* The inductive invariant. *)

\* An honest answer leaves the height where no question would have left it,
\* and silence is ahead by less than one unit.
Level ==
    /\ Remaining("answers") = Remaining("unasked")
    /\ Remaining("answers") < Remaining("silent") + NON_PERFORMANCE_DECAY_TICKS

Proven == \A c \in Copies : lied <=> Faulty(c)

IInv == Held /\ Level /\ Proven

\* A failure of both cannot widen the lead of the silent one: if its bucket
\* is full and the other's is not, the other still fits under the ceiling.
LEMMA BothFail ==
    ASSUME NEW P \in Nat \ {0}, NEW C \in Nat \ {0},
           NEW a \in Nat, NEW s \in Nat, NEW m \in 0..C, NEW n \in 0..C,
           a <= m * P, n * P < s + P, a < s + P
    PROVE  (IF m = C THEN a ELSE a + P) < (IF n = C THEN s ELSE s + P) + P
<1>1. CASE n = C /\ m # C
    <2>1. m + 1 <= C
        BY <1>1
    <2>2. (m + 1) * P <= C * P
        BY <2>1, ProductOrder
    <2>3. (m + 1) * P = m * P + P
        BY Product
    <2>4. m * P \in Int /\ C * P \in Int
        BY Product
    <2>5. QED
        BY <1>1, <2>2, <2>3, <2>4
<1>2. CASE ~ (n = C /\ m # C)
    BY <1>2
<1>3. QED
    BY <1>1, <1>2

\* The heights the invariant relates give the penalties it promises.
LEMMA PenaltiesFollow ==
    ASSUME IInv
    PROVE  /\ Penalty("answers") = Penalty("unasked")
           /\ Penalty("answers") <= Penalty("silent") + 1
<1> DEFINE P == NON_PERFORMANCE_DECAY_TICKS
           a == Remaining("answers")
           s == Remaining("silent")
           m == Penalty("answers")
           u == Penalty("unasked")
           n == Penalty("silent")
<1>1. P \in Nat \ {0} /\ Held
    BY ConductAssumption DEF IInv
<1>2. a = Remaining("unasked") /\ a < s + P
    BY DEF IInv, Level
<1>3. /\ a \in Nat /\ m \in Nat /\ a <= m * P /\ m * P < a + P
      /\ u \in Nat /\ a <= u * P /\ u * P < a + P
      /\ s \in Nat /\ n \in Nat /\ s <= n * P /\ n * P < s + P
    BY <1>1, <1>2, Standing DEF Copies
<1>4. m = u
    <2> HIDE DEF P, a, m, u
    <2>1. QED
        BY <1>1, <1>3, UnitsAreUnique
<1>5. m <= n + 1
    <2> HIDE DEF P, a, s, m, n
    <2>1. (n + 2) * P = n * P + 2 * P /\ m * P \in Int /\ n * P \in Int
        BY <1>1, <1>3, Product
    <2>2. m * P < (n + 2) * P
        BY <1>1, <1>2, <1>3, <2>1
    <2>3. m < n + 2
        BY <1>1, <1>3, <2>2, ProductOrder
    <2>4. QED
        BY <1>3, <2>3
<1>6. QED
    BY <1>4, <1>5

\* The invariant holds of a new record.
LEMMA InitIInv == Init => IInv
<1> SUFFICES ASSUME Init PROVE IInv
    OBVIOUS
<1>1. /\ now_ticks = 0 /\ lied = FALSE
      /\ record = [c \in Copies |-> neutral]
    BY DEF Init
<1>2. neutral \in ConductRecord
    BY DEF neutral, ConductRecord
<1>3. Sound(neutral, 0)
    BY <1>2, ConductAssumption DEF Sound, neutral
<1>4. Held
    <2>1. record \in [Copies -> ConductRecord]
        BY <1>1, <1>2
    <2>2. \A c \in Copies : Sound(record[c], now_ticks)
        BY <1>1, <1>3
    <2>3. now_ticks \in 0..MaxTicks
        BY <1>1, ConductAssumption
    <2>4. lied \in BOOLEAN
        BY <1>1
    <2>5. QED
        BY <2>1, <2>2, <2>3, <2>4 DEF Held
<1>5. \A c \in Copies : Remaining(c) = 0 /\ ~ Faulty(c)
    BY <1>1, ConductAssumption DEF Remaining, Faulty, neutral
<1>6. QED
    BY <1>1, <1>4, <1>5, ConductAssumption DEF IInv, Level, Proven, Copies

\* Every step keeps it.
LEMMA NextIInv == IInv /\ [Next]_vars => IInv'
<1> SUFFICES ASSUME IInv, [Next]_vars PROVE IInv'
    OBVIOUS
<1> DEFINE P == NON_PERFORMANCE_DECAY_TICKS
<1>1. /\ Held /\ Level /\ Proven
      /\ P \in Nat \ {0} /\ NON_PERFORMANCE_CEILING \in Nat \ {0}
      /\ "answers" \in Copies /\ "unasked" \in Copies /\ "silent" \in Copies
    BY ConductAssumption DEF IInv, Copies
<1>2. \A c \in Copies : Remaining(c) \in Nat
    BY <1>1, Standing
<1>3. /\ Poured("answers") = Poured("unasked")
      /\ Poured("answers") < Poured("silent") + P
    <2>1. Penalty("answers") = Penalty("unasked")
        BY PenaltiesFollow
    <2>2. Poured("answers") = Poured("unasked")
        BY <1>1, <2>1 DEF Poured, Level
    <2>3. /\ Remaining("answers") <= Penalty("answers") * P
          /\ Penalty("silent") * P < Remaining("silent") + P
          /\ Penalty("answers") \in 0..NON_PERFORMANCE_CEILING
          /\ Penalty("silent") \in 0..NON_PERFORMANCE_CEILING
        BY <1>1, Standing
    <2>4. Remaining("answers") < Remaining("silent") + P
        BY <1>1 DEF Level
    <2>5. QED
        BY <1>1, <1>2, <2>2, <2>3, <2>4, BothFail DEF Poured
<1>4. CASE Tick
    <2>1. Held' /\ \A c \in Copies :
             /\ Remaining(c)' = IF Remaining(c) > 0 THEN Remaining(c) - 1 ELSE 0
             /\ Faulty(c)' <=> Faulty(c)
        BY <1>1, <1>4, TickMoves
    <2>2. lied' = lied
        BY <1>4 DEF Tick
    <2>3. Level'
        BY <1>1, <1>2, <2>1 DEF Level
    <2>4. QED
        BY <1>1, <2>1, <2>2, <2>3 DEF IInv, Proven
<1>5. CASE Fault
    <2>1. Held' /\ \A c \in Copies : Remaining(c)' = Remaining(c) /\ Faulty(c)'
        BY <1>1, <1>5, FaultMoves
    <2>2. lied' = TRUE
        BY <1>5 DEF Fault
    <2>3. Level'
        BY <1>1, <2>1 DEF Level
    <2>4. QED
        BY <2>1, <2>2, <2>3 DEF IInv, Proven
<1>6. CASE NonPerformance
    <2>1. Held' /\ \A c \in Copies :
             Remaining(c)' = Poured(c) /\ (Faulty(c)' <=> Faulty(c))
        BY <1>1, <1>6, FailureMoves
    <2>2. lied' = lied
        BY <1>6 DEF NonPerformance
    <2>3. Level'
        BY <1>1, <1>3, <2>1 DEF Level
    <2>4. QED
        BY <1>1, <2>1, <2>2, <2>3 DEF IInv, Proven
<1>7. CASE HonestAnswer
    <2>1. /\ Held'
          /\ \A c \in Copies : Faulty(c)' <=> Faulty(c)
          /\ Remaining("answers")' = Remaining("answers")
          /\ Remaining("unasked")' = Remaining("unasked")
          /\ Remaining("silent")' = Poured("silent")
        BY <1>1, <1>7, AnswerMoves
    <2>2. lied' = lied
        BY <1>7 DEF HonestAnswer
    <2>3. Remaining("silent") <= Poured("silent") /\ Poured("silent") \in Nat
        BY <1>1, <1>2 DEF Poured
    <2>4. Level'
        BY <1>1, <1>2, <2>1, <2>3 DEF Level
    <2>5. QED
        BY <1>1, <2>1, <2>2, <2>4 DEF IInv, Proven
<1>8. CASE UNCHANGED vars
    BY <1>1, <1>8
       DEF vars, IInv, Held, Level, Proven, Remaining, Faulty
<1>9. QED
    BY <1>4, <1>5, <1>6, <1>7, <1>8 DEF Next

\* Every reachable state satisfies the inductive invariant.
THEOREM Invariance == Spec => []IInv
<1>1. QED
    BY InitIInv, NextIInv, PTL DEF Spec

-----------------------------------------------------------------------------
(* The theorems. *)

\* Counts, penalties and stamps stay in their ranges, whatever is observed.
THEOREM TypeCorrect == Spec => []TypeOK
<1>1. IInv => TypeOK
    BY DEF IInv, Held, Sound, TypeOK
<1>2. QED
    BY <1>1, Invariance, PTL

\* The penalty is a function of elapsed ticks alone: answering honestly, how
\* often so ever, leaves a peer where not being asked would have.
THEOREM RecoveryIsTimeAlone == Spec => []TimeAlone
<1>1. IInv => TimeAlone
    BY PenaltiesFollow DEF TimeAlone, IInv, Level
<1>2. QED
    BY <1>1, Invariance, PTL

\* Silence gains less than one unit's worth of ticks on an honest answer.
THEOREM SilenceIsBounded == Spec => []SilenceGainsUnderOneUnit
<1>1. IInv => SilenceGainsUnderOneUnit
    BY PenaltiesFollow DEF SilenceGainsUnderOneUnit, IInv, Level
<1>2. QED
    BY <1>1, Invariance, PTL

\* A peer is never dialled exactly when it was proven to have lied.
THEOREM OnlyProofExcludes == Spec => []ZeroShareIsProven
<1>1. ASSUME IInv, NEW c \in Copies
      PROVE  dial_share(decay(record[c], now_ticks)) = 0 <=> lied
    <2> DEFINE d == decay(record[c], now_ticks)
    <2>1. /\ d.proven_faults = record[c].proven_faults
          /\ d.proven_faults \in Nat
          /\ d.non_performance \in 0..NON_PERFORMANCE_CEILING
        BY <1>1, Standing, Decays DEF IInv, Penalty, Sound, ConductRecord
    <2>2. lied <=> d.proven_faults > 0
        BY <1>1, <2>1 DEF IInv, Proven, Faulty
    <2> HIDE DEF d
    <2>3. dial_share(d) = 0 <=> d.proven_faults > 0
        BY <2>1, ConductAssumption DEF dial_share
    <2>4. QED
        BY <2>2, <2>3 DEF d
<1>2. IInv => ZeroShareIsProven
    BY <1>1 DEF ZeroShareIsProven
<1>3. QED
    BY <1>2, Invariance, PTL
-----------------------------------------------------------------------------
(* The record implements the leaky bucket. *)

\* A penalty is the units the bucket has begun.
LEMMA BegunUnits ==
    ASSUME Held, NEW c \in Copies
    PROVE  Bucket!UnitsBegun(Remaining(c)) = Penalty(c)
<1> DEFINE P == NON_PERFORMANCE_DECAY_TICKS
           h == Remaining(c)
           n == Penalty(c)
           q == (h + P - 1) \div P
<1>1. /\ P \in Nat \ {0} /\ h \in Nat /\ n \in Nat
      /\ h <= n * P /\ n * P < h + P
    BY Standing, ConductAssumption
<1> HIDE DEF P, h, n
<1>2. h + P - 1 \in Nat
    BY <1>1
<1>3. q \in Nat /\ q * P <= h + P - 1 /\ h + P - 1 < q * P + P
    BY <1>1, <1>2, Quotient
<1>4. h <= q * P /\ q * P < h + P
    BY <1>1, <1>3, Product
<1>5. q = n
    <2> HIDE DEF q
    <2>1. QED
        BY <1>1, <1>3, <1>4, UnitsAreUnique
<1>6. QED
    BY <1>5 DEF Bucket!UnitsBegun, P, h, n

\* What a peer that answers carries is a leaky bucket: a tick leaks a drop, a
\* failure pours a unit unless the ceiling is reached, and nothing else counts.
THEOREM ImplementsBucket == Spec => BucketSpec
<1> DEFINE a == Remaining("answers")
           m == Penalty("answers")
<1>1. Init => Bucket!Init
    <2>1. SUFFICES ASSUME Init PROVE a = 0 /\ m = 0
        BY DEF Bucket!Init
    <2>2. IInv /\ a = 0
        BY <2>1, InitIInv, ConductAssumption DEF Init, Remaining, neutral, Copies
    <2>3. record["answers"] = neutral /\ now_ticks = 0
        BY <2>1 DEF Init, Copies
    <2>4. m = 0
        BY <2>3, ConductAssumption
           DEF Penalty, decay, neutral, SaturatingSub
    <2>5. QED
        BY <2>2, <2>4
<1>2. Held => Bucket!UnitsBegun(a) = m
    BY BegunUnits DEF Copies
<1>3. (Held => Bucket!UnitsBegun(a) = m)'
    BY <1>2, PTL
<1>4. ASSUME IInv, IInv', [Next]_vars
      PROVE  Bucket!Leak \/ Bucket!Pour \/ (a' = a /\ m' = m)
    <2>1. /\ Held /\ Held' /\ "answers" \in Copies /\ a \in Nat
        BY <1>4, Standing DEF IInv, Copies
    <2>2. Bucket!UnitsBegun(a) = m
        BY <2>1, BegunUnits
    <2>3. Bucket!UnitsBegun(a') = m'
        BY <2>1, <1>3
    <2>4. CASE Tick
        <3>1. a' = IF a > 0 THEN a - 1 ELSE 0
            BY <2>1, <2>4, TickMoves
        <3>2. QED
            BY <2>3, <3>1 DEF Bucket!Leak
    <2>5. CASE Fault
        <3>1. a' = a
            BY <2>1, <2>5, FaultMoves
        <3>2. QED
            BY <2>2, <2>3, <3>1
    <2>6. CASE NonPerformance
        <3>1. a' = Poured("answers")
            BY <2>1, <2>6, FailureMoves
        <3>2. QED
            BY <2>3, <3>1 DEF Bucket!Pour, Poured
    <2>7. CASE HonestAnswer
        <3>1. a' = a
            BY <2>1, <2>7, AnswerMoves
        <3>2. QED
            BY <2>2, <2>3, <3>1
    <2>8. CASE UNCHANGED vars
        BY <2>8 DEF vars, Remaining, Penalty
    <2>9. QED
        BY <1>4, <2>4, <2>5, <2>6, <2>7, <2>8 DEF Next
<1>5. IInv /\ IInv' /\ [Next]_vars => [Bucket!Leak \/ Bucket!Pour]_<<a, m>>
    BY <1>4
<1>6. QED
    BY <1>1, <1>5, Invariance, PTL DEF Spec, BucketSpec, Bucket!Spec
=============================================================================
