-------------------------- MODULE AdmissionProofs --------------------------
(***************************************************************************)
(* Theorems about AdmissionMeter, for every set of peers and all limits.   *)
(*                                                                         *)
(* The limits on the real work follow from the limits on the meter only    *)
(* because the meter counts at least the work; and that is inductive only  *)
(* together with the sets being finite, so that adding or removing one     *)
(* unit changes a cardinality by one.  MeterInv is the part that a caller  *)
(* cannot break; Covered fails once releases are repeated, Accounts once   *)
(* one is skipped.                                                         *)
(***************************************************************************)
EXTENDS Admission, FiniteSetTheorems, TLAPS

\* The meter's own state: what no fault of a caller unbounds.
MeterInv ==
    /\ TypeOK
    /\ IsFiniteSet(Tracked)
    /\ MeterBounded

\* Unless releases are repeated, the meter counts at least the work under way.
Covered ==
    caller # "repeats" =>
        /\ Cardinality(work) <= global
        /\ Cardinality(OfKind("Relayed")) <= relayed
        /\ \A p \in Peers : Cardinality(OfPeer(p)) <= held(p)

\* The meter and the work together.
IInv ==
    /\ MeterInv
    /\ IsFiniteSet(work)
    /\ Covered
    /\ Accounts

-----------------------------------------------------------------------------
(* What admit and release do to the table *)

\* Insert sets one peer's count and grows the table by that peer at most.
LEMMA InsertResult ==
    ASSUME TypeOK, NEW p \in Peers, NEW n \in Nat \ {0}, in_flight' = Insert(p, n)
    PROVE  /\ Tracked' = Tracked \cup {p}
           /\ in_flight' \in [Tracked' -> Nat \ {0}]
           /\ \A q \in Peers : held(q)' = IF q = p THEN n ELSE held(q)
  BY DEF TypeOK, Insert, Tracked, held

\* Remove forgets one peer.
LEMMA RemoveResult ==
    ASSUME TypeOK, NEW p \in Peers, in_flight' = Remove(p)
    PROVE  /\ Tracked' = Tracked \ {p}
           /\ in_flight' \in [Tracked' -> Nat \ {0}]
           /\ \A q \in Peers : held(q)' = IF q = p THEN 0 ELSE held(q)
  BY DEF TypeOK, Remove, Tracked, held

\* A peer is tracked exactly when it holds something.
LEMMA HeldType ==
    ASSUME TypeOK, NEW p \in Peers
    PROVE  /\ held(p) \in Nat
           /\ p \in Tracked <=> held(p) > 0
  BY DEF TypeOK, held, Tracked

\* Admitting a unit adds one to its peer's count.
LEMMA AdmitTable ==
    ASSUME TypeOK, NEW t \in Ticket, NEW units \in Units, admit(t, units)
    PROVE  /\ Tracked' = Tracked \cup {t.peer}
           /\ in_flight' \in [Tracked' -> Nat \ {0}]
           /\ \A q \in Peers : held(q)' = IF q = t.peer THEN held(q) + 1 ELSE held(q)
<1>1. t.peer \in Peers
  BY TicketAssumption
<1>2. held(t.peer) + 1 \in Nat \ {0}
  BY <1>1, HeldType
<1>3. in_flight' = Insert(t.peer, held(t.peer) + 1)
  BY DEF admit
<1> QED
  BY <1>1, <1>2, <1>3, InsertResult

\* Releasing a unit of a tracked peer takes one from its count, and the peer
\* leaves the table at zero; releasing one of an unknown peer changes nothing.
LEMMA ReleaseTable ==
    ASSUME TypeOK, NEW p \in Peers, NEW k \in WorkKind, Released(p, k)
    PROVE  /\ Tracked' \subseteq Tracked
           /\ in_flight' \in [Tracked' -> Nat \ {0}]
           /\ \A q \in Peers : held(q)' = IF q = p THEN Less1(held(q)) ELSE held(q)
<1>1. CASE p \notin Tracked
  <2>1. in_flight' = in_flight
    BY <1>1 DEF Released, Lowered
  <2> QED
    BY <1>1, <2>1 DEF TypeOK, Tracked, held, Less1
<1>2. CASE p \in Tracked /\ Less1(in_flight[p]) = 0
  <2>1. in_flight' = Remove(p)
    BY <1>2 DEF Released, Lowered
  <2>2. held(p) = in_flight[p]
    BY <1>2 DEF held
  <2> QED
    BY <1>2, <2>1, <2>2, RemoveResult
<1>3. CASE p \in Tracked /\ Less1(in_flight[p]) # 0
  <2>1. in_flight' = Insert(p, Less1(in_flight[p]))
    BY <1>3 DEF Released, Lowered
  <2>2. held(p) = in_flight[p] /\ in_flight[p] \in Nat
    BY <1>3 DEF held, TypeOK
  <2>3. Less1(in_flight[p]) \in Nat \ {0}
    BY <1>3, <2>2 DEF Less1
  <2> QED
    BY <1>3, <2>1, <2>2, <2>3, InsertResult
<1> QED
  BY <1>1, <1>2, <1>3

-----------------------------------------------------------------------------
(* What admit and release do to the work *)

\* The subsets of the work by peer and by kind are finite.
LEMMA PartsFinite ==
    ASSUME IsFiniteSet(work)
    PROVE  /\ \A p \in Peers : IsFiniteSet(OfPeer(p))
           /\ \A k \in WorkKind : IsFiniteSet(OfKind(k))
           /\ Cardinality(work) \in Nat
           /\ \A p \in Peers : Cardinality(OfPeer(p)) \in Nat
           /\ \A k \in WorkKind : Cardinality(OfKind(k)) \in Nat
<1>1. ASSUME NEW p \in Peers PROVE IsFiniteSet(OfPeer(p))
  <2>1. OfPeer(p) \in SUBSET work
    BY DEF OfPeer
  <2> QED
    BY <2>1, FS_Subset
<1>2. ASSUME NEW k \in WorkKind PROVE IsFiniteSet(OfKind(k))
  <2>1. OfKind(k) \in SUBSET work
    BY DEF OfKind
  <2> QED
    BY <2>1, FS_Subset
<1> QED
  BY <1>1, <1>2, FS_CardinalityType

\* One unit more in the work is one more of its peer and one more of its kind.
LEMMA WorkGrows ==
    ASSUME IsFiniteSet(work), NEW t \in Ticket, t \notin work, work' = work \cup {t}
    PROVE  /\ IsFiniteSet(work')
           /\ Cardinality(work') = Cardinality(work) + 1
           /\ \A p \in Peers : Cardinality(OfPeer(p)') =
                 IF p = t.peer THEN Cardinality(OfPeer(p)) + 1 ELSE Cardinality(OfPeer(p))
           /\ \A k \in WorkKind : Cardinality(OfKind(k)') =
                 IF k = t.kind THEN Cardinality(OfKind(k)) + 1 ELSE Cardinality(OfKind(k))
<1>1. IsFiniteSet(work') /\ Cardinality(work') = Cardinality(work) + 1
  BY FS_AddElement
<1>2. ASSUME NEW p \in Peers
      PROVE  Cardinality(OfPeer(p)') =
               IF p = t.peer THEN Cardinality(OfPeer(p)) + 1 ELSE Cardinality(OfPeer(p))
  <2>1. CASE p = t.peer
    <3>1. OfPeer(p)' = OfPeer(p) \cup {t} /\ t \notin OfPeer(p)
      BY <2>1 DEF OfPeer
    <3> QED
      BY <2>1, <3>1, PartsFinite, FS_AddElement
  <2>2. CASE p # t.peer
    <3>1. OfPeer(p)' = OfPeer(p)
      BY <2>2 DEF OfPeer
    <3> QED
      BY <2>2, <3>1
  <2> QED
    BY <2>1, <2>2
<1>3. ASSUME NEW k \in WorkKind
      PROVE  Cardinality(OfKind(k)') =
               IF k = t.kind THEN Cardinality(OfKind(k)) + 1 ELSE Cardinality(OfKind(k))
  <2>1. CASE k = t.kind
    <3>1. OfKind(k)' = OfKind(k) \cup {t} /\ t \notin OfKind(k)
      BY <2>1 DEF OfKind
    <3> QED
      BY <2>1, <3>1, PartsFinite, FS_AddElement
  <2>2. CASE k # t.kind
    <3>1. OfKind(k)' = OfKind(k)
      BY <2>2 DEF OfKind
    <3> QED
      BY <2>2, <3>1
  <2> QED
    BY <2>1, <2>2
<1> QED
  BY <1>1, <1>2, <1>3

\* One unit less in the work is one less of its peer and one less of its kind.
LEMMA WorkShrinks ==
    ASSUME IsFiniteSet(work), NEW t \in work, work' = work \ {t}
    PROVE  /\ IsFiniteSet(work')
           /\ Cardinality(work') = Cardinality(work) - 1
           /\ \A p \in Peers : Cardinality(OfPeer(p)') =
                 IF p = t.peer THEN Cardinality(OfPeer(p)) - 1 ELSE Cardinality(OfPeer(p))
           /\ \A k \in WorkKind : Cardinality(OfKind(k)') =
                 IF k = t.kind THEN Cardinality(OfKind(k)) - 1 ELSE Cardinality(OfKind(k))
<1>1. IsFiniteSet(work') /\ Cardinality(work') = Cardinality(work) - 1
  BY FS_RemoveElement
<1>2. ASSUME NEW p \in Peers
      PROVE  Cardinality(OfPeer(p)') =
               IF p = t.peer THEN Cardinality(OfPeer(p)) - 1 ELSE Cardinality(OfPeer(p))
  <2>1. CASE p = t.peer
    <3>1. OfPeer(p)' = OfPeer(p) \ {t} /\ t \in OfPeer(p)
      BY <2>1 DEF OfPeer
    <3> QED
      BY <2>1, <3>1, PartsFinite, FS_RemoveElement
  <2>2. CASE p # t.peer
    <3>1. OfPeer(p)' = OfPeer(p)
      BY <2>2 DEF OfPeer
    <3> QED
      BY <2>2, <3>1
  <2> QED
    BY <2>1, <2>2
<1>3. ASSUME NEW k \in WorkKind
      PROVE  Cardinality(OfKind(k)') =
               IF k = t.kind THEN Cardinality(OfKind(k)) - 1 ELSE Cardinality(OfKind(k))
  <2>1. CASE k = t.kind
    <3>1. OfKind(k)' = OfKind(k) \ {t} /\ t \in OfKind(k)
      BY <2>1 DEF OfKind
    <3> QED
      BY <2>1, <3>1, PartsFinite, FS_RemoveElement
  <2>2. CASE k # t.kind
    <3>1. OfKind(k)' = OfKind(k)
      BY <2>2 DEF OfKind
    <3> QED
      BY <2>2, <3>1
  <2> QED
    BY <2>1, <2>2
<1> QED
  BY <1>1, <1>2, <1>3

-----------------------------------------------------------------------------
(* The inductive invariant *)

\* Every check of admit has passed when it admits.
LEMMA AdmittedMeans ==
    ASSUME NEW p \in Peers, NEW k \in WorkKind, NEW units \in Units,
           Verdict(p, k, units) = "Admitted"
    PROVE  /\ units <= max_request_units
           /\ ~(global >= global_ceiling)
           /\ ~(k = "Relayed" /\ relayed >= relay_ceiling)
           /\ ~(held(p) >= per_peer_share)
           /\ ~(held(p) = 0 /\ Cardinality(Tracked) >= max_tracked_peers)
<1> USE LimitsAssumption DEF Verdict
<1>1. ~(units > max_request_units)
  OBVIOUS
<1> QED
  BY <1>1

\* The meter starts empty, as does the work.
LEMMA InitIInv == Init => IInv
<1> SUFFICES ASSUME Init PROVE IInv
  OBVIOUS
<1>1. Tracked = {} /\ work = {} /\ global = 0 /\ relayed = 0
  BY DEF Init, Tracked
<1>2. OfKind("Relayed") = {} /\ \A p \in Peers : OfPeer(p) = {} /\ held(p) = 0
  BY <1>1 DEF OfKind, OfPeer, held
<1>3. TypeOK
  BY <1>1 DEF TypeOK, Init, Tracked
<1>4. Accounts /\ Covered
  BY <1>1, <1>2, FS_EmptySet DEF Accounts, Covered
<1>5. MeterBounded
  BY <1>1, FS_EmptySet, LimitsAssumption DEF MeterBounded
<1> QED
  BY <1>1, <1>3, <1>4, <1>5, FS_EmptySet DEF IInv, MeterInv

\* Admission checks the meter alone, so it keeps the meter within its limits
\* whether or not the meter still agrees with the work.
LEMMA AdmitMeterInv ==
    ASSUME MeterInv, NEW t \in Ticket, NEW units \in Units, admit(t, units)
    PROVE  MeterInv'
<1> USE LimitsAssumption
<1>1. t.peer \in Peers /\ t.kind \in WorkKind
  BY TicketAssumption
<1>2. /\ work' = work \cup {t}
      /\ global' = global + 1
      /\ relayed' = IF t.kind = "Relayed" THEN relayed + 1 ELSE relayed
      /\ Verdict(t.peer, t.kind, units) = "Admitted"
      /\ caller' = caller
  BY DEF admit
<1>3. /\ Tracked' = Tracked \cup {t.peer}
      /\ in_flight' \in [Tracked' -> Nat \ {0}]
      /\ \A q \in Peers : held(q)' = IF q = t.peer THEN held(q) + 1 ELSE held(q)
  BY AdmitTable DEF MeterInv
<1>4. /\ ~(global >= global_ceiling)
      /\ ~(t.kind = "Relayed" /\ relayed >= relay_ceiling)
      /\ ~(held(t.peer) >= per_peer_share)
      /\ ~(held(t.peer) = 0 /\ Cardinality(Tracked) >= max_tracked_peers)
  BY <1>1, <1>2, AdmittedMeans
<1>5. TypeOK'
  BY <1>1, <1>2, <1>3 DEF MeterInv, TypeOK
<1>6. IsFiniteSet(Tracked')
  BY <1>3, FS_AddElement DEF MeterInv
<1>7. global' <= global_ceiling /\ relayed' <= relay_ceiling
  BY <1>1, <1>2, <1>4 DEF MeterInv, TypeOK, MeterBounded
<1>8. Cardinality(Tracked') <= max_tracked_peers
  <2>1. CASE t.peer \in Tracked
    <3>1. Tracked' = Tracked
      BY <1>3, <2>1
    <3> QED
      BY <3>1 DEF MeterInv, MeterBounded
  <2>2. CASE t.peer \notin Tracked
    <3>1. Cardinality(Tracked') = Cardinality(Tracked) + 1
      BY <1>3, <2>2, FS_AddElement DEF MeterInv
    <3>2. Cardinality(Tracked) \in Nat
      BY FS_CardinalityType DEF MeterInv
    <3>3. held(t.peer) = 0
      BY <2>2 DEF held
    <3> QED
      BY <1>4, <3>1, <3>2, <3>3
  <2> QED
    BY <2>1, <2>2
<1>9. \A p \in Tracked' : in_flight'[p] \in 1..per_peer_share
  <2> SUFFICES ASSUME NEW p \in Tracked' PROVE in_flight'[p] \in 1..per_peer_share
    OBVIOUS
  <2>1. p \in Peers /\ in_flight'[p] = held(p)' /\ in_flight'[p] \in Nat \ {0}
    BY <1>3, <1>5 DEF TypeOK, held
  <2>2. held(p) \in Nat /\ (held(p) > 0 => p \in Tracked)
    BY <2>1, HeldType DEF MeterInv
  <2>3. CASE p = t.peer
    BY <1>3, <1>4, <2>1, <2>2, <2>3
  <2>4. CASE p # t.peer
    <3>1. p \in Tracked /\ held(p)' = held(p)
      BY <1>3, <2>1, <2>4
    <3>2. in_flight[p] = held(p) /\ in_flight[p] \in 1..per_peer_share
      BY <3>1 DEF held, MeterInv, MeterBounded
    <3> QED
      BY <2>1, <3>1, <3>2
  <2> QED
    BY <2>3, <2>4
<1> QED
  BY <1>5, <1>6, <1>7, <1>8, <1>9 DEF MeterInv, MeterBounded

\* The meter's own bounds survive any call of release, paired or not.
LEMMA ReleasedBounded ==
    ASSUME MeterInv, NEW p \in Peers, NEW k \in WorkKind, Released(p, k),
           work' \subseteq work, caller' = caller
    PROVE  MeterInv'
<1> USE LimitsAssumption
<1>1. /\ Tracked' \subseteq Tracked
      /\ in_flight' \in [Tracked' -> Nat \ {0}]
      /\ \A q \in Peers : held(q)' = IF q = p THEN Less1(held(q)) ELSE held(q)
  BY ReleaseTable DEF MeterInv
<1>2. /\ global' = Less1(global)
      /\ relayed' = IF k = "Relayed" THEN Less1(relayed) ELSE relayed
  BY DEF Released
<1>3. /\ global' \in Nat /\ global' <= global
      /\ relayed' \in Nat /\ relayed' <= relayed
  BY <1>2 DEF MeterInv, TypeOK, Less1
<1>4. TypeOK'
  BY <1>1, <1>3 DEF MeterInv, TypeOK
<1>5. IsFiniteSet(Tracked') /\ Cardinality(Tracked') <= Cardinality(Tracked)
  BY <1>1, FS_Subset DEF MeterInv
<1>6. Cardinality(Tracked') \in Nat /\ Cardinality(Tracked) \in Nat
  BY <1>5, FS_CardinalityType DEF MeterInv
<1>7. \A q \in Tracked' : in_flight'[q] \in 1..per_peer_share
  <2> SUFFICES ASSUME NEW q \in Tracked' PROVE in_flight'[q] \in 1..per_peer_share
    OBVIOUS
  <2>1. q \in Peers /\ q \in Tracked
    BY <1>1 DEF MeterInv, TypeOK
  <2>2. in_flight'[q] = held(q)' /\ in_flight'[q] \in Nat \ {0}
    BY <1>1 DEF held
  <2>3. held(q) = in_flight[q] /\ in_flight[q] \in 1..per_peer_share
    BY <2>1 DEF held, MeterInv, MeterBounded
  <2>4. held(q)' <= held(q)
    BY <1>1, <2>1, <2>3 DEF Less1
  <2> QED
    BY <2>2, <2>3, <2>4
<1>8. MeterBounded'
  BY <1>3, <1>5, <1>6, <1>7 DEF MeterInv, MeterBounded, TypeOK
<1> QED
  BY <1>4, <1>5, <1>8 DEF MeterInv

\* An admitted unit is counted once on each budget it draws on.
LEMMA AdmitIInv ==
    ASSUME IInv, NEW t \in Ticket, NEW units \in Units, admit(t, units)
    PROVE  IInv'
<1>1. t.peer \in Peers /\ t.kind \in WorkKind
  BY TicketAssumption
<1>2. /\ t \notin work /\ work' = work \cup {t}
      /\ global' = global + 1
      /\ relayed' = IF t.kind = "Relayed" THEN relayed + 1 ELSE relayed
      /\ caller' = caller
  BY DEF admit
<1>3. \A q \in Peers : held(q)' = IF q = t.peer THEN held(q) + 1 ELSE held(q)
  BY AdmitTable DEF IInv, MeterInv
<1>4. MeterInv'
  BY AdmitMeterInv DEF IInv
<1>5. IsFiniteSet(work')
  BY <1>2, WorkGrows DEF IInv
<1>6. Covered'
  <2> SUFFICES ASSUME caller' # "repeats"
               PROVE  /\ Cardinality(work') <= global'
                      /\ Cardinality(OfKind("Relayed")') <= relayed'
                      /\ \A p \in Peers : Cardinality(OfPeer(p)') <= held(p)'
    BY DEF Covered
  <2>1. /\ Cardinality(work) <= global
        /\ Cardinality(OfKind("Relayed")) <= relayed
        /\ \A p \in Peers : Cardinality(OfPeer(p)) <= held(p)
    BY <1>2 DEF IInv, Covered
  <2>2. /\ Cardinality(work') = Cardinality(work) + 1
        /\ \A p \in Peers : Cardinality(OfPeer(p)') =
              IF p = t.peer THEN Cardinality(OfPeer(p)) + 1 ELSE Cardinality(OfPeer(p))
        /\ \A k \in WorkKind : Cardinality(OfKind(k)') =
              IF k = t.kind THEN Cardinality(OfKind(k)) + 1 ELSE Cardinality(OfKind(k))
    BY <1>2, WorkGrows DEF IInv
  <2>3. /\ Cardinality(work) \in Nat
        /\ Cardinality(OfKind("Relayed")) \in Nat
        /\ \A p \in Peers : Cardinality(OfPeer(p)) \in Nat
    BY PartsFinite DEF IInv, WorkKind
  <2>4. global \in Nat /\ relayed \in Nat /\ \A p \in Peers : held(p) \in Nat
    BY HeldType DEF IInv, MeterInv, TypeOK
  <2>5. Cardinality(work') <= global'
    BY <1>2, <2>1, <2>2, <2>3, <2>4
  <2>6. Cardinality(OfKind("Relayed")') <= relayed'
    BY <1>2, <2>1, <2>2, <2>3, <2>4 DEF WorkKind
  <2>7. ASSUME NEW p \in Peers PROVE Cardinality(OfPeer(p)') <= held(p)'
    BY <1>3, <2>1, <2>2, <2>3, <2>4
  <2> QED
    BY <2>5, <2>6, <2>7
<1>7. Accounts'
  <2> SUFFICES ASSUME caller' = "pairs"
               PROVE  /\ global' = Cardinality(work')
                      /\ relayed' = Cardinality(OfKind("Relayed")')
                      /\ \A p \in Peers : held(p)' = Cardinality(OfPeer(p)')
    BY DEF Accounts
  <2>1. global' = Cardinality(work')
    BY <1>2, WorkGrows DEF IInv, Accounts
  <2>2. relayed' = Cardinality(OfKind("Relayed")')
    BY <1>1, <1>2, WorkGrows DEF IInv, Accounts, WorkKind
  <2>3. \A p \in Peers : held(p)' = Cardinality(OfPeer(p)')
    BY <1>1, <1>2, <1>3, WorkGrows DEF IInv, Accounts
  <2> QED
    BY <2>1, <2>2, <2>3
<1> QED
  BY <1>4, <1>5, <1>6, <1>7 DEF IInv

\* A released unit gives back exactly what its admission took.
LEMMA ReleaseIInv ==
    ASSUME IInv, NEW t \in Ticket, release(t)
    PROVE  IInv'
<1>1. t.peer \in Peers /\ t.kind \in WorkKind
  BY TicketAssumption
<1>2. t \in work /\ work' = work \ {t} /\ Released(t.peer, t.kind) /\ caller' = caller
  BY DEF release
<1>3. MeterInv'
  BY <1>1, <1>2, ReleasedBounded DEF IInv
<1>4. IsFiniteSet(work')
  BY <1>2, WorkShrinks DEF IInv
<1>5. /\ global' = Less1(global)
      /\ relayed' = IF t.kind = "Relayed" THEN Less1(relayed) ELSE relayed
      /\ \A q \in Peers : held(q)' = IF q = t.peer THEN Less1(held(q)) ELSE held(q)
  BY <1>1, <1>2, ReleaseTable DEF IInv, MeterInv, Released
<1>6. /\ Cardinality(work') = Cardinality(work) - 1
      /\ \A p \in Peers : Cardinality(OfPeer(p)') =
            IF p = t.peer THEN Cardinality(OfPeer(p)) - 1 ELSE Cardinality(OfPeer(p))
      /\ \A k \in WorkKind : Cardinality(OfKind(k)') =
            IF k = t.kind THEN Cardinality(OfKind(k)) - 1 ELSE Cardinality(OfKind(k))
  BY <1>2, WorkShrinks DEF IInv
<1>7. /\ Cardinality(work) \in Nat \ {0}
      /\ \A p \in Peers : Cardinality(OfPeer(p)) \in Nat
      /\ \A k \in WorkKind : Cardinality(OfKind(k)) \in Nat
      /\ Cardinality(OfPeer(t.peer)) > 0
      /\ Cardinality(OfKind(t.kind)) > 0
  <2>1. t \in OfPeer(t.peer) /\ t \in OfKind(t.kind)
    BY <1>2 DEF OfPeer, OfKind
  <2>2. \A S : IsFiniteSet(S) /\ t \in S => Cardinality(S) \in Nat /\ Cardinality(S) # 0
    BY FS_CardinalityType, FS_EmptySet
  <2>3. IsFiniteSet(OfPeer(t.peer)) /\ IsFiniteSet(OfKind(t.kind))
    BY <1>1, PartsFinite DEF IInv
  <2>4. Cardinality(work) # 0 /\ Cardinality(OfPeer(t.peer)) # 0 /\ Cardinality(OfKind(t.kind)) # 0
    BY <1>2, <2>1, <2>2, <2>3 DEF IInv
  <2>5. /\ Cardinality(work) \in Nat
        /\ \A p \in Peers : Cardinality(OfPeer(p)) \in Nat
        /\ \A k \in WorkKind : Cardinality(OfKind(k)) \in Nat
    BY PartsFinite DEF IInv
  <2> QED
    BY <1>1, <2>4, <2>5
<1>8. global \in Nat /\ relayed \in Nat /\ \A p \in Peers : held(p) \in Nat
  BY HeldType DEF IInv, MeterInv, TypeOK
<1>9. Covered'
  <2> SUFFICES ASSUME caller' # "repeats"
               PROVE  /\ Cardinality(work') <= global'
                      /\ Cardinality(OfKind("Relayed")') <= relayed'
                      /\ \A p \in Peers : Cardinality(OfPeer(p)') <= held(p)'
    BY DEF Covered
  <2>1. /\ Cardinality(work) <= global
        /\ Cardinality(OfKind("Relayed")) <= relayed
        /\ \A p \in Peers : Cardinality(OfPeer(p)) <= held(p)
    BY <1>2 DEF IInv, Covered
  <2>2. Cardinality(work') <= global'
    BY <1>5, <1>6, <1>7, <1>8, <2>1 DEF Less1
  <2>3. Cardinality(OfKind("Relayed")') <= relayed'
    BY <1>1, <1>5, <1>6, <1>7, <1>8, <2>1 DEF Less1, WorkKind
  <2>4. ASSUME NEW p \in Peers PROVE Cardinality(OfPeer(p)') <= held(p)'
    BY <1>5, <1>6, <1>7, <1>8, <2>1 DEF Less1
  <2> QED
    BY <2>2, <2>3, <2>4
<1>10. Accounts'
  <2> SUFFICES ASSUME caller' = "pairs"
               PROVE  /\ global' = Cardinality(work')
                      /\ relayed' = Cardinality(OfKind("Relayed")')
                      /\ \A p \in Peers : held(p)' = Cardinality(OfPeer(p)')
    BY DEF Accounts
  <2>1. /\ global = Cardinality(work)
        /\ relayed = Cardinality(OfKind("Relayed"))
        /\ \A p \in Peers : held(p) = Cardinality(OfPeer(p))
    BY <1>2 DEF IInv, Accounts
  <2>2. global' = Cardinality(work')
    BY <1>5, <1>6, <1>7, <2>1 DEF Less1
  <2>3. relayed' = Cardinality(OfKind("Relayed")')
    BY <1>1, <1>5, <1>6, <1>7, <2>1 DEF Less1, WorkKind
  <2>4. ASSUME NEW p \in Peers PROVE held(p)' = Cardinality(OfPeer(p)')
    BY <1>5, <1>6, <1>7, <2>1 DEF Less1
  <2> QED
    BY <2>2, <2>3, <2>4
<1> QED
  BY <1>3, <1>4, <1>9, <1>10 DEF IInv

\* A skipped release takes work away and leaves the meter alone.
LEMMA LeakIInv ==
    ASSUME IInv, NEW t \in Ticket, Leak(t)
    PROVE  IInv'
<1>1. t.peer \in Peers /\ t.kind \in WorkKind
  BY TicketAssumption
<1>2. /\ t \in work /\ work' = work \ {t}
      /\ UNCHANGED <<in_flight, global, relayed, caller>>
      /\ caller # "pairs"
  BY DEF Leak
<1>3. MeterInv'
  BY <1>2 DEF IInv, MeterInv, TypeOK, Tracked, MeterBounded
<1>4. IsFiniteSet(work')
  BY <1>2, WorkShrinks DEF IInv
<1>5. Covered'
  <2> SUFFICES ASSUME caller' # "repeats"
               PROVE  /\ Cardinality(work') <= global'
                      /\ Cardinality(OfKind("Relayed")') <= relayed'
                      /\ \A p \in Peers : Cardinality(OfPeer(p)') <= held(p)'
    BY DEF Covered
  <2>1. /\ Cardinality(work) <= global
        /\ Cardinality(OfKind("Relayed")) <= relayed
        /\ \A p \in Peers : Cardinality(OfPeer(p)) <= held(p)
    BY <1>2 DEF IInv, Covered
  <2>2. \A p \in Peers : held(p)' = held(p) /\ held(p) \in Nat
    <3>1. \A p \in Peers : held(p)' = held(p)
      BY <1>2 DEF held, Tracked
    <3> QED
      BY <3>1, HeldType DEF IInv, MeterInv
  <2>3. /\ Cardinality(work) \in Nat
        /\ Cardinality(OfKind("Relayed")) \in Nat
        /\ \A p \in Peers : Cardinality(OfPeer(p)) \in Nat
    BY PartsFinite DEF IInv, WorkKind
  <2>4. /\ Cardinality(work') = Cardinality(work) - 1
        /\ \A p \in Peers : Cardinality(OfPeer(p)') =
              IF p = t.peer THEN Cardinality(OfPeer(p)) - 1 ELSE Cardinality(OfPeer(p))
        /\ \A k \in WorkKind : Cardinality(OfKind(k)') =
              IF k = t.kind THEN Cardinality(OfKind(k)) - 1 ELSE Cardinality(OfKind(k))
    BY <1>2, WorkShrinks DEF IInv
  <2>5. global \in Nat /\ relayed \in Nat
    BY DEF IInv, MeterInv, TypeOK
  <2>6. Cardinality(work') <= global'
    BY <1>2, <2>1, <2>3, <2>4, <2>5
  <2>7. Cardinality(OfKind("Relayed")') <= relayed'
    BY <1>2, <2>1, <2>3, <2>4, <2>5 DEF WorkKind
  <2>8. ASSUME NEW p \in Peers PROVE Cardinality(OfPeer(p)') <= held(p)'
    BY <2>1, <2>2, <2>3, <2>4
  <2> QED
    BY <2>6, <2>7, <2>8
<1>6. Accounts'
  BY <1>2 DEF Accounts
<1> QED
  BY <1>3, <1>4, <1>5, <1>6 DEF IInv

\* A repeated release breaks the agreement, and no more than that.
LEMMA ReleaseAgainIInv ==
    ASSUME IInv, NEW t \in Ticket, ReleaseAgain(t)
    PROVE  IInv'
<1>1. t.peer \in Peers /\ t.kind \in WorkKind
  BY TicketAssumption
<1>2. Released(t.peer, t.kind) /\ work' = work /\ caller' = caller /\ caller = "repeats"
  BY DEF ReleaseAgain
<1>3. MeterInv'
  BY <1>1, <1>2, ReleasedBounded DEF IInv
<1> QED
  BY <1>2, <1>3 DEF IInv, Covered, Accounts

\* A step that leaves the variables alone leaves the invariant alone.
LEMMA StutterIInv == IInv /\ UNCHANGED vars => IInv'
  BY DEF IInv, MeterInv, vars, TypeOK, Tracked, Accounts, Covered, MeterBounded, held, OfKind, OfPeer

\* One step of the meter and its callers.
LEMMA NextIInv == IInv /\ [Next]_vars => IInv'
<1>1. ASSUME IInv, Next PROVE IInv'
  <2>1. PICK t \in Ticket :
           \/ \E units \in Units : admit(t, units)
           \/ release(t) \/ Leak(t) \/ ReleaseAgain(t)
    BY <1>1 DEF Next
  <2>2. CASE \E units \in Units : admit(t, units)
    BY <1>1, <2>2, AdmitIInv
  <2>3. CASE release(t)
    BY <1>1, <2>3, ReleaseIInv
  <2>4. CASE Leak(t)
    BY <1>1, <2>4, LeakIInv
  <2>5. CASE ReleaseAgain(t)
    BY <1>1, <2>5, ReleaseAgainIInv
  <2> QED
    BY <2>1, <2>2, <2>3, <2>4, <2>5
<1> QED
  BY <1>1, StutterIInv

\* The inductive invariant holds of every behaviour.
THEOREM Invariance == Spec => []IInv
<1>1. Init => IInv
  BY InitIInv
<1>2. IInv /\ [Next]_vars => IInv'
  BY NextIInv
<1> QED
  BY <1>1, <1>2, PTL DEF Spec

-----------------------------------------------------------------------------
(* What follows *)

\* The meter's variables keep their types.
THEOREM TypeCorrect == Spec => []TypeOK
<1>1. IInv => TypeOK
  BY DEF IInv, MeterInv
<1> QED
  BY <1>1, Invariance, PTL

\* The meter counts exactly the work under way, per node, budget and peer.
THEOREM AccountsExact == Spec => []Accounts
<1>1. IInv => Accounts
  BY DEF IInv
<1> QED
  BY <1>1, Invariance, PTL

\* Unless releases are repeated, every peer with work under way is in the table;
\* if the pairing is kept, no other is.
LEMMA TableHoldsActivePeers ==
    ASSUME IInv, caller # "repeats"
    PROVE  /\ {t.peer : t \in work} \subseteq Tracked
           /\ caller = "pairs" => Tracked = {t.peer : t \in work}
<1>1. \A p \in Peers : held(p) \in Nat /\ (p \in Tracked <=> held(p) > 0)
  BY HeldType DEF IInv, MeterInv
<1>2. ASSUME NEW p \in Peers
      PROVE  /\ OfPeer(p) # {} => held(p) > 0
             /\ caller = "pairs" /\ held(p) > 0 => OfPeer(p) # {}
  <2>1. IsFiniteSet(OfPeer(p)) /\ Cardinality(OfPeer(p)) \in Nat
    BY PartsFinite DEF IInv
  <2>2. Cardinality(OfPeer(p)) <= held(p)
    BY DEF IInv, Covered
  <2>3. caller = "pairs" => held(p) = Cardinality(OfPeer(p))
    BY DEF IInv, Accounts
  <2>4. OfPeer(p) # {} <=> Cardinality(OfPeer(p)) # 0
    BY <2>1, FS_EmptySet
  <2> QED
    BY <1>1, <2>1, <2>2, <2>3, <2>4
<1>3. Tracked \subseteq Peers /\ \A t \in work : t.peer \in Peers
  BY TicketAssumption DEF IInv, MeterInv, TypeOK
<1>4. \A p \in Peers : OfPeer(p) # {} <=> p \in {t.peer : t \in work}
  BY DEF OfPeer
<1> QED
  BY <1>1, <1>2, <1>3, <1>4

\* The work really under way stays within every limit, whether or not releases
\* are skipped.
THEOREM LimitsHold == Spec => []WorkWithinLimits
<1>1. IInv => WorkWithinLimits
  <2> SUFFICES ASSUME IInv, caller # "repeats"
               PROVE  /\ Cardinality(work) <= global_ceiling
                      /\ Cardinality(OfKind("Relayed")) <= relay_ceiling
                      /\ \A p \in Peers : Cardinality(OfPeer(p)) <= per_peer_share
                      /\ Cardinality({t.peer : t \in work}) <= max_tracked_peers
    BY DEF WorkWithinLimits
  <2>1. /\ Cardinality(work) \in Nat
        /\ Cardinality(OfKind("Relayed")) \in Nat
        /\ \A p \in Peers : Cardinality(OfPeer(p)) \in Nat /\ held(p) \in Nat
    BY PartsFinite, HeldType DEF IInv, MeterInv, WorkKind
  <2>2. Cardinality(work) <= global_ceiling /\ Cardinality(OfKind("Relayed")) <= relay_ceiling
    BY <2>1, LimitsAssumption DEF IInv, MeterInv, TypeOK, Covered, MeterBounded
  <2>3. ASSUME NEW p \in Peers PROVE Cardinality(OfPeer(p)) <= per_peer_share
    <3>1. Cardinality(OfPeer(p)) <= held(p)
      BY DEF IInv, Covered
    <3>2. held(p) <= per_peer_share
      BY LimitsAssumption DEF held, IInv, MeterInv, MeterBounded
    <3> QED
      BY <2>1, <3>1, <3>2, LimitsAssumption
  <2>4. Cardinality({t.peer : t \in work}) <= max_tracked_peers
    <3>1. IsFiniteSet(Tracked) /\ Cardinality(Tracked) <= max_tracked_peers
      BY DEF IInv, MeterInv, MeterBounded
    <3>2. {t.peer : t \in work} \in SUBSET Tracked
      BY TableHoldsActivePeers
    <3>3. /\ IsFiniteSet({t.peer : t \in work})
          /\ Cardinality({t.peer : t \in work}) <= Cardinality(Tracked)
      BY <3>1, <3>2, FS_Subset
    <3>4. Cardinality({t.peer : t \in work}) \in Nat /\ Cardinality(Tracked) \in Nat
      BY <3>1, <3>3, FS_CardinalityType
    <3> QED
      BY <3>1, <3>3, <3>4, LimitsAssumption
  <2> QED
    BY <2>2, <2>3, <2>4
<1> QED
  BY <1>1, Invariance, PTL

\* The work is its own and its relayed units.
LEMMA KindsPartitionWork ==
    ASSUME IInv
    PROVE  Cardinality(work) = Cardinality(OfKind("Own")) + Cardinality(OfKind("Relayed"))
<1>1. OfKind("Own") \cup OfKind("Relayed") = work
  BY TicketAssumption DEF IInv, MeterInv, TypeOK, OfKind, WorkKind
<1>2. OfKind("Own") \cap OfKind("Relayed") = {}
  BY DEF OfKind
<1>3. IsFiniteSet(OfKind("Own")) /\ IsFiniteSet(OfKind("Relayed"))
  BY PartsFinite DEF IInv, WorkKind
<1>4. Cardinality(OfKind("Own") \cup OfKind("Relayed")) =
        Cardinality(OfKind("Own")) + Cardinality(OfKind("Relayed"))
        - Cardinality(OfKind("Own") \cap OfKind("Relayed"))
  BY <1>3, FS_Union
<1>5. Cardinality(OfKind("Own") \cap OfKind("Relayed")) = 0
  BY <1>2, FS_EmptySet
<1>6. Cardinality(OfKind("Own")) \in Nat /\ Cardinality(OfKind("Relayed")) \in Nat
  BY <1>3, FS_CardinalityType
<1>7. Cardinality(OfKind("Own") \cup OfKind("Relayed")) =
        Cardinality(OfKind("Own")) + Cardinality(OfKind("Relayed"))
  BY <1>4, <1>5, <1>6, SMT
<1> QED
  BY <1>1, <1>7, Zenon

\* Relays never take the share of the ceiling that is left to own work.
THEOREM OwnWorkIsReserved == Spec => []OwnWorkReserved
<1>1. IInv => OwnWorkReserved
  <2> SUFFICES ASSUME IInv,
                      caller = "pairs",
                      Cardinality(OfKind("Own")) < global_ceiling - relay_ceiling,
                      NEW p \in Peers, NEW units \in Units
               PROVE  Verdict(p, "Own", units) \notin {"GlobalCeiling", "RelayBudget"}
    BY DEF OwnWorkReserved
  <2>1. /\ global = Cardinality(OfKind("Own")) + Cardinality(OfKind("Relayed"))
        /\ Cardinality(OfKind("Relayed")) <= relay_ceiling
    BY KindsPartitionWork DEF IInv, MeterInv, Accounts, MeterBounded
  <2>2. Cardinality(OfKind("Own")) \in Nat /\ Cardinality(OfKind("Relayed")) \in Nat
    BY PartsFinite DEF IInv, WorkKind
  <2>3. ~(global >= global_ceiling)
    BY <2>1, <2>2, LimitsAssumption
  <2> QED
    BY <2>3 DEF Verdict
<1> QED
  BY <1>1, Invariance, PTL

\* Every refusal is explained by work under way.
THEOREM RefusalsAreEarned == Spec => []RefusalsEarned
<1>1. IInv => RefusalsEarned
  <2> SUFFICES ASSUME IInv,
                      NEW p \in Peers, NEW kind \in WorkKind, NEW units \in Units,
                      caller = "pairs",
                      units <= max_request_units,
                      Cardinality(work) < global_ceiling,
                      kind = "Relayed" => Cardinality(OfKind("Relayed")) < relay_ceiling,
                      Cardinality(OfPeer(p)) < per_peer_share,
                      Cardinality({t.peer : t \in work} \cup {p}) <= max_tracked_peers
               PROVE  Verdict(p, kind, units) = "Admitted"
    BY DEF RefusalsEarned
  <2>1. /\ global = Cardinality(work)
        /\ relayed = Cardinality(OfKind("Relayed"))
        /\ held(p) = Cardinality(OfPeer(p))
    BY DEF IInv, Accounts
  <2>2. /\ Cardinality(work) \in Nat
        /\ Cardinality(OfKind("Relayed")) \in Nat
        /\ Cardinality(OfPeer(p)) \in Nat
    BY PartsFinite DEF IInv, WorkKind
  <2>3. ~(units > max_request_units) /\ ~(global >= global_ceiling)
    BY <2>1, <2>2, LimitsAssumption
  <2>4. ~(kind = "Relayed" /\ relayed >= relay_ceiling) /\ ~(held(p) >= per_peer_share)
    BY <2>1, <2>2, LimitsAssumption
  <2>5. ~(held(p) = 0 /\ Cardinality(Tracked) >= max_tracked_peers)
    <3> SUFFICES ASSUME held(p) = 0 PROVE ~(Cardinality(Tracked) >= max_tracked_peers)
      OBVIOUS
    <3>1. p \notin Tracked
      BY HeldType DEF IInv, MeterInv
    <3>2. Cardinality(Tracked \cup {p}) = Cardinality(Tracked) + 1
      BY <3>1, FS_AddElement DEF IInv, MeterInv
    <3>3. Cardinality(Tracked \cup {p}) <= max_tracked_peers
      BY TableHoldsActivePeers
    <3>4. Cardinality(Tracked) \in Nat
      BY FS_CardinalityType DEF IInv, MeterInv
    <3> QED
      BY <3>2, <3>3, <3>4, LimitsAssumption
  <2> QED
    BY <2>3, <2>4, <2>5 DEF Verdict
<1> QED
  BY <1>1, Invariance, PTL

\* Allowance lost to a skipped release stays lost: only repeated releases could
\* give it back.
THEOREM LeaksStay == Spec => LeaksAccumulate
<1>1. IInv /\ [Next]_vars => [caller # "repeats" => Lost' >= Lost]_vars
  <2> SUFFICES ASSUME IInv, Next, caller # "repeats" PROVE Lost' >= Lost
    BY DEF vars
  <2>1. PICK t \in Ticket :
           \/ \E units \in Units : admit(t, units)
           \/ release(t) \/ Leak(t) \/ ReleaseAgain(t)
    BY DEF Next
  <2>2. Cardinality(work) \in Nat /\ global \in Nat /\ Cardinality(work) <= global
    BY PartsFinite DEF IInv, MeterInv, TypeOK, Covered
  <2>3. ASSUME NEW units \in Units, admit(t, units) PROVE Lost' >= Lost
    <3>1. global' = global + 1 /\ Cardinality(work') = Cardinality(work) + 1
      BY <2>3, WorkGrows DEF admit, IInv
    <3> QED
      BY <2>2, <3>1 DEF Lost
  <2>4. CASE release(t)
    <3>1. t \in work /\ work' = work \ {t} /\ global' = Less1(global)
      BY <2>4 DEF release, Released
    <3>2. Cardinality(work') = Cardinality(work) - 1
      BY <3>1, WorkShrinks DEF IInv
    <3>3. Cardinality(work) # 0
      BY <3>1, FS_EmptySet DEF IInv
    <3> QED
      BY <2>2, <3>1, <3>2, <3>3 DEF Lost, Less1
  <2>5. CASE Leak(t)
    <3>1. t \in work /\ work' = work \ {t} /\ global' = global
      BY <2>5 DEF Leak
    <3>2. Cardinality(work') = Cardinality(work) - 1
      BY <3>1, WorkShrinks DEF IInv
    <3> QED
      BY <2>2, <3>1, <3>2 DEF Lost
  <2>6. ~ ReleaseAgain(t)
    BY DEF ReleaseAgain
  <2> QED
    BY <2>1, <2>3, <2>4, <2>5, <2>6
<1> QED
  BY <1>1, Invariance, PTL DEF Spec, LeaksAccumulate

\* Whatever the caller gets wrong, the meter's own state stays bounded.
THEOREM FaultsStayBounded == Spec => []MeterBounded
<1>1. IInv => MeterBounded
  BY DEF IInv, MeterInv
<1> QED
  BY <1>1, Invariance, PTL

\* What a caller gets wrong costs allowance and nothing else.
THEOREM FaultsContained == Spec => FaultsAreContained
  BY FaultsStayBounded, LeaksStay, PTL DEF FaultsAreContained
=============================================================================
