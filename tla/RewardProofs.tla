---------------------------- MODULE RewardProofs ----------------------------
(***************************************************************************)
(* Theorems about Reward, for any events, stores, amounts and listings.    *)
(*                                                                         *)
(* Corroborated needs that every event the host may retry is already in    *)
(* the ledger (RetriesKnown): then a retry, whatever amount it reports,    *)
(* finds its event recorded, and only the chain's own claims ever enter.   *)
(***************************************************************************)
EXTENDS Reward, FiniteSetTheorems, FunctionTheorems, WellFoundedInduction, TLAPS

Unique(claims) == \A c, d \in claims : c.claim_id = d.claim_id => c = d

RetriesKnown == Ids(reports) \subseteq Ids(seen)

Truthful == seen \subseteq chain /\ view = NoView /\ RetriesKnown

IInv == TypeOK /\ Unique(chain) /\ (careful => Truthful)
        /\ (view # NoView => Unique(view.claims))

-----------------------------------------------------------------------------
(* What a rebuild keeps. *)

\* A set of numbers has a least one.
LEMMA Least ==
    ASSUME NEW T \in SUBSET Nat, T # {}
    PROVE  \E x \in T : \A y \in T : x <= y
<1>1. PICK x \in T : \A y \in T : ~ (<<y, x>> \in OpToRel(<, Nat))
    BY NatLessThanWellFounded, WFMin
<1>2. \A y \in T : ~ (y < x)
    BY <1>1 DEF OpToRel
<1>3. QED
    BY <1>2

\* Rebuilding keeps only listed claims, one of each event listed.
LEMMA RebuildKeepsFirst ==
    ASSUME NEW claims \in Seq(RewardClaim)
    PROVE  LET listed  == {claims[i] : i \in DOMAIN claims}
               rebuilt == from_chain_claims(claims)
           IN  /\ rebuilt \subseteq listed
               /\ Unique(rebuilt)
               /\ Ids(rebuilt) = Ids(listed)
<1> DEFINE listed  == {claims[i] : i \in DOMAIN claims}
           rebuilt == from_chain_claims(claims)
           n == Len(claims)
           IsFirst(i) == \A m \in 1..(i - 1) : claims[m].claim_id # claims[i].claim_id
<1>1. n \in Nat /\ DOMAIN claims = 1..n
    OBVIOUS
<1>2. rebuilt = {claims[i] : i \in {k \in 1..n : IsFirst(k)}}
    BY DEF from_chain_claims
<1>3. rebuilt \subseteq listed
    BY <1>1, <1>2
<1>4. Unique(rebuilt)
    <2>1. SUFFICES ASSUME NEW c \in rebuilt, NEW d \in rebuilt, c.claim_id = d.claim_id
                   PROVE  c = d
        BY DEF Unique
    <2>2. PICK i \in 1..n : c = claims[i] /\ IsFirst(i)
        BY <1>2
    <2>3. PICK j \in 1..n : d = claims[j] /\ IsFirst(j)
        BY <1>2
    <2>4. ~ (i < j)
        <3>1. i < j => i \in 1..(j - 1)
            BY <1>1
        <3>2. QED
            BY <2>1, <2>2, <2>3, <3>1
    <2>5. ~ (j < i)
        <3>1. j < i => j \in 1..(i - 1)
            BY <1>1
        <3>2. QED
            BY <2>1, <2>2, <2>3, <3>1
    <2>6. i = j
        BY <1>1, <2>4, <2>5
    <2>7. QED
        BY <2>2, <2>3, <2>6
<1>5. ASSUME NEW i \in 1..n
      PROVE  \E c \in rebuilt : c.claim_id = claims[i].claim_id
    <2> DEFINE T == {k \in 1..n : claims[k].claim_id = claims[i].claim_id}
    <2>1. T \in SUBSET Nat /\ i \in T
        BY <1>1
    <2>2. PICK k \in T : \A y \in T : k <= y
        BY <2>1, Least
    <2>3. \A m \in 1..(k - 1) : m \in 1..n /\ ~ (k <= m)
        BY <1>1, <2>2
    <2>4. IsFirst(k)
        BY <2>2, <2>3
    <2>5. QED
        BY <1>2, <2>2, <2>4
<1>6. Ids(rebuilt) = Ids(listed)
    <2>1. Ids(rebuilt) \subseteq Ids(listed)
        BY <1>3 DEF Ids
    <2>2. ASSUME NEW e \in Ids(listed) PROVE e \in Ids(rebuilt)
        <3>1. PICK i \in 1..n : e = claims[i].claim_id
            BY <1>1, <2>2 DEF Ids
        <3>2. PICK c \in rebuilt : c.claim_id = claims[i].claim_id
            BY <1>5
        <3>3. QED
            BY <3>1, <3>2 DEF Ids
    <2>3. QED
        BY <2>1, <2>2
<1>7. QED
    BY <1>3, <1>4, <1>6

\* A listing of claims with one claim per event rebuilds exactly those.
LEMMA RebuildIsExact ==
    ASSUME NEW claims \in SUBSET RewardClaim, Unique(claims), NEW s \in Listings(claims)
    PROVE  from_chain_claims(s) = claims
<1>1. s \in Seq(RewardClaim) /\ {s[i] : i \in DOMAIN s} = claims
    <2>1. PICK n \in 0..MaxObserved : s \in [1..n -> claims]
        BY DEF Listings
    <2>2. n \in Nat
        BY RewardAssumption, <2>1
    <2>3. s \in Seq(RewardClaim)
        BY <2>1, <2>2
    <2>4. QED
        BY <2>3 DEF Listings
<1>2. /\ from_chain_claims(s) \subseteq claims
      /\ Ids(from_chain_claims(s)) = Ids(claims)
    BY <1>1, RebuildKeepsFirst
<1>3. ASSUME NEW c \in claims PROVE c \in from_chain_claims(s)
    <2>1. PICK d \in from_chain_claims(s) : d.claim_id = c.claim_id
        BY <1>2 DEF Ids
    <2>2. QED
        BY <1>2, <2>1 DEF Unique
<1>4. QED
    BY <1>2, <1>3
-----------------------------------------------------------------------------
(* Sums of amounts. *)

\* A block of n units.
LEMMA Block ==
    ASSUME NEW x, NEW n \in Nat
    PROVE  /\ IsFiniteSet({x} \X (1..n))
           /\ Cardinality({x} \X (1..n)) = n
<1>1. IsFiniteSet(1..n) /\ Cardinality(1..n) = IF 1 > n THEN 0 ELSE n - 1 + 1
    <2>1. 1 \in Int /\ n \in Int
        OBVIOUS
    <2>2. QED
        BY <2>1, FS_Interval
<1>2. Cardinality(1..n) = n
    BY <1>1
<1>3. IsFiniteSet({x}) /\ Cardinality({x}) = 1
    BY FS_Singleton
<1>4. /\ IsFiniteSet({x} \X (1..n))
      /\ Cardinality({x} \X (1..n)) = Cardinality({x}) * Cardinality(1..n)
    BY <1>1, <1>3, FS_Product, Zenon
<1>5. Cardinality({x} \X (1..n)) = 1 * n
    BY <1>2, <1>3, <1>4
<1>6. QED
    BY <1>4, <1>5

\* The units of a finite sum are finitely many.
LEMMA UnitsFinite ==
    ASSUME NEW S, IsFiniteSet(S), NEW f, \A x \in S : f[x] \in Nat
    PROVE  IsFiniteSet(Units(f, S)) /\ SumOver(f, S) \in Nat
<1> DEFINE block == [x \in S |-> {x} \X (1..f[x])]
           blocks == {{x} \X (1..f[x]) : x \in S}
<1>1. block \in Surjection(S, blocks)
    <2>1. block \in [S -> blocks]
        OBVIOUS
    <2>2. \A b \in blocks : \E x \in S : block[x] = b
        OBVIOUS
    <2>3. QED
        BY <2>1, <2>2, Fun_IsSurj
<1>2. IsFiniteSet(blocks)
    BY <1>1, FS_Surjection
<1>3. \A b \in blocks : IsFiniteSet(b)
    <2>1. \A x \in S : IsFiniteSet({x} \X (1..f[x]))
        BY Block, Zenon
    <2>2. QED
        BY <2>1
<1>4. IsFiniteSet(UNION blocks)
    BY <1>2, <1>3, FS_UNION
<1>5. Units(f, S) = UNION blocks
    BY DEF Units
<1>6. QED
    BY <1>4, <1>5, FS_CardinalityType DEF SumOver

-----------------------------------------------------------------------------
(* The inductive invariant. *)

\* Recording keeps the ids of a ledger unique and its claims.
LEMMA RecordKeeps ==
    ASSUME NEW ledger \in SUBSET RewardClaim, Unique(ledger), NEW c \in RewardClaim
    PROVE  /\ record(ledger, c) \in SUBSET RewardClaim
           /\ Unique(record(ledger, c))
           /\ ledger \subseteq record(ledger, c)
           /\ c.claim_id \in Ids(record(ledger, c))
           /\ c.claim_id \in Ids(ledger) => record(ledger, c) = ledger
    BY DEF record, Unique, Ids

\* The invariant holds of the empty ledger.
LEMMA InitIInv == Init => IInv
    BY DEF Init, IInv, TypeOK, Unique, Truthful, RetriesKnown, Ids, empty

\* Recording keeps the invariant if a careful host knows the claim or its event.
LEMMA RecordStep ==
    ASSUME IInv, NEW c \in RewardClaim, Record(c),
           careful => c \in chain \/ c.claim_id \in Ids(seen)
    PROVE  IInv'
<1>1. /\ seen' = record(seen, c) /\ reports' = reports \union {c}
      /\ UNCHANGED <<chain, view, careful, quiet>>
    BY DEF Record
<1>2. seen \in SUBSET RewardClaim /\ Unique(seen)
    BY DEF IInv, TypeOK, Unique
<1>3. /\ seen' \in SUBSET RewardClaim /\ Unique(seen') /\ seen \subseteq seen'
      /\ c.claim_id \in Ids(seen')
    BY <1>1, <1>2, RecordKeeps
<1>4. TypeOK'
    BY <1>1, <1>3 DEF IInv, TypeOK, Unique
<1>5. careful => Truthful'
    <2>1. SUFFICES ASSUME careful PROVE Truthful'
        OBVIOUS
    <2>2. Truthful
        BY <2>1 DEF IInv
    <2>3. seen' \subseteq chain'
        BY <1>1, <1>2, <2>1, <2>2, RecordKeeps DEF record, Truthful
    <2>4. Ids(reports') \subseteq Ids(seen')
        BY <1>1, <1>3, <2>2 DEF Truthful, RetriesKnown, Ids
    <2>5. QED
        BY <1>1, <2>2, <2>3, <2>4 DEF Truthful, RetriesKnown
<1>6. QED
    BY <1>1, <1>4, <1>5 DEF IInv, Unique

\* Every step keeps it.
LEMMA NextIInv == IInv /\ [Next]_vars => IInv'
<1> SUFFICES ASSUME IInv, [Next]_vars PROVE IInv'
    OBVIOUS
<1>1. /\ TypeOK /\ Unique(chain) /\ chain \in SUBSET RewardClaim
      /\ careful => Truthful
      /\ view # NoView => Unique(view.claims)
    BY DEF IInv, TypeOK
<1>2. CASE Happens
    <2>1. PICK c \in RewardClaim : c.claim_id \notin Ids(chain) /\ chain' = chain \union {c}
        BY <1>2 DEF Happens
    <2>2. Unique(chain') /\ chain' \in SUBSET RewardClaim /\ chain \subseteq chain'
        BY <1>1, <2>1 DEF Unique, Ids
    <2>3. UNCHANGED <<seen, reports, view, careful, quiet>>
        BY <1>2 DEF Happens
    <2>4. QED
        BY <1>1, <2>2, <2>3 DEF IInv, TypeOK, Truthful, RetriesKnown, Unique
<1>3. CASE Observe
    <2>1. PICK c \in chain : Record(c)
        BY <1>3 DEF Observe
    <2>2. QED
        BY <1>1, <2>1, RecordStep
<1>4. CASE Retry
    <2>1. PICK c \in RewardClaim : c.claim_id \in Ids(reports) /\ Record(c)
        BY <1>4 DEF Retry
    <2>2. careful => c.claim_id \in Ids(seen)
        BY <1>1, <2>1 DEF Truthful, RetriesKnown
    <2>3. QED
        BY <2>1, <2>2, RecordStep
<1>5. CASE Phantom
    BY <1>5, RecordStep DEF Phantom
<1>6. CASE Reconcile
    <2>1. PICK claims \in Listings(chain) : seen' = from_chain_claims(claims)
        BY <1>6 DEF Reconcile, reconcile_from_chain
    <2>2. seen' = chain
        BY <1>1, <2>1, RebuildIsExact
    <2>3. careful /\ UNCHANGED <<chain, reports, view, careful, quiet>>
        BY <1>6 DEF Reconcile
    <2>4. Ids(reports) \subseteq Ids(seen')
        BY <1>1, <2>2, <2>3 DEF Truthful, RetriesKnown, Ids
    <2>5. Truthful'
        BY <1>1, <2>2, <2>3, <2>4 DEF Truthful, RetriesKnown
    <2>6. TypeOK'
        BY <1>1, <2>2, <2>3 DEF TypeOK, Unique
    <2>7. QED
        BY <1>1, <2>3, <2>5, <2>6 DEF IInv, Unique
<1>7. CASE ReadChain
    <2>1. view' = [claims |-> chain] /\ ~ careful /\ UNCHANGED <<chain, seen, reports, careful, quiet>>
        BY <1>7 DEF ReadChain
    <2>2. view'.claims = chain /\ view' \in [claims : SUBSET RewardClaim]
        BY <1>1, <2>1
    <2>3. QED
        BY <1>1, <2>1, <2>2 DEF IInv, TypeOK, Unique
<1>8. CASE ReconcileView
    <2>1. /\ view # NoView /\ view' = NoView
          /\ UNCHANGED <<chain, reports, careful, quiet>>
        BY <1>8 DEF ReconcileView
    <2>2. PICK claims \in Listings(view.claims) : seen' = from_chain_claims(claims)
        BY <1>8 DEF ReconcileView, reconcile_from_chain
    <2>3. view.claims \in SUBSET RewardClaim
        BY <1>1, <2>1 DEF TypeOK
    <2>4. seen' = view.claims
        BY <1>1, <2>1, <2>2, <2>3, RebuildIsExact
    <2>5. ~ careful
        BY <1>1, <2>1 DEF Truthful
    <2>6. QED
        BY <1>1, <2>1, <2>3, <2>4, <2>5 DEF IInv, TypeOK, Unique
<1>9. CASE Crash
    BY <1>1, <1>9 DEF Crash, IInv, TypeOK, Unique, Truthful, RetriesKnown, Ids, empty
<1>10. CASE FallQuiet
    <2>1. quiet' = TRUE /\ UNCHANGED <<chain, seen, reports, view, careful>>
        BY <1>10 DEF FallQuiet
    <2>2. QED
        BY <1>1, <2>1 DEF IInv, TypeOK, Unique, Truthful, RetriesKnown
<1>11. CASE UNCHANGED vars
    BY <1>1, <1>11 DEF vars, IInv, TypeOK, Unique, Truthful, RetriesKnown
<1>12. QED
    BY <1>2, <1>3, <1>4, <1>5, <1>6, <1>7, <1>8, <1>9, <1>10, <1>11 DEF Next

\* The inductive invariant: ledgers with unique ids, and those of a careful
\* host truthful (reward.rs:81-96).
THEOREM Invariance == Spec => []IInv
<1>1. QED
    BY InitIInv, NextIInv, PTL DEF Spec

-----------------------------------------------------------------------------
(* The theorems. *)

\* The ledger holds at most one claim per event, whatever the host does.
THEOREM TypeCorrect == Spec => []TypeOK
<1>1. IInv => TypeOK
    BY DEF IInv
<1>2. QED
    BY <1>1, Invariance, PTL

\* A careful host's ledger never holds what did not happen.
THEOREM NeverUncorroborated == Spec => []Corroborated
<1>1. IInv => Corroborated
    BY DEF IInv, Truthful, Corroborated
<1>2. QED
    BY <1>1, Invariance, PTL

\* Claims are finitely many and no fewer claims add up to no less.
LEMMA TotalGrows ==
    ASSUME NEW claims \in SUBSET RewardClaim, IsFiniteSet(claims),
           NEW part \in SUBSET claims, NEW store
    PROVE  /\ Total(part, store) \in Nat /\ Total(claims, store) \in Nat
           /\ Total(part, store) <= Total(claims, store)
<1> DEFINE some == {c \in part : c.store = store}
           all  == {c \in claims : c.store = store}
<1>1. some \subseteq all /\ all \subseteq claims
    OBVIOUS
<1>2. IsFiniteSet(all)
    BY <1>1, FS_Subset
<1>3. \A c \in all : Amounts[c] \in Nat
    <2>1. SUFFICES ASSUME NEW c \in RewardClaim PROVE Amounts[c] \in Nat
        OBVIOUS
    <2>2. c.amount \in Nat
        BY RewardAssumption
    <2>3. QED
        BY <2>2 DEF Amounts
<1>4. IsFiniteSet(Units(Amounts, all)) /\ SumOver(Amounts, all) \in Nat
    BY <1>2, <1>3, UnitsFinite
<1>5. Units(Amounts, some) \subseteq Units(Amounts, all)
    BY <1>1 DEF Units
<1>6. /\ IsFiniteSet(Units(Amounts, some))
      /\ Cardinality(Units(Amounts, some)) <= Cardinality(Units(Amounts, all))
    BY <1>4, <1>5, FS_Subset
<1>7. Cardinality(Units(Amounts, some)) \in Nat
    BY <1>6, FS_CardinalityType
<1>8. QED
    BY <1>4, <1>6, <1>7 DEF Total, SumOver

ChainFinite == IsFiniteSet(chain)

\* The chain grows one claim at a time.
LEMMA ChainStaysFinite == Spec => []ChainFinite
<1>1. Init => ChainFinite
    BY FS_EmptySet DEF Init, ChainFinite
<1>2. ChainFinite /\ [Next]_vars => ChainFinite'
    <2>1. SUFFICES ASSUME IsFiniteSet(chain), [Next]_vars PROVE IsFiniteSet(chain')
        BY DEF ChainFinite
    <2>2. CASE Happens
        BY <2>1, <2>2, FS_AddElement DEF Happens
    <2>3. CASE chain' = chain
        BY <2>1, <2>3
    <2>4. QED
        BY <2>1, <2>2, <2>3
           DEF Next, Observe, Retry, Phantom, Record, Reconcile, ReadChain, ReconcileView,
               Crash, FallQuiet, vars
<1>3. QED
    BY <1>1, <1>2, PTL DEF Spec

\* With a careful host no store ever looks better paid than it is: the sum
\* over fewer claims is no greater, and saturation only takes away.
THEOREM StoresAreNotOverpaid == Spec => []NeverOverCounts
<1>1. ASSUME IInv, IsFiniteSet(chain), careful, NEW store \in Stores
      PROVE  claimed_for(seen, store) <= Total(chain, store)
    <2>1. seen \subseteq chain /\ chain \in SUBSET RewardClaim
        BY <1>1 DEF IInv, Truthful, TypeOK
    <2>2. /\ Total(seen, store) \in Nat /\ Total(chain, store) \in Nat
          /\ Total(seen, store) <= Total(chain, store)
        BY <1>1, <2>1, TotalGrows
    <2>3. MaxAmount \in Nat
        BY RewardAssumption
    <2>4. QED
        BY <2>2, <2>3 DEF claimed_for
<1>2. IInv /\ ChainFinite => NeverOverCounts
    BY <1>1 DEF NeverOverCounts, ChainFinite
<1>3. QED
    BY <1>2, Invariance, ChainStaysFinite, PTL

\* Whatever was recorded, a reconciliation leaves exactly what its view of the
\* chain lists, in any order and however often.
THEOREM ReconciliationSettles == Spec => ReconcileSettles
<1>1. ASSUME IInv, Reconcile PROVE seen' = chain
    BY <1>1, RebuildIsExact DEF Reconcile, reconcile_from_chain, IInv, TypeOK
<1>2. ASSUME IInv, ReconcileView PROVE seen' = view.claims
    <2>1. view.claims \in SUBSET RewardClaim /\ Unique(view.claims)
        BY <1>2 DEF ReconcileView, IInv, TypeOK
    <2>2. QED
        BY <1>2, <2>1, RebuildIsExact DEF ReconcileView, reconcile_from_chain
<1>3. IInv /\ [Next]_vars =>
        [/\ Reconcile => seen' = chain
         /\ ReconcileView => seen' = view.claims]_vars
    BY <1>1, <1>2
<1>4. QED
    BY <1>3, Invariance, PTL DEF Spec, ReconcileSettles
=============================================================================
