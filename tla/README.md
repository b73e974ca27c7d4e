# dig-sex in TLA+

`dig-sex` is the decision layer of a DIG node's store exchange: which stores to
hold, which to shed first, which peers to ask, which inbound work to take on.
Every function of the crate is pure. What makes it hard is therefore not inside
one call but between calls: a host keeps the ledgers, the cache, the clock and
the sockets, calls in at its decision points, and acts on the answer later.
These modules model the calls AND the host's side of the contract, check them
with TLC on small instances and prove what holds for every instance with TLAPS.

Paths such as `selection.rs:354` are under `src/src/`.

## 1. The system

| component | state | operations | used by |
|---|---|---|---|
| Tier ladder (`tier.rs`) | none | `rank`, `effective_tier` (a maximum), `DEFAULT_TIER`, `evict_key` | everything below |
| Relevance (`relevance.rs`) | none | `relevance` (a score), `should_displace` | selection; the host's algorithms |
| Algorithm set (`algorithm.rs`) | the registered sources; each source's claims are the host's | `facts`, `facts_or_default` | eviction, the host |
| Selection (`selection.rs`) | none across calls; a loop within one | `select_within_capacity`, `may_displace` | eviction, the host |
| Eviction seam (`eviction.rs`) | the algorithm set, a seed, a margin | `select_evictions`, called by `dig-store-cache` when a capsule comes in | the cache |
| Load admission (`admission.rs`) | units in flight per peer, node-wide and relayed | `admit`, `release` | the host, for every inbound request |
| Acquisition (`acquisition.rs`) | none; held set and in-flight set are the host's | `decide` | the host, after a remote read |
| Holdings (`holdings.rs`) | none; the advertised set is the host's | `after_admission`, `after_eviction`, `reconcile` | the host, after every cache operation |
| Reward ledger (`reward.rs`) | claims by chain event | `record`, `from_chain_claims`, `reconcile_from_chain`, `claimed_for` | the host's paid-retention source |
| Peer conduct (`conduct.rs`) | a record per peer, kept by the host | `observe`, `decay`, `dial_share` | the host, per exchange |
| Ask routing (`routing.rs`) | observations of at most `capacity` peers | `record`, `retain`, `rank`, `select_fan_out` | discovery |
| Recursive discovery (`discovery.rs`) | none | `decide_forward`, `merge_answers` | the host, on an inbound miss |

How they interact: the algorithm set turns the sources' claims into a tier and a
score; selection turns candidates with tiers and scores into what to retain and
what to shed; the eviction seam runs selection inside the cache, after the host
ran it over the same entries plus the capsule it wants; every eviction owes a
retraction through the holdings deltas; every inbound request passes the
admission meter, and a miss that is relayed draws on the meter's relay budget
before discovery forwards it to the peers routing picked.

What is hard, and what makes each component correct:

* **Selection**: an exact objective (profit first, then the number of mirrors)
  computed greedily, with floating-point comparisons that must agree with a
  pairwise rule exposed elsewhere, saturating sums, and a fixpoint when it is
  run again over its own result.
* **Eviction seam**: two selections with different inputs that must agree.
* **Algorithm set**: sources that lapse and restart independently.
* **Admission**: three budgets and a table that must stay equal to the work
  under way under every interleaving, and under callers that break the pairing.
* **Acquisition and holdings**: decisions on snapshots, deltas applied late or
  out of order, crashes between an eviction and its retraction.
* **Reward ledger**: replays and stale reconciliations, never over-counting.
* **Conduct**: a penalty that must be a function of elapsed ticks alone.
* **Relevance**: signals that others drive must nudge a score and never decide
  it, and sweeps over scores that fade must not take turns.
* **Routing**: a bounded log whose evictions make peers look new again, asks that
  end after their peer has left, and a last slot that has to reach everybody.
* **Discovery**: a recursion through many nodes, with cycles, lost answers and
  peers that flood, bounded only by what each hop checks.

`PROJECT.json` lists the hazards one by one, each at the line where it bites.

## 2. The modules

| module | models | state and actions |
|---|---|---|
| `Tier` | `tier.rs` | operators |
| `Relevance` | `should_displace`, `may_displace`, `DisplacementMargin`, f64 addition | operators |
| `Scoring` | `relevance` and its terms, `in_keyspace_neighbourhood`, and the host that feeds and uses them (uses `Relevance`) | two stores' signals, the one place, `swaps`; `Report`, `Read`, `Pin`, `Unpin`, `Tick`, `Displace` (the host's) |
| `Algorithm` | `AlgorithmSet::facts`, `facts_or_default` | operators |
| `ClaimLedger` | the sources behind an `AlgorithmSet` (extended by `Eviction`) | `claims`; `Claim`, `Lapse`, `LoseLedger` (the host's) |
| `Selection` | `select_within_capacity` | the loop's variables; `RetainPin`, `OfferTiers`, `Retain`, `Reject`, `NextTier`, `Return` |
| `Sums` | what a sum over a set is: the number of units it adds up | operators |
| `MirrorObjective` | the objective of selection, without an algorithm | `held`; `Decide` |
| `SelectionRounds` | repeated calls (extends `Selection`) | + `last`, `passes`, `drifted`; `SamePool`, `Drift`, `Stop` |
| `Eviction` | `TieredPolicy` between caller and cache (extends `Selection`, `ClaimLedger`) | + the cache's entries; `CallerDecides`, `Revise`, `select_evictions`, `NothingToFree`, `Admit` |
| `Admission` | `AdmissionMeter` | the meter's counts, the ghost `work`, the kind of caller; `admit`, `release`, and the callers' faults `Leak`, `ReleaseAgain` |
| `LeakyBucket` | what a conduct record promises, without records or stamps | `drops`, `penalty`; `Leak`, `Pour` |
| `Conduct` | `observe`, `decay`, `dial_share` | the tick counter and three copies of one peer's record; `Tick`, `Fault`, `NonPerformance`, `HonestAnswer` |
| `Acquisition`, `Holdings` | the two files | operators |
| `Flywheel` | the host between acquisition, the cache and holdings (uses both) | cache, lookups, pulls, queue of deltas, advertisement; `LookUp`, `Decide`, `PullLands`, `PullFails`, `Sweep`, `Apply`, `Reconcile`, `ReadView`, `ReconcileView`, and the faults `Forget`, `Crash` |
| `Reward` | `RewardLedger` and its host | chain, ledger, reports; `Happens`, `Observe`, `Retry`, `Phantom`, `Reconcile`, `ReadChain`, `ReconcileView`, `Crash` |
| `Routing` | `AskObservations`, `quality`, `rank`, `select_fan_out`, and the host that asks | the pool, the log, the asks under way; `Ask`, `Complete` (with `record`), `Retain`, `Tick`, `Connect`, `Disconnect` |
| `Discovery` | `decide_forward` and `merge_answers` at every node a miss reaches | the network, and what became of every ask; `Refuse`, `Forward`, `Hear`, `Reply`, `Deadline`, and the faults `Flood`, `Lose` |
| `AdmissionProofs`, `SelectionProofs`, `ConductProofs`, `FlywheelProofs`, `RewardProofs`, `RoutingProofs`, `DiscoveryProofs`, `ScoringProofs` | | theorems |
| `MC...` | | values of the constants for TLC |

### Selection

One behaviour of `Selection` is one call: `Init` is the call with any slice,
capacity, margin and seed of the instance; each step is one iteration of a loop
of the code; `phase = "done"` is its return. The call is sequential, so the
steps matter only in that the invariants speak of every point of the loop and
`SelectionRounds` and `Eviction` reuse them for several calls in a row.

A candidate is its position in the slice. Its shuffle value is
`mix64(seed ^ mix64(position))`; `mix64` is a bijection of u64, so two positions
never collide and a seed is an injective function on positions. The slices of an
instance hold the candidates in every order, so the identity shuffle already
reaches every outcome; `SelectionRounds` varies the shuffle as well.

Scores are f64. The properties depend on three things of an f64 and the model
keeps those: the order, the rounding of `score + margin`, and NaN. A finite
score is a natural number with a two-bit significand, rounded half to even,
instead of one with 53 bits; a NaN is ordered above every number by `total_cmp`
and compares false by `>`. Negative zero, negative scores and subnormals are
left out; the code discusses the first and shows that it changes nothing.

`MirrorObjective` states what selection promises with no algorithm in it: among
all feasible ways to fill the allowance, one that no other beats, comparing the
mirror counts tier by tier from the top. `ObjectiveSpec` checks that the loop
implements it: every step before the return stutters, and the return decides a
best way.

Bytes are summed over sets of candidates. `Sums` defines such a sum as the
cardinality of the set of its units, so that a proof can use what the library
knows of cardinalities and needs no induction over the set; `MCSelection` checks
it against the community modules' fold, as an assumption TLC evaluates.

### Eviction

The cache (`dig-store-cache`) and the host are external and modelled as
`eviction.rs` documents them. A host that wants hysteresis selects over its
entries and the incoming capsule; if that pass retains the capsule it goes to
the cache, which asks the policy for victims when there are bytes to free. The
policy does not see the capsule's facts, only its size. A run starts from any
small cache and any incoming capsule, a cache over its limit included.

Tier and score of an entry are not given but asked of the sources, at each pass
anew, as `TieredPolicy::candidate` asks its `AlgorithmSet`. `Revise` lets a
source claim, revise, stop naming a store or restart with an empty ledger between
the two passes: then the victims need not be those the caller saw displaced, but
the room made and the pins spared must be right all the same. `SeamAgrees` and
`AskingNeverDemotesProfit` speak of passes between which nothing was revised.

Nothing in `eviction.rs` says under which seed and margin the host's own pass runs,
nor in which order it lists the entries and the capsule. The two passes have
their terms each: the policy's are `policy`, the host's are `asking`, with a seed and a
margin of its own and any order of `Listings`. A position in the slice decides
nothing but ties (`selection.rs:414-416`), so the model names a candidate by its
entry and makes the order part of the shuffle (`Listed`). `SeamAgrees` says what
the host can count on without agreeing on any of it: the policy evicts as many of
every tier and size as the host's pass displaced, and others only where the margin
of one pass makes scores equal, so that the shuffle decides (`Tied`). The very
same entries go if the terms are the same: the policy's seed and margin, entries in the
cache's order and the capsule last.

### Admission

`work` is the ghost of what the meter accounts for: one ticket per successful
`admit` until its `release`. A refused request changes nothing and is no step;
`Verdict` is the code's chain of checks in order. `caller` is chosen at the
start: one that "pairs" every admit with a release as the docs demand, one whose
error paths skip releases, one that also releases twice, possibly as the wrong
kind. u32 overflow of the counts is out of reach: they are below
`global_ceiling`.

### Conduct

What the code promises compares histories: a peer that answers honestly is
where it would be had it not been asked; silence pays less than answering. So
three copies of the peer's record see the same observations and part only at an
honest answer. The tick counter is the host's and monotone. A record is decayed
by `observe` only; the properties speak of `decay(record, now)`, because a host
has to decay a record before it asks for its `dial_share`. The share is counted
in parts of ten ceilings, so that the floor of a tenth is an integer.

`LeakyBucket` states the penalty without records: ticks leak, a failure pours a
unit under the ceiling, nothing else matters. `BucketSpec` checks that `decay`'s
arithmetic on stamps implements it.

### Flywheel

`acquisition.rs` and `holdings.rs` decide on snapshots and compute deltas; what
can go wrong is the host's order of things, so `Flywheel` is the host. A read
looks the cache up in one step and decides in another; a pull lands or fails
later; a landing evicts any set of capsules that makes it fit; deltas wait in a
queue until they are applied; a crash loses everything in memory, while other
nodes keep what they were told. A `careful` host applies deltas in order and
queues the repair of a reconciliation at once; any other may forget a delta,
apply a late one first, and reconcile from a view gone stale. `drift` is TRUE
while a delta may be missing: from a crash to the next reconciliation, and for
a host that is not careful for ever. `quiet` marks the time after which no
reads, sweeps or faults happen, so that "in the end" can be said.

`after_admission` of a capsule already held, and of evicted sets that hold the
admitted capsule, do not occur: the cache never evicts what it admits, and a
second pull of a held capsule announces it again, which `FollowsCache` allows.

### Reward

The chain grows by claims with distinct events. A `careful` host records an
event after it saw it on the chain, or retries a submission it recorded before
and may then report another amount; it reconciles with the chain as it is. Any
other also records phantoms and reconciles with a view gone stale. There are no
reorganisations of the chain: an event, once there, stays. Retries of phantoms
stop when it is quiet, or income could not settle. A crash loses the reports with
the ledger: a host that retries a submission from before its crash, and misreports
it, is not a `careful` one. `from_chain_claims` is written
in closed form, the first claim of each event, which proofs can use; `MCReward`
checks it against the code's loop, as an assumption TLC evaluates. What a store
was paid is a sum as in `Sums`.

### Scoring

The score's terms are integers, parts of `Whole`, chosen so that every term of
an instance is exact; what rounds in the code and matters is the XOR distance,
of which an f64 keeps 53 of 128 bits and the model two of four, and the margin
comparison, which `Relevance` has. Signals change in any order: reports of
providers jump between the ends and past the clamps, reads come in batches that
pass the saturation, a pin comes and goes, time passes. The host's sweep offers
the one place to the other store; `Wanted` is when a host has a reason to, with
the neighbourhood as its gate for what only peers ask for. `swaps` counts
displacements since anything but time changed. Margins are those the constructor
of `DisplacementMargin` lets exist, at least a hundredth of a whole score.

### Routing

The host's pool changes (`Visitors` come and go), a slate is asked, each ask
ends with an outcome and a latency, possibly after its peer has left or `retain`
has run, and is recorded. A row keeps its age in half-lives instead of its stamp;
after `Faded` of them a score is what an unobserved peer has, which in the code
is when `0.5 + weight * d` rounds to 0.5. Of several oldest rows the model drops
any, because ages are coarser than ticks. `quality` is an exact fraction: the
weights are twentieths and the comparison is cross-multiplied, so equal scores
are ties as they are for equal f64 values. Tiebreaks are distinct: `mix64` is a
bijection and routing keys are hashes of identities.

### Discovery

A miss is one behaviour. An ask is named by its path, the nodes it has come
through; each node on it runs `decide_forward` with the budget the ask carries
and, when it answers, `merge_answers`. Which peers are asked is any full slate of
the eligible ones: that `select_fan_out` returns one is `Routing`'s
`SlateKeepsASlot`. The relay budget is the number of asks a node has forwarded
and not yet answered against a ceiling, as `Admission` counts it. A word of the
switch stands for all spellings `trim` and `to_ascii_lowercase` make equal, a
budget that cannot be read is `{}`. In a network that is not `lossless` an ask or
an answer may be lost and a node may answer at its deadline before its peers
have; `flooders` answer with a full slate of made-up holders.

## 3. The runs

The type invariant of each module (`TypeOK`) is not in the runs: `TypeCorrect` of
its proof module proves it for every instance. So are a few properties that are
stated there only, because they follow from the code's clamps or checks one step
at a time (`EveryCandidateOnce`, `OwnWorkReserved`, `ReconcileSettles`,
`ALieNudges`). Where several facts make one promise the run checks their
conjunction: `ClaimsCompose`, `FaultsAreContained`, `SharesFade`,
`ReachIsLimited`, `DisplacementIsEarned`.

| run | what it shows | bounds |
|---|---|---|
| `selection` | `SmallestFirst`, `EvictionOrder`, `AgreesWithMayDisplace`, `NoTierInversion`, `WithinCapacity`, and that a call implements `MirrorObjective`; repeated passes settle, and a drift swaps only past the margin | 3 candidates; over 3 tiers with pins and sizes 0/2/3 where u64::MAX is 5, so that pins overflow it; over one tier with scores 0, 3, 6, 8 and NaN, where 6 + 1 and 6 + 2 round; a raised margin and one above the floor; for the slices of `Drifting` up to 3 further passes with two opposite shuffles |
| `eviction` | the seam's two passes agree up to ties, whatever terms the host's runs under; room is made exactly even when the sources change their minds in between, a challenger that asked displaces no higher tier; composition of claims under lapse, promotion and lost ledgers | 3 entries and the capsule, sizes 1 and 2, limit 4; scores 1, 4 and NaN, margins at the floor and 4 (with which 1 and 4 round to one sum), the host's own in its pass; it lists in the cache's order or backwards; 2 sources; `Revisable` = 4: three revisions with the capsule alone, two beside one entry, one beside two, none with a full pool |
| `eviction_ladder` | finding: a Tier1 entry goes while a Tier0 entry stays | 2 entries and the capsule |
| `admission` | the three budgets and the table are exact and earned; shed load comes back; a leak is never made good; counts stay bounded whatever the caller does | 3 peers, room for 2, ceilings 2 to 3, the three kinds of caller |
| `conduct` | the penalty is a leaky bucket, a function of time alone; only proof excludes; silence gains less than a unit | ceiling 3, period 3, 24 ticks, u32::MAX = 4 |
| `conduct_silence` | finding: silence can pay | same |
| `flywheel` | one pull per capsule, the queue says what is held, drift is repaired | two generations of one store, room for one, 1 reader, 2 deltas waiting, both kinds of host |
| `reward` | never over-counts, holds only what the chain corroborates, income is recovered | 2 events with 2 reports each, sums that saturate, listings of 3, both kinds of host |
| `routing` | every slate keeps a slot for the unobserved, scores are shares that lose half of what sets them apart with every half-life and all of it in the end, answering promptly pays, everyone in a settled pool is heard | 3 peers of which one comes and goes, fan-out 2, capacities 1 (asked for as 0), 2 and 3, counts saturating at 2 and latency totals at 12, `Faded` = 2 |
| `discovery` | reach is bounded by the budget, switches cut, relays stay under the ceiling, what is near is heard of, hearsay is marked and bounded, the client is answered | 4 nodes: a triangle with a node behind it, a square, everyone knowing everyone; fan-out 2, budgets 0 to 3 and unreadable, ceilings 0 to 2, words that enable, disable and neither, a flooder, with and without loss |
| `discovery_radius` | finding: more nodes are recruited than documented | a tree of 7 nodes, fan-out and hop_cap 2 |
| `scoring` | near and pinned stores keep their place, far ones are not held for the asking, sweeps settle | 2 stores at 5 pairs of distances, counts 0, 16 and 100000, reads 0, 12 and 24 (saturation is 16), ages 0 to 3, margins of 0.01 and 0.125 |

Why the bounds are enough: within a tier selection compares two candidates at a
time, so two contenders plus one that changes the space left reach every
outcome of the comparator; a third tier matters only for the ladder, and a
third pass only for telling a settled pass from a first one. In `eviction` a
revision matters by which entries it moves in the ladder, and one beside two
entries already parts the two passes. In `admission`
every ceiling is reached alone and with others. In `conduct` the clock runs
through twice the ticks it takes the largest penalty to go, with every phase of
the stamp. In `flywheel` one reader is enough, since a pull outlives the read
that started it and the reader may come again while it runs. In `reward` a
listing of three may repeat a claim of a full chain. In `routing` two good
incumbents fill the slate and a third peer has to get in; a capacity of one is
below every pool's size; one of two makes the ceiling evict while the visitor is
there, and holds the pool the visitor has left, so that a member that was
forgotten has to be heard again; one of three never evicts. Counts saturate after
two asks. With `Faded` = 2 a score is fresh, faded by half, or gone; the theorems
hold for every `Faded`. In `discovery` the triangle is the smallest network in which a question
comes back to its origin, a budget of three lets it do so, and the ceiling of
one makes two paths to a node compete. In `scoring` the pairs of distances are
equal, adjacent, opposite, and on either side of the border of the neighbourhood
with and without rounding; two stores are enough, as a sweep compares two.

Deadlock is checked except where the system stops by itself: a call that has
returned, a capsule admitted or refused, a meter whose allowance has all been
leaked, a miss that has been answered.

Fairness, used where something must happen in the end:

* `Admission!FairSpec`: each ticket's `release`, because work ends and the
  contract (`admission.rs:111-113`) is that its release is called when it does;
* `Flywheel!FairSpec`: a read that looked up decides, a pull ends one way or the
  other, deltas are applied, and the host reconciles from time to time, which
  `holdings.rs:61-66` expects of it;
* `Reward!FairSpec`: the host reconciles from time to time (`reward.rs:124-128`);
* `Routing!FairSpec`: a node with nothing under way asks again, every ask ends
  with an answer or the caller's deadline (`routing.rs:79-80`), and the host calls
  `retain` some time after the pool changed (`routing.rs:211-212`). Nothing is
  assumed of the outcomes, nor that the pool settles: `EveryoneIsHeard` asks for
  that as its hypothesis, and for a pool that stays no larger than the log: in a
  larger one, members are forgotten again, as the code says it must be. Under both
  it promises that in the end every member has been observed, for good;
* `Discovery!FairSpec`: hosts go on working and deadlines pass. No message is
  obliged to arrive, and none to be lost.

### Findings

* `LowerTiersGoFirst`: `eviction.rs:13-14` promises all of Tier0 before any
  Tier1. Selection passes over a candidate that does not fit and offers the
  space to lower tiers, so a large Tier1 entry can go while a small Tier0 entry
  stays. `NoTierInversion` is what holds instead: the Tier1 entry could not
  have been kept by giving up lower tiers.
* `SilenceNeverPays`: `conduct.rs:137-138` says that an honest answer ranks above
  silence. At the ceiling a failure adds nothing while the stamp keeps the phase
  of an older failure, so a peer that was silent first can decay first and get
  the larger share. `SilenceGainsUnderOneUnit` is what holds instead: the gain is
  less than one unit's ticks.
* `RadiusAsDocumented`: `discovery.rs:86` gives the number of nodes one request
  can recruit in the worst case as `fan_out ^ hop_cap`, and `discovery.rs:42` calls
  it the disclosure radius. The nodes on the way are recruited too: in a tree with
  both set to 2, six nodes and not four. With the defaults, 3 and 2, it is 12 and
  not 9. `ReachIsGeometric` is what holds instead, and for the budget the request
  came with: `decide_forward` never compares it with the node's own `hop_cap`.

Divergences of code and comments seen while modelling, each without a run of its
own because a property of the project states what holds instead:

* `selection.rs:152` calls `may_displace` the same rule selection applies. For a
  NaN challenger selection displaces (`total_cmp`) and `may_displace` refuses
  (`>`), so `AgreesWithMayDisplace` leaves NaN scores out.
* `eviction.rs:66-68` and `eviction.rs:85-87` say that the margin is inert in the
  policy's pass. A uniform margin keeps the order of scores, but `score + margin` is
  rounded: two scores that differ may become equal, and then the shuffle decides. So
  the margin can change which of two entries of one tier and size goes
  (`SeamAgrees`), never how many of a tier and size do.
* `tier.rs:57-58` says that a lost ledger fails safe. It does for a store nobody
  else claims; one that another source claims as speculative falls to Tier0
  (`ClaimsCompose` says what a store falls to).
* `reward.rs:25` says that every ambiguous case resolves downward. Of two reports
  of one event `record` keeps the first, the larger one included, until a
  reconciliation (`ReconcileSettles`).
* `routing.rs:76-77` says that answering is never worse than not answering. An
  answer slower than the peer's mean so far can cost more in speed than it earns
  in answer rate, and at the saturated count an answer earns nothing:
  `PromptAnswersBeatSilence` names both conditions.
* `routing.rs:26-32` says that stale blame expires. A score fades, but the reserved
  slot goes only to peers never observed, so a faded peer is asked again only when
  its rank or an eviction brings it back. `SharesFade` is what fading does.
* `routing.rs:46-47` says that observations are keyed by peers in the pool. An ask
  that ends after `retain` is recorded for a peer that has left, until the next
  `retain`; the ceiling holds throughout (`TypeCorrect`).
* `routing.rs:265-267` says that equal tiebreaks fall through to the key, so that
  the result never depends on the slice's order; equal tiebreaks come with equal
  keys, and then it does. The model assumes distinct keys.
* `discovery.rs:112` says that a requestor is never asked its own question back. A
  node excludes the one who asked it; in a cycle of three the question comes back
  to where it started, and only the budget ends it (`ReachIsGeometric`).
* `relevance.rs:169-173` says that exactly the half of the keyspace is admitted, and
  `relevance.rs:138-142` that proximity is strictly decreasing in 128 bits. With 53
  bits distances just past the middle round to it and are admitted, and near ones
  tie; `DisplacementIsEarned` bounds that blur and leaves out what lies inside it.

## 4. What is proved

For every value of the constants, from the assumptions named in the modules.

`AdmissionProofs`. `IInv` is layered by what a caller can break. `MeterInv`, the
counts within their limits and the table's domain, survives any call, because
`admit` checks every limit and a release only lowers. `Covered`, each count at
least the cardinality of its part of `work`, survives skipped releases.
`Accounts`, equality, survives only the pairing. All are needed together: the
limits on the real work (`WorkWithinLimits`) follow from those on the counts
through `Covered`, and `RefusalsEarned` speaks of `work` while the verdict is the
counts'. From it: `TypeCorrect`, `AccountsExact`, `LimitsHold`,
`OwnWorkIsReserved`, `RefusalsAreEarned`, `LeaksStay` and `FaultsStayBounded`,
the two together `FaultsContained`.

`SelectionProofs`, one call. The invariant `IInv` adds to the properties what the
loop keeps true between them: pins are decided before any tier (`PinsFirst`),
what is left belongs to tiers not yet offered (`TurnOrder`), everything decided in
the tier being offered is ahead of what is left of it (`Walked`), what was
rejected did not fit and the space has only shrunk since (`Full`), and rejects are
noted in walking order (`NotedInOrder`). `SmallestFirst` needs all of them: a
reject does not stop the walk, so that nothing later is retained follows from
sizes growing along the walk. `MarginHolds` rests on `SmallestFirst` and on the
comparator being a strict total order on scores that are numbers; like
`DriftIsMarginal` it says nothing of NaN, for which the code's two rules differ
(section 3).

On top of it `Accounted` relates `used` to the bytes retained: it is their sum,
saturated (`Counted`), a reject does not fit with what goes before it
(`NoTierInversion`), and what is retained fits with all that goes before it
(`Earned`). `ProfitFirst` and `CapacityHolds` follow.

What the two invariants say of a finished call is `Outcome`, a condition on the
retained set in which the walk no longer occurs. `OutcomeUnique` shows tier by
tier, from the top, that a slice and a shuffle have one outcome at most: what one
retains and the other turns away would both fit and not fit. It is used thrice.
`PassesDoSettle`: what a pass retained is an outcome of the next slice, in which
it is resident and so further ahead. `ImplementsObjective`: no way to fill the
capacity beats an outcome, because as many mirrors of a tier weigh no less than
the outcome's and one more weighs more than there is room for (`Exchange`,
`TierWeight`, `FilledIsBest`); every earlier step stutters. That argument needs only a
part of `Outcome`, which says nothing of how ties break: `Filled`, that what is
turned away would not fit with what goes before it by tier and size. `TwoPassesAgree`: see
below. `DriftIsMarginal` needs the residents of a pass to be what the one before
retained, and `MarginDecides`.

`SelectionProofs`, a full cache. `EvictInv` says which slice each pass is over, so
that everything proved of a call holds of both. `SeamInv` says what the second
owes the first: as long as the sources have not changed their minds, what the
caller's pass retained besides the capsule is a filling of the policy's space, the
one the capsule leaves (`SeamCarries`). What is of the capsule's tier or
below has the capsule among what goes before it, so that taking its size from both
sides changes nothing; what is above has not, but the capsule fits with all of it
(`Earned`). Two fillings of one space mirror as many of every tier, since neither
beats the other (`FilledAlike`), and within a tier they take as many of every size
(`OneValueApart`: they differ at one size only). Each is in the order of its own
margin, and a margin never turns two scores round (`AddMonotone`), so they part only
where one margin ties the scores (`PassesPart`). Under the same terms the caller's is
an outcome of the policy's slice, and `OutcomeUnique` makes the victims those the
caller saw. From it: `TwoPassesAgree`, `CapsuleHasRoom`, and `ProfitIsNotTraded`, as
for every victim there is one of its tier that the caller's pass displaced
(`VictimsAreNotAbove`); `NoVictimInVain` needs no
agreement. `ClaimsDoCompose` is an action property over the claims alone, from
every nonempty set of tiers having a top and every set of scores a greatest.

Where a theorem says "below u64::MAX" its hypothesis is that no capacity is
u64::MAX itself. At that capacity a saturated sum never exceeds it, so the code
turns nothing away and the capacity holds in no sense that could be stated over
bytes; `ProfitFirst`, `PassesDoSettle`, `NoVictimInVain` and the others hold there too.

`ConductProofs`. Records are compared through one number, the ticks a penalty
still takes to go, the height of the bucket. The lemmas say how each step moves
it: `decay` leaves the height alone and rounds the penalty to the units begun
(`Decays`), a failure adds a period's worth unless the ceiling is reached
(`Pours`), a tick takes one (`Drips`). The invariant holds every record sound
(under the ceiling, its stamp not ahead of the clock), the heights of "answers"
and "unasked" equal, that of "answers" less than a period above that of "silent",
and proven faults exactly where a lie was observed. `BothFail` is the step where
the silent lead could widen: if one bucket is full and the other is not, the other
still fits under the ceiling. `ImplementsBucket`, `RecoveryIsTimeAlone`,
`OnlyProofExcludes` and `SilenceIsBounded` follow.

`FlywheelProofs`. `FollowsCache` is not inductive: the reconciliation that ends a
drift mentions no capsule whose advertisement already agrees, so what the queue
says of such a capsule must have been right during the drift too. The invariant
splits it: the last word on a capsule in the queue is right whenever the host is
careful (`LastWords`), a capsule without one agrees unless something drifted
(`Agreement`), and a delta never announces and retracts the same capsule.
`BurstsCollapse` and `GenerationsIndependent` rest on `Counted`: a pull runs
exactly for the capsules of the in-flight set.

`RewardProofs`. The invariant of a careful host is that the ledger is part of the
chain and that the events of its reports are in the ledger (`RetriesKnown`),
which is why a retry that misreports is turned away as a replay. A subset of a
finite chain sums to no more, and saturation keeps that order
(`StoresAreNotOverpaid`, with `ChainStaysFinite`). That a
reconciliation leaves exactly its view (`ReconciliationSettles`) needs that every
listed event has a first claim, an induction made with the least element of a
set of positions.

`RoutingProofs`. The invariant adds to the types that every row in the log is
`Ordered`: no more conclusive answers than answers, no more answers than asks,
and at least one ask. It survives saturation because the larger count saturates
no later than the smaller. `SharesHold` needs it, as both rates are then at most
one; `TimeTakesBack` rests on `HalfLife`, that one more half-life divides a score's distance from unknown by two
or takes what is left; `AnsweringPays` compares the two histories term by term, and is where the
two conditions on latency and saturation come from. `SharesFadeAway` joins the
first two. `SlateIsFair` is about `select_fan_out` for every pool: the n best are
those with fewer than n ahead of them, `Outranks` is a strict total order on a
finite pool, so they are n or all, and the explorer takes the place of the
hindmost of them only.

`DiscoveryProofs`. An ask's budget is what the request came with less the length
of its path (`BudgetIsSpent`), and it stays unreadable if it was. With it, no path
is longer than the budget allows (`PathsBounded`). `ChainIsCut` holds for a new
path because it held for its parent and the parent's last node forwarded. That
relays stay under the ceiling (`RelaysBounded`) needs that the asks a node relays
are a finite set, since a forward adds one to a count that was below the ceiling.
`ReachLimited` joins the three.

Beyond the limits, the asks form a tree (`TreeInv`: `Rooted`, `Branching`), in which
a path may come back to a node but never to itself. `MissReachesThisFar` counts it
without adding anything up: number the children of each ask from 1 to at most
fan_out, and the numbers along a path spell a word no longer than the budget;
different paths spell different words, as the first place in which they part
shows. `AnswersAreSourced` needs that all a node has heard has a source below
it (`HeardHasSource`), which later steps keep because asks are never taken back.
`NearIsHeard` carries a holder up from the node that knows it, in a network without
loss: an answered ask has everything below it over (`FinishedIn`), what was taken in
from below was heard (`HeardIn`), an answer holds what its node heard and knows or
is full (`SaidIn`), a flooder fills whoever hears it (`FloodsIn`), and an ask that
went no further had a reason that still stands (`DecidedIn`). That a way through
willing nodes was really asked along is seen at its first node that was not.

`ScoringProofs`. Who may take a place from whom needs no invariant beyond the
types: it follows from bounds on the terms that hold for every count
(`ScarcityBounds`, `DemandBounds` and so on), which is the clamps' work, and from
what `Displace` compares. `DisplacementEarned` joins `NearKeeps`, `PinKeeps` and
`FarStaysOut`.

That sweeps settle (`SweepsDoSettle`) speaks of a run of steps and does need one.
`Settling` says by what kind of lead the slot's store took its place: a lasting one,
of a store never read or read no later than the other, or once a fading one, of a
store read more recently. The first does not pass away: it is remembered with the
ages at which it was beyond the margin, and two ages that grow together only lose
their difference in freshness (`FreshnessEvens`). The division is a floor, so the
difference may come back by one part, and this is where the margin counts: what
one part weighs is far below the least margin. The second kind can be undone, and
then by a lead of the first kind. So there is a second swap at most. `Stores` is
assumed finite, as the property counts them.

Only model-checked is liveness (`LoadIsShedForAWhile`, `RepairsDrift`,
`IncomeIsRecovered`, `EveryoneIsHeard`, `ClientIsAnswered`), which is out of the
prover's reach: every other property of a passing run is stated by a theorem.
Assumed and only evaluated by TLC on its instances are the two equations
`SumsAddUp` and `LoopKeepsFirst`, which tie a closed form to a loop or a fold; to
prove them is an induction over data. No theorem uses either.

## 5. What is not modelled

`evict_key` and `CacheEntry` (`tier.rs`), which nothing in the crate calls and
which `tier.rs` itself says is not the order evicted in; the order of `retained`
and of a fan-out slate, which are sets here; the clock of a host that restarts
(`conduct.rs` and `routing.rs` take ticks that never go back here); accessors,
`is_verifiable`, `Default` impls and `lib.rs`. The low 128 bits of an id, which
the score does not read, and f64 rounding inside a sum of score terms, which
moves a score by less than any margin.

## 6. Plan

Done: every component with behaviour, and a theorem for every safety and action
property that a run checks. Left, if the project goes on:

1. What liveness rests on, as far as it is safety: that a step of each helpful
   action brings its goal nearer (`Admission`: a release lowers what is in flight;
   `Discovery`: a deadline ends an ask and puts none back on its way), as action
   properties with theorems beside the checked temporal ones.
2. `Discovery` over `Routing`'s slate: `SlateIsFair` says that `select_fan_out`
   returns a full slate, which `Forward` assumes; state it as a refinement of the
   choice in `Slates`.
3. `Routing` under a capacity below the pool's size: which members are heard
   infinitely often, and under which outcomes.
4. The half of `SweepsSettle` that two stores do not show: with three stores and one
   place, how many swaps a fading lead can cause.
