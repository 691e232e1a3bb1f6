# ad-scheduler: TLA+ models and proofs

ad-scheduler is a Kubernetes scheduler profile with hierarchical queues. Its plugins
run inside kube-scheduler and share one in-memory engine per profile, which keeps the
quota of every queue. This directory holds TLA+ models of that engine, of the code that
drives it and of the reconcilers around it, TLC configurations that check them, and
TLAPS proofs of the main safety results.

1. [The system](#1-the-system)
2. [Modules](#2-modules)
3. [State and actions against the code](#3-state-and-actions-against-the-code)
4. [Runs](#4-runs)
5. [Fairness](#5-fairness)
6. [Proofs](#6-proofs)
7. [Where code and comments disagree](#7-where-code-and-comments-disagree)
8. [What is not modelled](#8-what-is-not-modelled)

## 1. The system

| part | state | operations | who calls them |
|---|---|---|---|
| queue tree (`pkg/queue`) | per queue: `max`, `guaranteed`, counters `allocated`, `allocating`; the gangs it holds | roll-ups along the path to the root, fit predicates, placement, fences | the engine, under its own lock |
| engine (`pkg/framework/engine.go`) | booking ledger by pod UID, gang ledger, head-of-line bids, current tree | `Reserve`, `Unreserve`, `Commit`, `ObserveBound`, `ObserveDeleted`, `AdmitGang`, `AdmitGangWW`, `ReleaseGang`, the two sweeps, `Rebuild` | everybody below |
| capacity plugin (`pkg/plugins/capacity`) | the leaf and footprint in the cycle state of a pod | `PreFilter`, `Filter`, `PostFilter`, `Reserve`, `PreBind`, `PostBind`, `Unreserve`, `Score` | one scheduling goroutine; one binding goroutine per pod |
| gang plugin (`pkg/plugins/gang`) | none of its own | `PreEnqueue` (admission), `Permit` (barrier) | the scheduler's queue; the scheduling goroutine |
| queue sort (`pkg/plugins/queuesort`, `pkg/queue/sort.go`) | none | the order of waiting pods | the scheduler's queue |
| coordinator (`coordinator.go`, `nodelife.go`) | tracked pods, PodGroup registry, node cache | informer handlers, rebuild loop with re-seeding, ledger collector | informer goroutines, two loops |
| gang lifecycle (`gangstatus.go`) | PodGroup status in the API server, admission clocks | recovery, status sync, timeouts, phases | the rebuild loop; the reclaim loop |
| reclaim (`reclaim.go`, `queue/preemption.go`) | none; evictions in the API server | victim selection per tick | the reclaim loop |
| tree assembly (`controller/queue`, `admission`) | none | `ValidateQueue`, `BuildSpec`, policies | the rebuild loop, the API server |
| queue status (`queuestatus.go`) | Queue CR status and finalizer | one visit per CR and tick | the reclaim loop |
| provisioning (`provreq.go`) | PodTemplates, ProvisioningRequests, pod annotations | one tick of API calls | the reclaim loop |
| node cache (`pkg/cache`) | per node capacity and usage | handlers, room on a node | informer handlers; `PreBind` in a shared pool |

What makes it hard:

* The headroom check (`PreFilter`) and the booking (`Reserve`) are two locked sections.
  Gang admission takes room between them. `PreBind` looks again.
* A bind is confirmed twice, by `PostBind` and by the informer, in either order; it may
  be rolled back, and the pod may be deleted in between.
* The coordinator keeps its tracked map, the tree and the ledger under different locks,
  and its handlers, the rebuild and the collector take them one after another.
* A rebuild replaces the tree and charges it again from the ledgers, while bookings come
  and go and leaves move, vanish or become parents.
* After a restart everything but the API server's state is gone. Reservations of gangs are
  read back from PodGroup statuses that lag.
* Gangs wait for one another; a bid on a leaf decides who goes first, and expires.
* The reconcilers read informer stores that are behind, and write objects whose updates
  come back to them later.
* Two loops evict, each against usage that still contains the victims of the last round.

## 2. Modules

| module | models | extends |
|---|---|---|
| `Totals` | `Total`, the sum of a function | |
| `QueueTree` | the tree as data: shape, validity, placement, fit predicates | `Totals` |
| `Engine` | the ledgers, counters, gang holds and bids; one action per method | `QueueTree` |
| `CapacityCycle` | pods in the scheduling and binding cycle, with application caps and per-account limits, beside gang admission and the informer, on one tree | `Engine` |
| `AtomicAdmission` | what the cycle promises: admission in one indivisible step | `QueueTree` |
| `CapacityRefinement` | the mapping under which the cycle implements it | `CapacityCycle` |
| `PodLifecycle` | the coordinator's handlers, rebuild, re-seeding, collector, and faults | `CapacityCycle` |
| `GangAdmission` | `PreEnqueue` of waiting gangs, PodGroups that come and go, time | `Engine` |
| `GangLifecycle` | a gang's reservation between members, ledger, PodGroup status and informer: recovery, status sync, timeouts, phases, sweep, crashes | `PodGroups` |
| `PodGroups` | the gangs, their members and sizes, as the controllers of PodGroups share them | |
| `Reclaim` | the reclaim loop and `PostFilter`: donors, budgets, fences, `SelectVictims`, evictions | `QueueTree` |
| `QueueConfig` | Queue CRs and quotas to the tree: validation, assembly, rebuild trigger, status, drain finalizer | `QueueTree` |
| `Provisioning` | the publisher of autoscaler demand, call by call | `PodGroups` |
| `PodRequests` | `EffectiveRequest` and `PodDeviceRequests`, loop by loop | `Totals` |
| `Ordering` | the queue sort's comparator, dominant share, node score | |
| `TotalTheorems` | what `Total` computes; least and greatest elements | `Totals` |
| `EngineProofs` | theorems about the engine, and about gang admission on top of it | `GangAdmission`, `TotalTheorems` |
| `CapacityCycleProofs` | the hard cap and what a phase says of the booking | `CapacityCycle`, `EngineProofs` |
| `AdmissionProofs` | the bound on overshoots, the limits of accounts | `CapacityCycleProofs` |
| `CompositionProofs` | the refinement of `AtomicAdmission`; the pod's life | `PodLifecycle`, `CapacityRefinement`, `CapacityCycleProofs` |
| `ReclaimProofs` | theorems about the two loops that evict, and about the queue configuration | `Reclaim`, `QueueConfig` |
| `ReconcilerProofs` | theorems about provisioning and the gang's life | `Provisioning`, `GangLifecycle` |
| `AlgorithmProofs` | theorems about the pod's cost, the comparator and the score | `PodRequests`, `Ordering` |
| `MC...` | instances for TLC | |

`Engine` has two uses. On its own, its `Next` lets every method be called at any time with
any arguments: what holds there holds whatever the callers do. The composing modules use
its actions and restrict who calls what, and when.

## 3. State and actions against the code

`PROJECT.json` maps every definition to its lines. What a reader needs beyond that:

**QueueTree.** A queue is its path, as a sequence of segments. A tree is a record of its
paths, ceilings, floors, routed accounts and default leaves. A usage vector gives every
dimension a number; a limit vector has an entry only for the dimensions that are bounded,
because in the code an absent dimension of `max` means unlimited. `ValidBuild` and
`ValidatePlacement` are what `NewManager` accepts, and every instance is assumed, and by
TLC checked, to consist of trees it accepts.

**Engine.** `tree`, `book`, `gangBook` and `holBids` are the fields of `Engine`; `allocated`,
`allocating` and `held` are the fields of the current `QueueManager`. Every method locks
`e.mu` and is one action.

* `Applied` is what `QueueManager.mutate` does: an amount booked on a path that is not a
  leaf of the current tree is refused, and the callers in the engine ignore the error.
* `AdmitGangWW` has four outcomes, each an action: yield to a bid, be refused for good,
  enter, claim the bid. A stale bid is dropped first (`LiveBid`).
* `Rebuild(t, H)` charges tree `t` from the ledgers. The code admits the gangs one by one
  in the order of a Go map; `H` is the set that gets in. Each is admitted only if it fits
  on top of those before it, so `H` fits as a whole and no gang outside it still fits;
  every such `H` is allowed.
* A bid carries its age instead of a time stamp. `Tick` ages all bids, up to one more than
  the timeout, after which only "stale" matters.

**CapacityCycle.** `phase` is where a pod's attempt stands, `leafOf` what `PreFilter`
writes to the cycle state, `node` what the API server says and `seen` what the informer
handlers have processed. At most one pod is in phase `filtered`, because the scheduling
cycle is one goroutine. The binding steps of different pods interleave freely. `PreFilter`
counts applications and per-account usage in any of the `Stores` the pod informer may hold
at that moment, which may lag behind binds and deletions. The other plugins, the room on a
node of a shared pool, the API server's bind call and the pod's own end are
nondeterministic. The pods of `Late` do not exist at the start and are created at any time.
The pods are in no gang.

**PodLifecycle.** The handlers are split where the code lets go of a lock. `onPodUpsert`
writes the tracked map (`TrackPod`), reads the tree (`ResolvePod`) and books
(`ObservePod`); `onPodDelete` removes the entry (`UntrackPod`), then releases
(`ReleasePod`); `releaseNodePods` likewise. `rebuild` swaps the tree (`SwapTree`), copies
the tracked map (`ListTracked`) and observes each pod (`ReseedPod`). The collector lists
the live pods (`GCList`), then sweeps (`GCRun`). `podHandler`, `nodeHandler`, `rebuilder`
and `sweep` say where each is. `Faults` names what may go wrong: a bind whose reply is
lost, a watch gap that swallows the bind event, a deleted node, a crash. `orphans` and
`swept` are history: the pods of deleted nodes, and those whose booking went to a sweep
with a list older than the pod, until the next rebuild charges them again.

**GangAdmission.** `group` is the coordinator's registry of PodGroups. An attempt of a waiting
gang has two steps, because the code takes two locks: `PreEnqueue` reads the registry and the
ledger, `Admit` calls `AdmitGangWW` and does not look at the registry again. In between
(`admitting`) the PodGroup may be deleted. The collector likewise lists the PodGroups
(`GCListGroups`) and sweeps later (`GCGroupSweep`). A release makes all waiting gangs due (`ActivatePending`), in any
order; `TimePasses` ages the bids, and a waiting gang is retried at least every `RetryWithin`
ticks.

**GangLifecycle.** The PodGroup in the API server (`pg`), the versions an informer has still
to deliver (`events`), its `store`, the coordinator's `registry` and the engine's `ledger`
are five variables, each up to date at its own pace. The four parts of a reclaim tick
(`SyncStart`, `CheckStart`, `PhasesStart` and the visits between them) each read what the
code reads at the start and send one patch per step. A patch may fail (`patchFails`), the
informer may miss versions and relist (`watchGap`), a replica may lose everything in memory
(`crash`). Whether the leaf has room for a gang, at an admission or at a recovery, is a choice:
the room depends on the rest of the cluster, and what `AdmitGang` checks is the matter of
`Engine`. The module has a scheduler replica and a reconciler replica; the run takes one
replica for both.

**Reclaim.** Loops that walk a sorted list and keep or drop each element are given by the
set they keep: the one set in which each element is kept exactly if it passes the test
against those kept before it (`Budgeted`, `Taken`, `PDBSpared`). `IsSelection` is
`SelectVictims` with its trim. `Orders` are all orders `sort.Slice` may leave equal
priorities in. An evicted pod is `terminating`, and charged, until `Vanish`. An eviction may
be refused, each on its own. Ledgers follow the cluster at once here; how they lag is the
matter of `PodLifecycle`.

**QueueConfig.** The API server's CRs and quotas, the informers' stores, the keys whose
handlers have not run, the one token of `rebuildCh`, the debounce, and the build that lists
the CRs first and reads the quotas later, are separate steps. `Built` is the recursion
of `buildNamespace`, level by level; `TreeOf` is `NoTree` for any error of `BuildSpec` or
`NewManager`, and the last-good tree stays. A
visit of `reconcileQueue` decides (`Decide`) on a store and a tree, and `WriteQueue` writes
later, refused if the object has changed since. `Assembled` reads the `max` and the `guaranteed`
of a CR through `FromQuantityMap`, which drops zeros: a ceiling of zero is no ceiling. An envelope
keeps its zeros.

**Provisioning.** Each API call of the tick is a step that may fail; between two calls pods
and PodGroups change; a crash or a lost lease ends the tick anywhere. `steady` is history:
the gangs that wanted nodes all through this tick.

**PodRequests.** A step is one iteration of a loop: over the containers, the init containers,
the claims and the device requests of a claim. `acc` holds the local variables of
`EffectiveRequest`, `out` the vector of `PodDeviceRequests`, `at` and `sub` the loop indices.
`Refuse` is every error return. A claim that cannot be read is `missing`, whichever lookup
failed. `EffectiveIsPeak` compares the result with the largest demand over the pod's start-up
and life, `DevicesAreCovered` the device count with the most an allocator may hand out.

**Ordering.** The comparator, the dominant share and the node score are operators. `Less` has one
caller, the queue sort, and `toOrder` hands it entities without gang keys and without a share,
compared by submit time; the model enqueues just those. `blockID`, `repr` and the fair policy are
in `Less` as the code has them, for other callers. Scores are exact fractions; two nodes whose
utilisation differs by two hundredths or more have different scores. `Score` reads the node
through `fwkResource`, which drops capacities of zero, and filters the pod's request by what is
left, but not what already runs there (`score.go:24`), so `ScoreTellsNodesApart` is about nodes
that have a capacity in every dimension in use on them; a dimension a node has lost saturates its
share.

## 4. Runs

| run | expects | states | properties |
|---|---|---|---|
| `engine` | pass | 49,000 | `Conservation`, `UsageFollowsLedger`, `GangsNeverOverbook`, `TypeOK` |
| `cycle` | pass | 73,000 | `ClearedWithinMax`, `BoundedOvershoot`, `BookedAsScheduled`, `AccountsWithinLimit`, `CapacityComesBack`, `ImplementsAtomic`, `CycleTypeOK` |
| `lifecycle` | pass | 150,000 | `TrackedAreCharged`, `LeaksHeal`, `LifeTypeOK` |
| `gang_admission` | pass | 43,000 | `BidsOnlyRise`, `NoStarvation`, `LedgerHoldsRoom` |
| `gang_lifecycle` | pass | 212,000 | `RegistryFollows`, `StatusSettles`, `AbandonedIsReleased`, `GangTypeOK` |
| `reclaim` | pass | 5,900 | `RoundKeepsGuarantee`, `EvictedForAPeer`, `VictimsSuffice`, `BudgetsAreKept`, `EntitledGetsIn`, `ReclaimTypeOK` |
| `queue_config` | pass | 99,000 | `NoChangeLost`, `OwnersWordStands`, `ConfigConverges`, `DrainedQueuesGo`, `ConfigTypeOK` |
| `provisioning` | pass | 51,000 | `KeptWhileWanted`, `DemandSettles`, `ProvisioningTypeOK` |
| `algorithms` | pass | 128,000 | `EffectiveIsPeak`, `DevicesAreCovered`, `LessIsTotal`, `ScoreTellsNodesApart` |
| `vanished` | violation | – | `VanishedNeverDeadlocks` |
| `failed_gang` | violation | – | `FailedHoldsNothing` |
| `donor` | violation | – | `DonorKeepsGuarantee` |

The properties, in words:

* `Conservation`: every counter of every queue is exactly what the ledgers charge to it, and a
  gang the tree holds room for is bound to a leaf of that tree.
* `UsageFollowsLedger`: a call that adds and removes no booking and no gang hold, such as the
  confirmation of a bind, changes no queue's usage.
* `GangsNeverOverbook`: a call that leaves the pods' bookings as they are, such as the admission
  of a gang or a rebuild that takes in one an earlier rebuild had refused, raises no usage beyond
  a `max`, on the leaf or any queue above it. On one tree only bookings of pods, which `Reserve` and the
  informer make without a check of their own, put a queue over its `max`.
* `ClearedWithinMax`: on one tree, what runs or has passed `PreBind`, together with the
  room held for gangs, is within the `max` of every queue.
* `BoundedOvershoot`: if the accounted usage is over a `max`, one reservation that
  `PreBind` has not let through accounts for it; overshoots do not pile up.
* `BookedAsScheduled`: a running pod is booked where and as `PreFilter` said, and a pod
  without attempt and node is not booked.
* `AccountsWithinLimit`: what the accounts of a limit run, or are cleared to run, on a leaf
  is within the limit, except for pods deleted before they could be bound.
* `CapacityComesBack`: an overshoot is rolled back; the booking of a pod
  that is gone is released for good.
* `ImplementsAtomic`: the cycle is an implementation of `AtomicAdmission`. A pod is admitted
  when `PreBind` lets it through, a gang when its reservation is taken, each against
  everything admitted before it.
* `TrackedAreCharged`: a running pod the coordinator tracks is charged, once the handler
  and the rebuild in progress are through. Pods whose booking went to a sweep with a list older
  than they are (`swept`) are left out until the next rebuild, and so are those of deleted nodes.
* `LeaksHeal`: however the end of a pod was missed or raced, its booking is released for
  good.
* `BidsOnlyRise`: the head-of-line bid on a leaf goes only by expiry, to a gang of higher rank,
  or because its own gang got in.
* `NoStarvation`: a waiting gang gets in although smaller ones keep coming, and although
  some of them vanish while they wait.
* `LedgerHoldsRoom`: as long as the tree stays, the gangs in the ledger are those it holds room
  for, also when a gang is admitted after its PodGroup was deleted or while it is swept.
* `RegistryFollows`: a replica that has taken in every version of a PodGroup knows whether it
  exists, and has it latched when it is Failed.
* `StatusSettles`: the reservation and the phase in the PodGroup's status
  come to be the ones of the ledger and of the members.
* `AbandonedIsReleased`: the reservation of a PodGroup that is gone for good goes too.
* `RoundKeepsGuarantee`: one round takes from a queue at most what it uses beyond its
  guarantee, usage by pods that are still terminating included; for several rounds see `donor`.
  `EvictedForAPeer`: no victim is outside the fence, of higher priority, or in a
  gang. `VictimsSuffice`: the victims of a round cover what it looked for (in
  the reclaim loop the whole request), and none is superfluous.
  `BudgetsAreKept`: `PostFilter` keeps every PodDisruptionBudget. `EntitledGetsIn`: a pod
  that waits below its queue's guarantee gets in, or its queue reaches the guarantee, where the
  borrowers are within the fence, of no higher priority and in no gang.
* `NoChangeLost`: a rebuild loop that waits, with no token in its channel and no handler on its
  way, has the tree that the stores of this moment build, unless they have an error.
  `OwnersWordStands`: no write of the scheduler undoes an owner's, whatever stale object it was
  decided on.
* `ConfigConverges`: when the owners are done, the tree is what their last word builds,
  unless that has an error, and the statuses follow the tree.
  `DrainedQueuesGo`: a deleted CR without live allocation is not kept.
* `KeptWhileWanted`: a published object is deleted only if the gang did without for a moment
  of the same tick. `DemandSettles`: published demand comes to be what the gang wants.
* `EffectiveIsPeak`: the effective request is the most that runs at any moment of the pod's
  life. `DevicesAreCovered`: a fail-closed caller counts exactly the most devices a pod can get,
  or refuses it; no caller counts more.
* `LessIsTotal`: the order of the scheduler's queue is a strict total one.
  `ScoreTellsNodesApart`: spread prefers the
  emptier of two nodes, binpack the fuller.

Bounds, and why they are enough:

* `MCEngine` has two pods, two gangs and three trees: one with a leaf `a`, one that lowers
  the ceiling of `a`, one where `a` has become the parent of a new leaf. One pod has two
  possible footprints, so that what is reserved and what is observed may differ. Each
  ledger entry can be made, confirmed, rolled back, swept and carried to every other tree
  while another entry is in any state.
* `MCCapacityCycle` has three pods and a gang, and three trees: two leaves with ceilings on
  one of them and on their parent; one leaf with a limit on its accounts; one leaf that may
  run one application. Three pods are needed for an overshoot to pile up on another. One pod
  is created at any time, so that a pod may come to a limit or to a cap on applications that
  another one has filled.
* `MCPodLifecycle` has one pod and four configurations, among which the pod's account moves
  to another leaf, with the old leaf kept or dropped, or is routed nowhere. Every property
  is about one pod's entries; pods meet only in the quota, which is the subject of
  `MCCapacityCycle`.
* `MCGangAdmission` has four gangs on one leaf, two of which keep coming back or vanish, and
  a bid timeout of two ticks, so that bids age and expire within the run. `vanished` has
  three gangs and a timeout of one tick.
* `MCGangLifecycle` has one gang of one member, one replica, and an informer at most one version
  behind (`MaxLag`), with all faults. Gangs meet only in the room, which is there or not at every
  step. With one member the Permit barrier opens at once, and the members-ready timeout is off.
* `MCReclaim` has a tenant with a guaranteed and a borrowing leaf, three loose pods, an
  admitted gang of two and three nodes; four trees, in which the quota or the nodes are
  short, the borrower has a guarantee too, or the starved leaf is a fence. One
  PodDisruptionBudget covers the victims. The reclaim loop acts in the first tree only, so it is
  `PostFilter` that meets the fence; that the reclaim loop keeps it as well is proved
  (`EvictedForAPeerHolds`). Every borrower of the first tree may be evicted for the starved pod.
* `MCQueueConfig` has two CRs of one namespace, which may be siblings, parent and child,
  break a rule or the envelope, three starting configurations and one edit (`MaxEdits`)
  that falls into any moment of any rebuild. One of the specs has a `max` of zero.
* `MCProvisioning` has a gang of three of which two are enough.
* `MCAlgorithms` has pods with up to two containers and three init containers, or with up to
  three claims, of every kind; three waiting entities; two nodes, one of which may have lost a
  dimension or have a capacity of zero in it. A sidecar before and after an ordinary init container needs three. The proofs are
  for any number.

Deadlock is checked where the model never stops. `reclaim`, `donor`, `queue_config` and
`algorithms` may stop: when every pod runs, when the owners are done, and when an input has
been read.

## 5. Fairness

* Cycle: an attempt that has started ends (a goroutine that has something to do does it),
  and the informer delivers events, to the coordinator and to the scheduler's queue.
  Nothing is assumed of pods, gangs or other plugins. `Dequeue` is strongly fair: the
  delivery does not wait for the pod to be between two attempts.
* Coordinator: handlers, the rebuild in progress and the collector's ticker go on. No
  configuration change and no fault has to happen or to stop happening.
* Gang admission: waiting members are retried, which the scheduler's queue does
  periodically, and get an answer; an admitted gang ends, the collector runs, and time goes on,
  strongly fair because it does not wait for a moment at which no member is due. `NoStarvation` rests on
  `RetryWithin` being no larger than the bid timeout. If more time passes between two
  attempts on a leaf, the bid of the gang that waits expires and a smaller gang may overtake
  it, each time anew.
* Gang lifecycle: informers deliver, the loops run, and a patch that is tried again and
  again succeeds some day. Members, owners, room and crashes are under no obligation.
* Reclaim: the ticker fires and the API server does not refuse for ever; terminating pods
  go; a waiting pod that fits again and again is scheduled (`activatePending`).
* Configuration: informers, handlers and the rebuild loop run; the reclaim loop visits every
  CR in every tick, so a CR with work to do does not wait for ever.
* Provisioning: the ticker fires, from some time on a leader stays, and a repeated call
  succeeds in the end. Pods and PodGroups are free.

Strong fairness whose `ENABLED` would be large is written out as `<>[]~due \/ []<>done`.

## 6. Proofs

`TotalTheorems` proves what sums do when one value changes, when a function is split in
two, and when values grow. `Total` counts cells instead of recurring over its domain, so
the facts follow from the library's theorems on cardinality. It also has two lemmas on least
elements of finite sets, from which the maxima of the other modules are obtained.

**EngineProofs**, for any finite sets of pods and gangs and any dimensions, trees and
footprints: `ConservationHolds`, `TypeCorrect`. The inductive invariant `IInv` is their
conjunction. Conservation alone is not inductive: without the shape of the ledgers the totals
are no numbers. Nor are its halves: without `HeldGangsAreBound` a gang that the tree holds
and the ledger does not know could be admitted again and charged twice. There is one lemma
per method. Most rest on `PodStep`: a step that touches one pod keeps `IInv` when it moves
the two counters by what the pod's charge loses and gains. A sweep splits the ledger in two
and a rebuild charges the new tree from what it carries over. `UsageFollowsLedgerHolds` is an
action property: under `IInv` the usage of a queue is the sum of the pods' shares and the gangs'
holds, every call that keeps the tree keeps the leaf and the request of a booking it keeps
(`TermsKept`), so the terms of the sum are the same before and after.
`GangsNeverOverbookHolds` is another: with the pods' bookings and the tree unchanged, usage rises
on a queue only if a gang is held that was not held before (`FewerHeldUseLess`), the newly held
gangs passed `CanFit` on every queue of their path, one on top of the usage (`HoldFits`) or, in a
rebuild, all together (`RebuildFits`).
`BidsRise` is an action property of the wound-wait bids: a gang that finds a bid it does not
yield to is its bidder or outranks it, because the order is total on the keys (`RankTotal`).
For `GangAdmission`, whose steps are calls of the engine and PodGroups that come and go, `GInv`
adds the shape of the plugin's state and `LedgerHoldsRoom` to `IInv`, and gives
`LedgerHoldsRoomHolds`, `AdmissionConservation` and `AdmissionBidsRise`.

**CapacityCycleProofs**, on any tree that does not change and for any pods and gangs:
`CapHolds` (the hard cap `ClearedWithinMax`), `BookedAsScheduledHolds`, `CycleTypeCorrect`.
The cap is not inductive. `PreBind` compares `max` with the counters, and the cap is about
pods: the argument needs that the counters cover what is cleared. `CInv` adds to `IInv` a
condition on each pod (`PodInv`) that ties its phase, its node and what the informer has seen
to its ledger entry, so that every cleared pod is booked with its own footprint on the leaf
`PreFilter` chose. From `Conservation` follows that the footprints of booked pods and the
room held for gangs are at most the usage. Two steps can then raise what is cleared:
`PreBind`, after it found the usage, which already includes the pod, within every `max` on
the path, and gang admission, after `CanFit` found room on top of the usage.

**AdmissionProofs**, under the same conditions.

* `BoundedOvershootHolds`. `OInv` adds two facts to `CInv` and the bound itself. One pod at a
  time is between `PreFilter` and `Reserve` (`OneFiltered`), and the queues that pod will charge
  are still within `max` (`FilteredFits`): a gang that was admitted in between passed `CanFit`,
  and nothing else adds to a queue. So a queue that `Reserve` puts over its `max` was within it
  before, and the pod accounts for all of the excess. From then on nothing is added to that queue
  until `PreBind` has turned the pod down and `Unreserve` has taken it back. That the footprint
  observed on a bind is no larger than the one reserved is needed here: a confirmation may only
  lower a counter.
* `AccountsWithinLimitHolds`. `LInv` says that the pods of each limit that exist and are past
  `PreFilter` (`Passed`), which takes in those that wait in `Reserve` or `PreBind`, are within
  the limit, and that each is on the leaf placement names. `PreFilter` counts an informer store
  that may hold more pods than exist and never fewer, so whoever passes has counted all who
  passed before; a pod created later changes nothing until it passes itself.

**CompositionProofs**, the cycle seen from the modules around it.

* `RefinementHolds`, `CycleSpec => ImplementsAtomic`. Under `CInv` and the cap, initial states
  map to initial states, `PreBind` to `AdmitPod`, taking and releasing a reservation to
  `AdmitGroup` and `WithdrawGroup`, the end of a cleared pod or of its attempt to `WithdrawPod`,
  and every other step to a stutter.
* For any pods, footprints and configurations: `TrackedAreChargedHolds`, `LifeTypeHolds`, and
  `LifeConservation`, which carries `Conservation` over to the engine as the coordinator drives
  it. `LifeInv` is `IInv`, the shape, what the handlers carry from one step to the next
  (`HandlersOK`), and `Covered`: a pod that should be charged is committed, or a handler or a
  rebuild that is under way will come to it. `Covered` is what `TrackedAreCharged` says while
  nothing is under way, and it is inductive because the handler writes the tracked map before it
  reads the tree.

**ReclaimProofs**, for any tree, pods, nodes, budgets, queue objects and specs.

* Eviction: `RoundKeepsGuaranteeHolds`, `EvictedForAPeerHolds`, `VictimsSufficeHolds`,
  `BudgetsAreKeptHolds`, `ReclaimTypeHolds`. The state invariant `ReclaimInv` only says that the
  tree is one of the trees, the shape, and that no node holds more than its capacity; the rest
  are lemmas about the sets the loops keep: a budgeted set's sum per donor is within the
  surplus, a selection covers the need, and a trimmed one does not without any of its members.
* Configuration: `ConfigTypeCorrect` follows action by action, since what `TreeOf` gives passed
  `NewManager` and every path by which a pod is booked goes through `Resolve`
  (`ResolvedInTree`). `OwnersWordStandsHolds` needs `ObjectsOK`: what a visit carries from
  `Decide` to `WriteQueue` has the spec and the deletion of the object it was decided on, and
  takes the finalizer only from one that is being deleted. `NoChangeLostHolds` needs
  `ChangesOwed`: as long as nothing is owed (no handler on its way, no token, no debounce), the
  tree of an idle loop is the one the stores build, and while a rebuild is under way the specs it
  has listed are those of the store. An update `queueSpecChanged` ignores is harmless because
  objects of one generation have the same specs (`SameGenerationSameSpecs`).
  `PlacementIsUnique` is about any tree `validatePlacement` accepts: `Resolve` has no choice.

**ReconcilerProofs**, for any gangs, members and replicas.

* Provisioning: `KeptWhileWantedHolds`, `ProvisioningTypeHolds`. The invariant ties `steady` to
  the tick: a gang that wanted nodes all along is still to be visited or is in `desired`.
* The gang's life: `GangTypeCorrect`, `RegistryFollowsHolds`. `RegistryFollows` is
  not inductive, since it says nothing of a replica that is behind: `Informed` adds that the last
  version an informer has still to deliver, or the one in its store when there is none, is the
  PodGroup as it is, and that a registry with nothing to take in goes with the store.

**AlgorithmProofs**.

* `LessIsTotalHolds`, for any entities the queue sort builds, whatever their priorities and submit
  times (`EntitiesAreWellFormed`). The lemmas under it are about `Less` itself, with either policy
  and any units whose gang keys agree between the members of a gang.
* `EffectiveIsPeakHolds`, for a pod of any size. The results of loops are proved as loop
  invariants, not by induction over the input: `ContainersInv` says that `reqs` is the sum over
  the containers read, `InitsInv` that `restartableInit` is the sum over the sidecars read, that
  `reqs` has them too, and that `initPeak` is the largest demand while an init container read so
  far runs. An iteration adds one entry to each sum (`SumsGrow`, from `TotalRestrict`).
* `DevicesAreCoveredHolds`, for any claims. `ClaimsInv` says that `out` is at most the largest
  possible number of devices of the requests read, and for a fail-closed caller equal to it.
* `ScoreTellsNodesApartHolds`, for any nodes and requests. The dominant share of a non-empty
  vector is one of its fractions and none is above it (`DominantIsFraction`); the score of a
  request is that of its part the node advertises (`ScoreIsPoints`); and cutting to whole points
  loses less than one point of each of the two scores (`Quotient`, `PointsTellApart`).

The assumptions are the ones named in the modules: pods and gangs are finite, vectors have
natural numbers, a tree contains the ancestors of each of its queues and not the empty
path, limits are vectors of natural numbers, UIDs differ, node capacities and requests are
natural numbers, no device class has the empty name. `CycleAssumption` also says that what the
informer path observes of a pod is at most what `PreFilter` computes: both are
`EffectiveRequest` of the same pod, and `PreFilter` adds the devices (`capacity.go:124-130`,
`coordinator.go:641`). TLC evaluates all of them in the runs.

Each module of proofs gives its leaves to Zenon (`USE ZenonT(30)`), and a leaf that needs
arithmetic or sequences names SMT. The translation of an obligation for SMT has a time limit of
its own, which no pragma raises and which a leaf of many facts in a large module can exceed: so
leaves for SMT cite few facts, and what can be rewritten without arithmetic is a step before.

Every invariant and every action property the passing runs check is proved. Only model-checked
is what rests on fairness, which is out of the prover's reach: `CapacityComesBack`,
`LeaksHeal`, `NoStarvation`, `StatusSettles`, `AbandonedIsReleased`, `EntitledGetsIn`,
`ConfigConverges`, `DrainedQueuesGo` and `DemandSettles`. What `Built` computes for CRs of any number would take
induction over their levels, so that the assembled paths are those of `buildNamespace` is a
translation, and what is proved of the tree is what `NewManager` checks.

## 7. Where code and comments disagree

Three of these are runs; line numbers and quotes are in `PROJECT.json`.

* `vanished`: a gang that yields to a bid refreshes it, also when the bidder is gone. As
  long as the gang behind it is retried within the timeout, it waits for ever.
* `failed_gang`: a PodGroup version from before the failure, delivered after it, clears the
  registry's Failed flag. In that window a member gets the gang admitted, or a rebuild recovers
  the reservation from the older version in the store, and it stays although the PodGroup is
  marked Failed.
* `donor`: victims of `PostFilter` that are terminating are no candidates but still count as
  usage, so its next round takes them for surplus once more and a donor ends below its guarantee.
  The budget of the reclaim loop is computed in the same way.

The models contain the following behaviours too; no run is spent on them.

Ledgers and rebuild:

* A rebuild that has no room for a gang leaves it admitted in the ledger with nothing held
  in the tree (`engine.go:212`; 78-79 says the booking "survives a tree rebuild").
* When a leaf with bookings becomes a parent, the bookings stay in the ledger and are charged
  to no queue (`engine.go:202`; 186-187 says "a config change never loses live allocations").
* Re-seeding does not move a confirmed booking to the leaf its pod now routes to
  (`coordinator.go:592`; 579-580 says it catches "pods whose leaf moved on a config change").
* A pod on a deleted node is tracked and booked again by its next update
  (`coordinator.go:632`; `nodelife.go:14-15`).
* After a restart the tree is published before running pods are charged to it
  (`coordinator.go:499`; 356-360).
* The collector's list of live pods is older than the ledger it sweeps (`coordinator.go:438`).
* A bind that took effect and was reported as failed is rolled back and its quota handed out
  before the pod is observed, so confirmed usage can exceed a `max`.
* The informer path books a pod without its DRA devices (`coordinator.go:641`).

Cycle, gangs and preemption:

* `maxApplications` is described as a cap on running applications (`queue.go:44`). It counts
  those that only wait as well, so pending applications can keep each other out, and a
  change of configuration can leave more running than the cap.
* A leaf remembers one bid, so the second gang in rank can be overtaken once the first is in.
* Recovery of reservations runs after the new tree is published (`gangstatus.go:29-31` says
  "before scheduling resumes").
* The same stale version lets the phase of a Failed PodGroup be computed anew, and it may leave
  Failed (`phase.go:37-38` calls Failed terminal).
* Reclaim asks victims for the whole request of the starved pod, also when part of it is free
  (`reclaim.go:92-100`; 46-49 says "the minimal set"); victims may sit in a branch that does
  not relieve the ancestor that is full; completed pods count as victims.
* The comment on `buildVictims` spares pods "at or above" the starved pod's priority; the code
  spares those strictly above, and uses a delete where the note says Eviction API.

Configuration and the rest:

* A ResourceQuota lowered below the `max` of one queue makes the whole tree invalid, so the
  old ceiling stays, for every namespace (`build.go:87`; `coordinator.go:285-286` says the
  change "re-clamps the namespace node's max on the next rebuild"). A parent that is deleted
  has the same effect while its children exist.
* The drain finalizer looks at one moment's usage, so a pod that is being placed can find its
  queue gone (`queuestatus.go:19-20`). `status.leaf` is written only together with a new path
  or phase, so it is stale when a queue gets its first child (`queuestatus.go:78`).
* The queue sort is described as "priority-desc, then enqueue-time-asc" (`queuesort.go:5`); with
  the default policy the submit time is compared first. The comparator is described as keeping a
  gang's members contiguous (`sort.go:5-6`, 33-35); the plugin, its one caller, leaves the gang
  keys empty, so the order does not group gangs.
* `dra.go:30` says an unresolvable request is skipped when fail-open; a FirstAvailable request
  is counted by its first alternative. A `max` of zero in a Queue CR is dropped by `FromQuantityMap`
  and means unlimited.
* A gang with more members than `minMember` loses its provisioning request once `minMember`
  are placed.

## 8. What is not modelled

* The node cache's tallies. Only `PreBind` in a shared pool decides by them, and the model
  allows that refusal at any time.
* Count quotas and the pending TTL: opt-in reconcilers of single objects that share no state
  with the rest.
* In `GangLifecycle` the counts in the status. The run's gang has one member. With two, so
  that the Permit barrier has someone to wait for, TLC also finds no error, but not within the
  few minutes a run should take with all faults at once: all properties hold without faults
  (407,898 states, 3 minutes), and the two invariants with all faults (1,726,460 states). The
  barrier has no property of its own.
* A scheduler and a reconciler on different replicas (`reconcilerha.go:19-24`) have no run. The
  constants allow it. With one member and no faults `AbandonedIsReleased` and what `StatusSettles`
  says of the phase hold there too; what it says of the reservation does not: the reconciler
  writes what its own ledger says, which is not the scheduler's.
* The nominated node of `PostFilter`, and its delay gate, which only postpones a round.
* `FindByNamespaceName` when a CR has the name of its namespace: the lookup is ambiguous
  (`manager.go:253-265`), and the instances exclude it.
* The arithmetic of `envelopes()` (`coordinator.go:509-575`): the model takes its result.
* Floating point: shares and scores are exact fractions.
* ACLs, and the admission policies rendered as CEL text for the API server.
* `pkg/cache/types.go`: state machines that no code drives. The `pending` counter of a queue,
  which only tests change.
* Formatting, metrics, events, state dump, health endpoints, configuration parsing, API types,
  wiring.
