------------------------------ MODULE Reclaim ------------------------------
(***************************************************************************)
(* Who is evicted for whom.  Two loops evict: the reclaim controller       *)
(* (pkg/framework/reclaim.go), for a pod whose queue is below its          *)
(* guarantee and cannot fit because others have borrowed the room, and     *)
(* PostFilter (pkg/plugins/capacity/postfilter.go), for a pod that fits    *)
(* its queue and no node.  Both take a donor's pods up to what the donor   *)
(* uses beyond its guarantee, and leave the choice to SelectVictims        *)
(* (pkg/queue/preemption.go).                                              *)
(*                                                                         *)
(* The loops of the code that go through a sorted list and keep or drop    *)
(* each element are given here by what they keep: the one set in which     *)
(* each element is kept exactly if it passes the test against the kept     *)
(* elements before it.                                                     *)
(*                                                                         *)
(* A pod is evicted with a grace period: it is terminating, and charged,   *)
(* until it is gone.  The ledgers follow the cluster at once; how they may *)
(* lag is the matter of PodLifecycle.                                      *)
(***************************************************************************)
EXTENDS QueueTree

CONSTANTS
  Pods, Trees,
  Identity, Req, Prio,
  Age,        \* pod -> its place in the order of creation times
  Uid,        \* pod -> its place in the order of UIDs
  Gangs,      \* the gangs, all of them admitted
  GangOf,     \* pod -> its gang, or NoGang
  MinMember, GangRes, GangIdentity,
  PoolNodes, Capacity,
  Jobs,       \* the pods that run to completion
  Recreated,  \* the pods a controller creates again
  Budgets     \* the PodDisruptionBudgets, as [pods, minAvailable]

NoGang == "-"
NoNode == "-"

ASSUME ReclaimAssumption ==
  /\ IsFiniteSet(Pods) /\ IsFiniteSet(Gangs) /\ IsFiniteSet(Dims)
  /\ NoNode \notin PoolNodes
  /\ Req \in [Pods -> Vec] /\ GangRes \in [Gangs -> Vec] /\ Capacity \in [PoolNodes -> Vec]
  /\ Prio \in [Pods -> Int]
  /\ Uid \in [Pods -> Nat] /\ \A a, b \in Pods : a # b => Uid[a] # Uid[b]
  /\ \A b \in Budgets : b.pods \subseteq Pods /\ b.minAvailable \in Nat
  /\ \A t \in Trees : \A q \in t.nodes : IsLimit(t.guaranteed[q])

VARIABLES
  tree,   \* the queue tree, with the set fences of its explicit fences
  state,  \* pod -> where it is in its life
  on      \* pod -> its node, or NoNode

vars == <<tree, state, on>>

States == {"gone", "pending", "running", "terminating", "completed"}

LeafOf(p) == Resolve(tree, Identity[p])
InGang(p) == GangOf[p] # NoGang

\* What the pods of S request, together.
Amount(S, d) == Total([p \in S |-> Req[p][d]])

\* What is charged to a queue: its pods until they are gone or completed, and
\* the reservations of its gangs in place of their members.
Charged(q) == {p \in Pods : /\ ~InGang(p) /\ state[p] \in {"running", "terminating"}
                            /\ q \in WalkUp(LeafOf(p))}

GangHolds(q, d) ==
  Total([g \in {h \in Gangs : q \in WalkUp(Resolve(tree, GangIdentity[h]))} |-> GangRes[g][d]])

Used == [q \in tree.nodes |-> [d \in Dims |-> Amount(Charged(q), d) + GangHolds(q, d)]]

AtLeast0(n) == IF n > 0 THEN n ELSE 0

-----------------------------------------------------------------------------
(* Donors.                                                                 *)

\* Queue.fenceBoundary: the deepest fence around q; top-level queues are fences.
FenceBoundary(q) ==
  LET fences == {n \in WalkUp(q) : n \in tree.fences \/ Len(n) = 2}
  IN  IF fences = {} THEN RootPath ELSE CHOOSE n \in fences : \A m \in fences : Len(m) <= Len(n)

PathWithinSubtree(q, top) == top \in WalkUp(q)

\* Mutant: the fence is taken to be the root.
MayReachAnyone(p, v) ==
  LeafOf(v) # NoLeaf /\ PathWithinSubtree(LeafOf(v), RootPath)

\* A preemptor reaches the pods within its fence.
MayReach(p, v) ==
  LeafOf(v) # NoLeaf /\ PathWithinSubtree(LeafOf(v), FenceBoundary(LeafOf(p)))

\* How much a queue can give back without breaching its guarantee.
Reclaimable(q, d) == AtLeast0(Used[q][d] - GuaranteedOf(tree, q, d))

IsDonor(q) == \E d \in Dims : Reclaimable(q, d) > 0

\* The orders sort.Slice may leave the pods in: by priority, equals in any order.
Orders == {r \in [Pods -> 1 .. Cardinality(Pods)] :
             \A a, b \in Pods : a # b => r[a] # r[b] /\ (Prio[a] < Prio[b] => r[a] < r[b])}

\* Mutant: each pod alone is held against the budget of its donor.
BudgetedAlone(V, S, r) ==
  V = {v \in S : \A d \in Dims : Req[v][d] <= Reclaimable(LeafOf(v), d)}

\* V are the pods of S that the budgets of their donors pay for, in the order r.
Budgeted(V, S, r) ==
  /\ V \subseteq S
  /\ \A v \in S : v \in V <=>
       LET before == {u \in V : LeafOf(u) = LeafOf(v) /\ r[u] < r[v]}
       IN  \A d \in Dims : Amount(before, d) + Req[v][d] <= Reclaimable(LeafOf(v), d)

-----------------------------------------------------------------------------
(* SelectVictims.                                                          *)

\* resource.FitIn(need, what evicting S frees).
Covers(S, need) == \A d \in Dims : need[d] <= Amount(S, d)

Contribution(need, v) == Total([d \in {e \in Dims : need[e] > 0} |-> Req[v][d]])

\* u is evicted before v: lower priority, then the larger contribution.
Cheaper(need, u, v) ==
  LET cu == Contribution(need, u)
      cv == Contribution(need, v)
  IN  \/ Prio[u] < Prio[v]
      \/ Prio[u] = Prio[v] /\ cu > cv
      \/ Prio[u] = Prio[v] /\ cu = cv /\ Uid[u] < Uid[v]

\* The greedy pass goes on as long as what is taken does not cover the need.
Taken(need, V) ==
  LET pool == {v \in V : Contribution(need, v) > 0}
  IN  {v \in pool : ~Covers({u \in pool : Cheaper(need, u, v)}, need)}

\* Mutant: no trim pass.
IsSelectionUntrimmed(K, need, V) == Covers(Taken(need, V), need) /\ K = Taken(need, V)

\* K is what is left of the greedy choice when the trim pass, from the last
\* taken to the first, has dropped those the others do without.
IsSelection(K, need, V) ==
  LET taken == Taken(need, V)
  IN  /\ Covers(taken, need)
      /\ K \subseteq taken
      /\ \A v \in taken : v \in K <=>
           ~Covers({u \in taken : Cheaper(need, u, v)} \cup {u \in K : Cheaper(need, v, u)}, need)

-----------------------------------------------------------------------------
(* Evictions.  Any of the deletes may fail; the others are made.           *)

\* Mutant: every pod is taken to have a grace period, a completed one too.
EvictGracefully(K) ==
  \E failed \in SUBSET K :
    /\ state' = [p \in Pods |-> IF p \notin K \ failed THEN state[p]
                                ELSE IF state[p] = "running" THEN "terminating" ELSE "gone"]
    /\ UNCHANGED <<tree, on>>

Evict(K) ==
  \E failed \in SUBSET K :
    LET E == K \ failed
    IN  /\ state' = [p \in Pods |-> IF p \notin E THEN state[p]
                                      ELSE IF state[p] = "running" THEN "terminating" ELSE "gone"]
        /\ on' = [p \in Pods |-> IF p \in E /\ state[p] # "running" THEN NoNode ELSE on[p]]
        /\ UNCHANGED tree

-----------------------------------------------------------------------------
(* reclaimOnce.                                                            *)

\* The pods with a node that are not being deleted, completed ones included.
BoundPods == {p \in Pods : state[p] \in {"running", "completed"} /\ ~InGang(p)}

EntitledToReclaim(q, need) ==
  /\ \E d \in Dims : GuaranteedOf(tree, q, d) > 0
  /\ \A d \in Dims : need[d] > 0 => Used[q][d] + need[d] <= GuaranteedOf(tree, q, d)

\* The pods one tick goes through: those that wait, do not fit their queue and
\* are entitled to.
Starved(p) ==
  /\ state[p] = "pending" /\ ~InGang(p) /\ LeafOf(p) # NoLeaf
  /\ ~CanFit(tree, Used, LeafOf(p), Req[p])
  /\ EntitledToReclaim(LeafOf(p), Req[p])

\* Mutant: pods of the same priority are spared, as the comment has it.
ReclaimCandidatesBelow(p) ==
  {v \in BoundPods : /\ LeafOf(v) # LeafOf(p) /\ MayReach(p, v)
                     /\ IsDonor(LeafOf(v)) /\ Prio[v] < Prio[p]}

\* buildVictims.
ReclaimCandidates(p) ==
  {v \in BoundPods : /\ LeafOf(v) # LeafOf(p) /\ MayReach(p, v)
                     /\ IsDonor(LeafOf(v)) /\ Prio[v] <= Prio[p]}

Reclaims(p, r, K) ==
  \E V \in SUBSET ReclaimCandidates(p) :
    Budgeted(V, ReclaimCandidates(p), r) /\ IsSelection(K, Req[p], V)

\* Served first: the higher priority, then the older.
MoreDeserving(o, p) == Prio[o] > Prio[p] \/ (Prio[o] = Prio[p] /\ Age[o] < Age[p])

\* One tick serves the most deserving pod that can be helped.
ReclaimOnce ==
  \E p \in Pods :
    /\ Starved(p)
    /\ \E r \in Orders : \E K \in SUBSET ReclaimCandidates(p) \ {{}} :
         /\ Reclaims(p, r, K)
         /\ \A o \in Pods : (Starved(o) /\ MoreDeserving(o, p)) =>
              \A K2 \in SUBSET ReclaimCandidates(o) \ {{}} : ~Reclaims(o, r, K2)
         /\ Evict(K)

-----------------------------------------------------------------------------
(* PostFilter.                                                             *)

OnNode(n) == {p \in Pods : on[p] = n /\ state[p] \in {"running", "terminating"}}

NodeAvailable(n, d) == AtLeast0(Capacity[n][d] - Amount(OnNode(n), d))

HasRoom(n, p) == \A d \in Dims : Amount(OnNode(n), d) + Req[p][d] <= Capacity[n][d]

\* A gang preempts for its last member only.
GangProgress(g) == Cardinality({p \in Pods : GangOf[p] = g /\ on[p] # NoNode})

MayPreempt(p) ==
  /\ state[p] = "pending" /\ LeafOf(p) # NoLeaf
  /\ IF InGang(p)
     THEN MinMember[GangOf[p]] > 1 /\ GangProgress(GangOf[p]) >= MinMember[GangOf[p]] - 1
     ELSE CanFit(tree, Used, LeafOf(p), Req[p])

\* eligibleVictims.
NodeCandidates(p, n) ==
  {v \in Pods : /\ on[v] = n /\ state[v] = "running" /\ ~InGang(v)
                /\ Prio[v] < Prio[p] /\ MayReach(p, v) /\ IsDonor(LeafOf(v))}

\* status.disruptionsAllowed, which the disruption controller keeps.
DisruptionsAllowed(b) ==
  AtLeast0(Cardinality({p \in b.pods : state[p] = "running"}) - b.minAvailable)

\* Mutant: the budgets of the PodDisruptionBudgets are not spent.
PDBSparedUnspent(W, V, r) ==
  W = {v \in V : \A b \in Budgets : v \in b.pods => DisruptionsAllowed(b) > 0}

\* filterPDBProtected: every budget is spent on the cheapest pods first.
PDBSpared(W, V, r) ==
  /\ W \subseteq V
  /\ \A v \in V : v \in W <=>
       \A b \in Budgets : v \in b.pods =>
          Cardinality({u \in W \cap b.pods : r[u] < r[v]}) < DisruptionsAllowed(b)

Preempts(p, r, n, K) ==
  LET cand == NodeCandidates(p, n)
      deficit == [d \in Dims |-> AtLeast0(Req[p][d] - NodeAvailable(n, d))]
  IN  \E V \in SUBSET cand :
        /\ Budgeted(V, cand, r)
        /\ \E W \in SUBSET V : PDBSpared(W, V, r) /\ IsSelection(K, deficit, W)

\* The node with the fewest victims, the first of them in the snapshot's order.
PostFilter(p) ==
  /\ MayPreempt(p)
  /\ \A n \in PoolNodes : ~HasRoom(n, p)
  /\ \E r \in Orders, n \in PoolNodes : \E K \in SUBSET NodeCandidates(p, n) \ {{}} :
       /\ Preempts(p, r, n, K)
       /\ \A m \in PoolNodes : \A K2 \in SUBSET NodeCandidates(p, m) \ {{}} :
            Preempts(p, r, m, K2) => Cardinality(K) <= Cardinality(K2)
       /\ Evict(K)

-----------------------------------------------------------------------------
(* The scheduler and the cluster.                                          *)

\* A pod that fits its queue and a node is bound; the members of an admitted
\* gang have their room in the queue.
Schedulable(p) ==
  /\ state[p] = "pending" /\ LeafOf(p) # NoLeaf
  /\ InGang(p) \/ CanFit(tree, Used, LeafOf(p), Req[p])
  /\ \E n \in PoolNodes : HasRoom(n, p)

Schedule(p) ==
  /\ Schedulable(p)
  /\ \E n \in PoolNodes : HasRoom(n, p) /\ on' = [on EXCEPT ![p] = n]
  /\ state' = [state EXCEPT ![p] = "running"]
  /\ UNCHANGED tree

Finish(p) ==
  /\ state[p] = "running" /\ p \in Jobs
  /\ state' = [state EXCEPT ![p] = "completed"]
  /\ UNCHANGED <<tree, on>>

\* The grace period of a pod ends; a completed pod is cleaned up.
Vanish(p) ==
  /\ state[p] \in {"terminating", "completed"}
  /\ state' = [state EXCEPT ![p] = "gone"]
  /\ on' = [on EXCEPT ![p] = NoNode]
  /\ UNCHANGED tree

\* A controller creates the pod again.
Respawn(p) ==
  /\ state[p] = "gone" /\ p \in Recreated
  /\ state' = [state EXCEPT ![p] = "pending"]
  /\ UNCHANGED <<tree, on>>

ReclaimInit ==
  /\ tree \in Trees
  /\ state = [p \in Pods |-> "pending"]
  /\ on = [p \in Pods |-> NoNode]

ReclaimNext ==
  \/ ReclaimOnce
  \/ \E p \in Pods : PostFilter(p) \/ Schedule(p) \/ Finish(p) \/ Vanish(p) \/ Respawn(p)

ReclaimSpec == ReclaimInit /\ [][ReclaimNext]_vars

Evicted == {p \in Pods : state[p] = "running" /\ state'[p] = "terminating"}

\* A tick would evict a running pod.
CanReclaim ==
  \E p \in Pods : Starved(p) /\ \E r \in Orders : \E K \in SUBSET ReclaimCandidates(p) :
    Reclaims(p, r, K) /\ \E v \in K : state[v] = "running"

\* The reclaim ticker fires and the API server does not refuse for ever;
\* terminating pods go.  Freed room is seen by a pod that waits for it:
\* activatePending puts the waiting pods back, the older ones first.  Both are
\* strong fairness, with ENABLED written out.
Fairness ==
  /\ <>[]~CanReclaim \/ []<><<Evicted # {} /\ ReclaimOnce>>_vars
  /\ \A p \in Pods : <>[]~Schedulable(p) \/ []<><<Schedule(p)>>_vars
  /\ \A p \in Pods : WF_vars(Vanish(p))

FairReclaimSpec == ReclaimSpec /\ Fairness

-----------------------------------------------------------------------------
(* Properties.                                                             *)

\* The shape of the state: a pod has a node from its bind until it is gone.
ReclaimTypeOK ==
  /\ state \in [Pods -> States]
  /\ on \in [Pods -> PoolNodes \cup {NoNode}]
  /\ \A p \in Pods : on[p] = NoNode <=> state[p] \in {"gone", "pending"}

\* One round of evictions, of either loop, takes from a queue at most what the
\* queue is charged with beyond its guarantee, in every dimension and over all the
\* victims of this round (postfilter.go:155-171, reclaim.go:158-177).
RoundKeepsGuarantee ==
  [][ \A q \in tree.nodes : \A d \in Dims :
        Amount({v \in Evicted : LeafOf(v) = q}, d) <= Reclaimable(q, d) ]_vars

\* No tenant pays for another (postfilter.go:127-129): whoever is evicted is within
\* the fence of a pod that waits, is of no higher priority than it, and is no member
\* of a gang.
EvictedForAPeer ==
  [][ \A v \in Evicted : ~InGang(v) /\
        \E p \in Pods : /\ state[p] = "pending" /\ Prio[v] <= Prio[p]
                        /\ FenceBoundary(LeafOf(p)) \in WalkUp(LeafOf(v)) ]_vars

\* The trim pass (preemption.go:76-83) leaves a choice that is enough and of which no
\* single victim can be spared.  With the victims of PostFilter gone the pod fits the
\* node, and with any one of them left it does not; what the victims of reclaimOnce
\* use covers the request of the starved pod, and without any one of them does not.
\* (A smaller choice of other pods may exist, and room that is free in the queue is
\* not deducted from the request.)
VictimsSuffice ==
  \A p \in Pods :
    /\ (MayPreempt(p) /\ \A n \in PoolNodes : ~HasRoom(n, p)) =>
         \A n \in PoolNodes : \A r \in Orders, K \in SUBSET NodeCandidates(p, n) :
           Preempts(p, r, n, K) =>
             LET fits(E) == \A d \in Dims : Amount(OnNode(n) \ E, d) + Req[p][d] <= Capacity[n][d]
             IN  fits(K) /\ \A v \in K : ~fits(K \ {v})
    /\ Starved(p) =>
         \A r \in Orders, K \in SUBSET ReclaimCandidates(p) :
           Reclaims(p, r, K) => Covers(K, Req[p]) /\ \A v \in K : ~Covers(K \ {v}, Req[p])

\* PostFilter keeps every PodDisruptionBudget: of the pods one covers, a round
\* evicts no more than the budget allows.
BudgetsAreKept ==
  [][ (\E b \in Budgets : Cardinality(Evicted \cap b.pods) > DisruptionsAllowed(b))
        => ~ \E p \in Pods : PostFilter(p) ]_vars

\* Guarantees are worth something: a pod that does not fit although its queue would
\* stay within its guarantee gets in, or its queue comes to its guarantee, as often
\* as evictions fail.  This is about borrowers that may be evicted for the pod: those
\* of a higher priority, in a gang or beyond the fence keep what they have
\* (reclaim.go:67, 151, 170), and the instance has none of them.
EntitledGetsIn ==
  \A p \in Pods :
    Starved(p) ~> (state[p] # "pending" \/ ~EntitledToReclaim(LeafOf(p), Req[p]))

\* postfilter.go:122-124 says of the victims that they are "bounded by each donor
\* queue's reclaimable budget (used - guaranteed), so eviction never drops a donor
\* below its guarantee": what a queue keeps after a round, not counting the pods that
\* are on their way out, is its guarantee at least.
DonorKeepsGuarantee ==
  [][ \A q \in tree.nodes : \A d \in Dims :
        LET leaving(st) == Amount({p \in Charged(q) : st[p] = "terminating"}, d)
        IN  leaving(state') > leaving(state)
              => Used[q][d] - leaving(state') >= GuaranteedOf(tree, q, d) ]_vars
=============================================================================
