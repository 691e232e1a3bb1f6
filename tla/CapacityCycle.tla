--------------------------- MODULE CapacityCycle ---------------------------
(***************************************************************************)
(* pkg/plugins/capacity against the engine: how a pod that is not a gang   *)
(* member goes through the scheduler and what its quota does meanwhile.    *)
(*                                                                         *)
(* The scheduling cycle (PreFilter to Reserve) is one goroutine, so one    *)
(* pod at a time is between its headroom check and its reservation.  The   *)
(* binding cycles (PreBind to PostBind) of different pods run at the same  *)
(* time, as do gang admission (PreEnqueue), gang release and the informer  *)
(* handlers.  The queue tree is the one installed at the start; a rebuild  *)
(* in the middle of a cycle belongs to PodLifecycle.                       *)
(***************************************************************************)
EXTENDS Engine

CONSTANTS
  Late,        \* the pods that are created while the system runs
  Identity,    \* pod -> [ns, sa], what placement resolves
  Footprint,   \* pod -> what PreFilter computes: EffectiveRequest and DRA counts
  Observed,    \* pod -> what the informer path computes: EffectiveRequest alone
  GangQueue,   \* gang -> the leaf its members resolve to
  App,         \* pod -> its application id (util.AppID)
  MaxApps,     \* leaf -> Queue.maxApplications, 0 for no cap
  Limits       \* leaf -> its per-account limits, a set of [sas, apps, max]

ASSUME CycleAssumption ==
  /\ Late \subseteq Pods
  /\ \A p \in Pods : Footprint[p] \in Requests[p] /\ Observed[p] \in Requests[p]
  /\ \A p \in Pods, d \in Dims : Observed[p][d] <= Footprint[p][d]
  /\ \A g \in Gangs : GangQueue[g] \in Paths
  /\ MaxApps \in [Paths -> Nat]
  /\ \A q \in Paths : \A lim \in Limits[q] : lim.apps \in Nat /\ IsLimit(lim.max)

VARIABLES
  phase,   \* pod -> where its scheduling attempt stands
  leafOf,  \* pod -> the leaf PreFilter wrote to the cycle state
  node,    \* pod -> what the API server says: unbound, bound, gone after it was
           \*   bound ("ended"), gone without ever being bound ("deleted")
  seen     \* pod -> the last of these the informer handlers have processed

cycleVars == <<phase, leafOf, node, seen>>
vars == <<engineVars, cycleVars>>

Phases == {"absent", "queued", "filtered", "assumed", "binding", "failing", "postbind", "done"}
PodStates == {"none", "bound", "ended", "deleted"}

\* The pods the coordinator has in its tracked map.
Tracked == {p \in Pods : seen[p] = "bound"}

To(p, ph) == phase' = [phase EXCEPT ![p] = ph]

-----------------------------------------------------------------------------
(* The limits of a leaf.  They are counted over the informer's store, from *)
(* the pods that are neither terminal nor being deleted, whether they have *)
(* a node or wait for one.                                                 *)

Present == {p \in Pods : phase[p] # "absent" /\ node[p] \in {"none", "bound"}}

\* The store is at most as old as what the handlers have seen, and at most as
\* new as the cluster: it may still hold pods that are gone.
Lagging == {p \in Pods : node[p] \in {"ended", "deleted"} /\ seen[p] # node[p]}
Stores == {Present \cup lag : lag \in SUBSET Lagging}

OnLeaf(store, leaf) == {o \in store : Resolve(tree, Identity[o]) = leaf}

AppIDsOnLeaf(store, leaf, p) == {App[o] : o \in OnLeaf(store, leaf) \ {p}}

InSet(p, sas) == Identity[p].sa \in sas \/ "*" \in sas

\* Mutant: only the pods that have a node count.
LimitGroupBound(store, leaf, sas, p) ==
  {o \in OnLeaf(store, leaf) \ {p} : InSet(o, sas) /\ node[o] = "bound"}

\* LeafLimitUsage: the pods whose applications and requests it gathers.
LimitGroup(store, leaf, sas, p) == {o \in OnLeaf(store, leaf) \ {p} : InSet(o, sas)}

\* An application that has another pod on the leaf is let in, a new one only
\* below the cap.
AppAdmitted(apps, p, cap) ==
  cap > 0 => App[p] \in apps \/ Cardinality(apps) < cap

\* FitIn on the sum: what the limit does not name, its accounts may not use.
FitInLimit(group, p, max) ==
  (\E d \in DOMAIN max : max[d] # 0) =>
     \A d \in Dims : Total([o \in group |-> Observed[o][d]]) + Footprint[p][d]
                       <= IF d \in DOMAIN max THEN max[d] ELSE 0

WithinLimits(store, p, leaf) ==
  /\ AppAdmitted(AppIDsOnLeaf(store, leaf, p), p, MaxApps[leaf])
  /\ \A lim \in Limits[leaf] : InSet(p, lim.sas) =>
       LET group == LimitGroup(store, leaf, lim.sas, p)
       IN  /\ AppAdmitted({App[o] : o \in group}, p, lim.apps)
           /\ FitInLimit(group, p, lim.max)

-----------------------------------------------------------------------------
(* The scheduling cycle.                                                   *)

\* Mutant: the resolved leaf is not written to the cycle state.
PreFilterUnwritten(p) ==
  LET leaf == Resolve(tree, Identity[p])
  IN  /\ phase[p] = "queued"
      /\ \A o \in Pods : phase[o] # "filtered"
      /\ tree # NoTree
      /\ leaf # NoLeaf
      /\ \E store \in Stores : WithinLimits(store, p, leaf)
      /\ CanFit(tree, Used, leaf, Footprint[p])
      /\ To(p, "filtered")
      /\ UNCHANGED <<engineVars, leafOf, node, seen>>

\* Mutant: no headroom check.
PreFilterUnchecked(p) ==
  LET leaf == Resolve(tree, Identity[p])
  IN  /\ phase[p] = "queued"
      /\ \A o \in Pods : phase[o] # "filtered"
      /\ tree # NoTree
      /\ leaf # NoLeaf
      /\ \E store \in Stores : WithinLimits(store, p, leaf)
      /\ To(p, "filtered")
      /\ leafOf' = [leafOf EXCEPT ![p] = leaf]
      /\ UNCHANGED <<engineVars, node, seen>>

\* A pod the gate rejects goes back to the queue as it was.  The scheduler may
\* still have a pod in its queue that is bound or deleted already.
PreFilter(p) ==
  LET leaf == Resolve(tree, Identity[p])
  IN  /\ phase[p] = "queued"
      /\ \A o \in Pods : phase[o] # "filtered"
      /\ tree # NoTree
      /\ leaf # NoLeaf
      /\ \E store \in Stores : WithinLimits(store, p, leaf)
      /\ CanFit(tree, Used, leaf, Footprint[p])
      /\ To(p, "filtered")
      /\ leafOf' = [leafOf EXCEPT ![p] = leaf]
      /\ UNCHANGED <<engineVars, node, seen>>

\* No node passes Filter.
NoNodeFits(p) ==
  /\ phase[p] = "filtered"
  /\ To(p, "queued")
  /\ UNCHANGED <<engineVars, leafOf, node, seen>>

\* The scheduler's own informer handler drops a pod that needs no node any more.
Dequeue(p) ==
  /\ phase[p] = "queued" /\ node[p] # "none"
  /\ To(p, "done")
  /\ UNCHANGED <<engineVars, leafOf, node, seen>>

ReservePlugin(p) ==
  /\ phase[p] = "filtered"
  /\ Reserve(p, leafOf[p], Footprint[p])
  /\ To(p, "assumed")
  /\ UNCHANGED <<leafOf, node, seen>>

-----------------------------------------------------------------------------
(* The binding cycle.                                                      *)

\* Mutant: the drift is not looked at.
PreBindUnchecked(p) ==
  /\ phase[p] = "assumed"
  /\ To(p, IF leafOf[p] \in tree.nodes THEN "binding" ELSE "failing")
  /\ UNCHANGED <<engineVars, leafOf, node, seen>>

\* The queue may have drifted over max since Reserve; a leaf that is no
\* longer in the tree is an error.
PreBind(p) ==
  /\ phase[p] = "assumed"
  /\ To(p, IF leafOf[p] \in tree.nodes /\ WithinMax(tree, Used, leafOf[p])
           THEN "binding" ELSE "failing")
  /\ UNCHANGED <<engineVars, leafOf, node, seen>>

\* Another plugin's Permit or PreBind turns the pod down, or ours does because
\* the node of a shared pool has no room any more (capacity.go:241-249).
OtherPluginRejects(p) ==
  /\ phase[p] = "assumed"
  /\ To(p, "failing")
  /\ UNCHANGED <<engineVars, leafOf, node, seen>>

Bind(p) ==
  /\ phase[p] = "binding" /\ node[p] = "none"
  /\ node' = [node EXCEPT ![p] = "bound"]
  /\ To(p, "postbind")
  /\ UNCHANGED <<engineVars, leafOf, seen>>

BindFails(p) ==
  /\ phase[p] = "binding"
  /\ To(p, "failing")
  /\ UNCHANGED <<engineVars, leafOf, node, seen>>

PostBind(p) ==
  /\ phase[p] = "postbind"
  /\ Commit(p)
  /\ To(p, "done")
  /\ UNCHANGED <<leafOf, node, seen>>

\* Mutant: the failed attempt keeps its reservation.
UnreservePluginForgets(p) ==
  /\ phase[p] = "failing"
  /\ To(p, "queued")
  /\ UNCHANGED <<engineVars, leafOf, node, seen>>

UnreservePlugin(p) ==
  /\ phase[p] = "failing"
  /\ Unreserve(p)
  /\ To(p, "queued")
  /\ UNCHANGED <<leafOf, node, seen>>

-----------------------------------------------------------------------------
(* The cluster and the informer.                                           *)

\* The pod is created and reaches the informer's store and the scheduler's queue.
Create(p) ==
  /\ phase[p] = "absent"
  /\ To(p, "queued")
  /\ UNCHANGED <<engineVars, leafOf, node, seen>>

\* The pod is deleted, evicted, or reaches a terminal phase.
PodEnds(p) ==
  /\ phase[p] # "absent" /\ node[p] \in {"none", "bound"}
  /\ node' = [node EXCEPT ![p] = IF @ = "bound" THEN "ended" ELSE "deleted"]
  /\ UNCHANGED <<engineVars, phase, leafOf, seen>>

\* onPodUpsert, first sight of a bound pod.
OnPodUpsert(p) ==
  LET leaf == Resolve(tree, Identity[p])
  IN  /\ seen[p] = "none" /\ node[p] \in {"bound", "ended"}
      /\ IF leaf # NoLeaf THEN ObserveBound(p, leaf, Observed[p])
         ELSE UNCHANGED engineVars
      /\ seen' = [seen EXCEPT ![p] = "bound"]
      /\ UNCHANGED <<phase, leafOf, node>>

\* Mutant: the pod is untracked and its booking forgotten.
OnPodDeleteUntracksOnly(p) ==
  /\ <<seen[p], node[p]>> \in {<<"bound", "ended">>, <<"none", "deleted">>}
  /\ seen' = [seen EXCEPT ![p] = node[p]]
  /\ UNCHANGED <<engineVars, phase, leafOf, node>>

\* onPodDelete, and onPodUpsert of a pod in a terminal phase.  A pod that was
\* never bound is not tracked, and nothing is released.
OnPodDelete(p) ==
  /\ <<seen[p], node[p]>> \in {<<"bound", "ended">>, <<"none", "deleted">>}
  /\ IF p \in Tracked THEN ObserveDeleted(p) ELSE UNCHANGED engineVars
  /\ seen' = [seen EXCEPT ![p] = node[p]]
  /\ UNCHANGED <<phase, leafOf, node>>

-----------------------------------------------------------------------------
SchedulingStep(p) == PreFilter(p) \/ NoNodeFits(p) \/ ReservePlugin(p) \/ Dequeue(p)

BindingStep(p) ==
  \/ PreBind(p)
  \/ OtherPluginRejects(p)
  \/ Bind(p)
  \/ BindFails(p)
  \/ PostBind(p)
  \/ UnreservePlugin(p)

ClusterStep(p) == Create(p) \/ PodEnds(p)

InformerStep(p) == OnPodUpsert(p) \/ OnPodDelete(p)

\* The gang plugin admits a gang; its PodGroup goes away or times out.
GangStep(g) ==
  /\ \/ \E prio \in Priorities : AdmitGangWW(g, GangQueue[g], prio)
     \/ ReleaseGang(g)
  /\ UNCHANGED cycleVars

CycleNext ==
  \/ \E p \in Pods : SchedulingStep(p) \/ BindingStep(p) \/ InformerStep(p) \/ ClusterStep(p)
  \/ \E g \in Gangs : GangStep(g)

\* The tree is in place and nothing is booked on it.
StartedInit ==
  /\ tree \in Trees
  /\ allocated = [q \in Paths |-> Zero]
  /\ allocating = [q \in Paths |-> Zero]
  /\ held = {}
  /\ book = [p \in Pods |-> NoBook]
  /\ gangBook = [g \in Gangs |-> NoLeaf]
  /\ holBids = [q \in Paths |-> NoBid]
  /\ phase = [p \in Pods |-> IF p \in Late THEN "absent" ELSE "queued"]
  /\ leafOf = [p \in Pods |-> NoLeaf]
  /\ node = [p \in Pods |-> "none"]
  /\ seen = [p \in Pods |-> "none"]

CycleSpec == StartedInit /\ [][CycleNext]_vars

\* Every goroutine that has something to do gets to do it: an attempt runs to
\* its end once it has started, and the informer delivers what happened, to the
\* coordinator and to the scheduler (strongly fair, since a delivery does not
\* wait for the pod to be between two attempts).
Fairness == \A p \in Pods :
  /\ WF_vars(ReservePlugin(p) \/ NoNodeFits(p))
  /\ SF_vars(Dequeue(p))
  /\ WF_vars(BindingStep(p))
  /\ WF_vars(InformerStep(p))

FairCycleSpec == CycleSpec /\ Fairness

-----------------------------------------------------------------------------
(* Properties.                                                             *)

\* The shape of the cycle's state; an attempt that passed PreFilter has its leaf.
CycleTypeOK ==
  /\ phase \in [Pods -> Phases]
  /\ \A p \in Pods : phase[p] \notin {"absent", "queued", "done"} => Bookable(tree, leafOf[p])
  /\ leafOf \in [Pods -> Paths \cup {NoLeaf}]
  /\ node \in [Pods -> PodStates]
  /\ seen \in [Pods -> PodStates]

\* A pod that is running, or that PreBind has let through.
Cleared(p) == phase[p] = "binding" \/ node[p] = "bound"

ClearedPods == {p \in Pods : Cleared(p)}

\* What the pods of C, placed on the leaves lf, take of queue q.
Footprints(C, lf, q, d) ==
  Total([p \in Pods |-> IF p \in C /\ q \in WalkUp(lf[p]) THEN Footprint[p][d] ELSE 0])

ClearedUse(q, d) ==
  Footprints(ClearedPods, leafOf, q, d) + ChargedGangs(held, gangBook, q, d)

\* The hard cap.  PreFilter's check and Reserve are two steps, and a gang may be
\* admitted between them; PreBind must catch the pod that this puts over max.
\* On a tree that does not change, what runs or is cleared to bind, together
\* with the room held for gangs, never exceeds the max of any queue, whatever
\* the interleaving of binding cycles, gang admissions and informer events.
ClearedWithinMax ==
  \A q \in tree.nodes : \A d \in DOMAIN tree.max[q] : ClearedUse(q, d) <= tree.max[q][d]

\* Per-account limits.  The gate of PreFilter counts every pod of the group that
\* exists, and pods are created at any time, so of two pods of the group that are between their check and their
\* bind the later one has counted the earlier one: what the accounts of a limit
\* run, or are cleared to run, on a leaf is within the limit, but for pods that
\* were deleted before they could be bound.
AccountsWithinLimit ==
  \A q \in tree.nodes : \A lim \in Limits[q] : \A d \in DOMAIN lim.max :
    (\E e \in DOMAIN lim.max : lim.max[e] # 0) =>
      LET group == {p \in ClearedPods \cap Present : leafOf[p] = q /\ InSet(p, lim.sas)}
      IN  Total([p \in group |-> Observed[p][d]]) <= lim.max[d]

\* The overshoot that remains is one pod: if a queue's accounted usage is over
\* its max, a single reservation whose pod PreBind has not let through accounts
\* for the excess.  Overshoots never pile up.
BoundedOvershoot ==
  \A q \in tree.nodes : \A d \in DOMAIN tree.max[q] :
    \/ Used[q][d] <= tree.max[q][d]
    \/ \E p \in Pods : /\ phase[p] \in {"assumed", "failing"}
                       /\ q \in WalkUp(leafOf[p])
                       /\ Used[q][d] - Footprint[p][d] <= tree.max[q][d]

\* A pod that is running or cleared to bind is booked, on the leaf and with the
\* footprint PreFilter resolved, whichever of PostBind and the informer ran
\* first; and a pod with no attempt under way and no node is not booked.
BookedAsScheduled ==
  \A p \in Pods :
    /\ Cleared(p) => /\ book[p].state \in {"reserved", "committed"}
                     /\ book[p].leaf = leafOf[p] /\ book[p].req = Footprint[p]
    /\ (phase[p] = "queued" /\ node[p] # "bound") => book[p] = NoBook

\* Capacity comes back.  An overshoot does not last: again and again every queue is
\* within its max, because PreBind turns the offending pod down and Unreserve
\* follows.  And nothing leaks: once a pod is gone its booking is released for good.
CapacityComesBack ==
  /\ []<>(\A q \in tree.nodes : WithinMax(tree, Used, q))
  /\ \A p \in Pods : (node[p] \in {"ended", "deleted"}) ~> [](book[p] = NoBook)
=============================================================================
