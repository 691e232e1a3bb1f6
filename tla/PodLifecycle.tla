---------------------------- MODULE PodLifecycle ----------------------------
(***************************************************************************)
(* The coordinator's part in a pod's quota (pkg/framework/coordinator.go,  *)
(* nodelife.go), composed with the capacity plugin's cycle: the pod and    *)
(* node informer handlers, the rebuild with its re-seeding, and the ledger *)
(* garbage collector.  Each is a goroutine of its own that takes several   *)
(* locks in turn, so each is broken up where it lets go of one; the pod    *)
(* handler, the node handler, the rebuild loop and the collector each do   *)
(* one thing at a time.                                                    *)
(*                                                                         *)
(* The module is about pods.  The gang half of a rebuild (recoverGangs)    *)
(* and of a sweep (GCGangs) touches no pod booking, and is left out.       *)
(*                                                                         *)
(* Faults, each enabled by its name in Faults: a bind whose reply is lost; *)
(* a watch gap, after which the informer re-lists and a pod that came and  *)
(* went is seen only as gone; the deletion of the node under a running     *)
(* pod; and the crash and restart of the scheduler process.                *)
(***************************************************************************)
EXTENDS CapacityCycle

CONSTANT Faults   \* the faults that may happen

ASSUME FaultsAssumption ==
  Faults \subseteq {"bindReplyLost", "watchGap", "nodeDeleted", "crash"}

VARIABLES
  tracked,     \* Coordinator.tracked
  podHandler,  \* what the pod handler is in the middle of
  nodeHandler, \* what the node handler is in the middle of
  rebuilder,   \* what the rebuild loop is in the middle of
  sweep,       \* the live set the collector has listed, or NoSweep
  orphans,     \* the pods released because their node was deleted
  swept        \* the tracked pods a sweep has released, and nobody booked since

handlerVars == <<tracked, podHandler, nodeHandler, rebuilder, sweep, orphans, swept>>
lifeVars == <<vars, handlerVars>>

Idle == [op |-> "idle"]
NoSweep == [op |-> "idle"]

LifeInit ==
  /\ Init
  /\ phase = [p \in Pods |-> IF p \in Late THEN "absent" ELSE "queued"]
  /\ leafOf = [p \in Pods |-> NoLeaf]
  /\ node = [p \in Pods |-> "none"]
  /\ seen = [p \in Pods |-> "none"]
  /\ tracked = {}
  /\ podHandler = Idle
  /\ nodeHandler = Idle
  /\ rebuilder = Idle
  /\ sweep = NoSweep
  /\ orphans = {}
  /\ swept = {}

-----------------------------------------------------------------------------
(* The scheduler and the cluster.                                          *)

\* The API server binds the pod, the scheduler is told of a failure.
BindReplyLost(p) ==
  /\ "bindReplyLost" \in Faults
  /\ phase[p] = "binding" /\ node[p] = "none"
  /\ node' = [node EXCEPT ![p] = "bound"]
  /\ To(p, "failing")
  /\ UNCHANGED <<engineVars, leafOf, seen, handlerVars>>

SchedulerStep(p) ==
  /\ SchedulingStep(p) \/ BindingStep(p) \/ ClusterStep(p)
  /\ UNCHANGED handlerVars

-----------------------------------------------------------------------------
(* onPodUpsert, onPodDelete and releaseNodePods.                           *)

\* An add or an update of a bound pod; only an untracked one is acted on.
TrackPod(p) ==
  /\ podHandler = Idle
  /\ seen[p] \in {"none", "bound"} /\ node[p] \in {"bound", "ended"}
  /\ seen' = [seen EXCEPT ![p] = "bound"]
  /\ IF p \in tracked THEN UNCHANGED <<tracked, podHandler>>
     ELSE /\ tracked' = tracked \cup {p}
          /\ podHandler' = [op |-> "resolve", pod |-> p]
  /\ UNCHANGED <<engineVars, phase, leafOf, node, nodeHandler, rebuilder, sweep, orphans, swept>>

ResolvePod ==
  /\ podHandler.op = "resolve"
  /\ LET p == podHandler.pod
         leaf == IF tree = NoTree THEN NoLeaf ELSE Resolve(tree, Identity[p])
     IN  podHandler' = IF leaf = NoLeaf THEN Idle
                       ELSE [op |-> "observe", pod |-> p, leaf |-> leaf]
  /\ UNCHANGED <<vars, tracked, nodeHandler, rebuilder, sweep, orphans, swept>>

ObservePod ==
  /\ podHandler.op = "observe"
  /\ ObserveBound(podHandler.pod, podHandler.leaf, Observed[podHandler.pod])
  /\ podHandler' = Idle
  /\ UNCHANGED <<cycleVars, tracked, nodeHandler, rebuilder, sweep, orphans, swept>>

\* Mutant: the entry stays in the tracked map.
UntrackPodKeeps(p) ==
  /\ podHandler = Idle
  /\ <<seen[p], node[p]>> \in {<<"bound", "ended">>, <<"none", "deleted">>}
  /\ seen' = [seen EXCEPT ![p] = node[p]]
  /\ podHandler' = IF p \in tracked THEN [op |-> "release", pod |-> p] ELSE Idle
  /\ UNCHANGED <<engineVars, phase, leafOf, node, tracked, nodeHandler, rebuilder, sweep, orphans, swept>>

\* A delete, or an update to a terminal phase.  After a watch gap it may be the
\* first event the handler gets of a pod that was bound meanwhile.
UntrackPod(p) ==
  /\ podHandler = Idle
  /\ <<seen[p], node[p]>> \in {<<"bound", "ended">>, <<"none", "deleted">>}
       \cup (IF "watchGap" \in Faults THEN {<<"none", "ended">>} ELSE {})
  /\ seen' = [seen EXCEPT ![p] = node[p]]
  /\ tracked' = tracked \ {p}
  /\ podHandler' = IF p \in tracked THEN [op |-> "release", pod |-> p] ELSE Idle
  /\ UNCHANGED <<engineVars, phase, leafOf, node, nodeHandler, rebuilder, sweep, orphans, swept>>

ReleasePod ==
  /\ podHandler.op = "release"
  /\ ObserveDeleted(podHandler.pod)
  /\ podHandler' = Idle
  /\ UNCHANGED <<cycleVars, tracked, nodeHandler, rebuilder, sweep, orphans, swept>>

\* The node of a bound pod is deleted and the node handler comes to that pod;
\* for a pod that is not tracked it does nothing.
UntrackOrphan(p) ==
  /\ "nodeDeleted" \in Faults
  /\ nodeHandler = Idle
  /\ node[p] = "bound" /\ p \in tracked \ orphans
  /\ orphans' = orphans \cup {p}
  /\ tracked' = tracked \ {p}
  /\ nodeHandler' = [op |-> "release", pod |-> p]
  /\ UNCHANGED <<vars, podHandler, rebuilder, sweep, swept>>

ReleaseOrphan ==
  /\ nodeHandler.op = "release"
  /\ ObserveDeleted(nodeHandler.pod)
  /\ nodeHandler' = Idle
  /\ UNCHANGED <<cycleVars, tracked, podHandler, rebuilder, sweep, orphans, swept>>

-----------------------------------------------------------------------------
(* rebuild: the engine swaps trees, then the tracked pods are listed, then *)
(* each is observed again.  A spec that does not assemble changes nothing. *)

SwapTree(t, H) ==
  /\ rebuilder = Idle
  /\ Rebuild(t, H)
  /\ rebuilder' = [op |-> "list"]
  /\ UNCHANGED <<cycleVars, tracked, podHandler, nodeHandler, sweep, orphans, swept>>

ListTracked ==
  /\ rebuilder.op = "list"
  /\ rebuilder' = [op |-> "reseed", todo |-> tracked]
  /\ UNCHANGED <<vars, tracked, podHandler, nodeHandler, sweep, orphans, swept>>

ReseedPod(p) ==
  LET leaf == Resolve(tree, Identity[p])
  IN  /\ rebuilder.op = "reseed" /\ p \in rebuilder.todo
      /\ IF leaf # NoLeaf THEN ObserveBound(p, leaf, Observed[p]) ELSE UNCHANGED engineVars
      /\ rebuilder' = [op |-> "reseed", todo |-> rebuilder.todo \ {p}]
      /\ swept' = swept \ {p}
      /\ UNCHANGED <<cycleVars, tracked, podHandler, nodeHandler, sweep, orphans>>

ReseedDone ==
  /\ rebuilder.op = "reseed" /\ rebuilder.todo = {}
  /\ rebuilder' = Idle
  /\ UNCHANGED <<vars, tracked, podHandler, nodeHandler, sweep, orphans, swept>>

-----------------------------------------------------------------------------
(* gcStaleLedgers.                                                         *)

\* Mutant: pods in a terminal phase count as live.
GCListTerminal ==
  /\ sweep = NoSweep
  /\ sweep' = [op |-> "run", live |-> Present \cup {p \in Pods : node[p] = "ended"}]
  /\ UNCHANGED <<vars, tracked, podHandler, nodeHandler, rebuilder, orphans, swept>>

GCList ==
  /\ sweep = NoSweep
  /\ \E store \in Stores : sweep' = [op |-> "run", live |-> store]
  /\ UNCHANGED <<vars, tracked, podHandler, nodeHandler, rebuilder, orphans, swept>>

GCRun ==
  /\ sweep.op = "run"
  /\ IF tree = NoTree THEN UNCHANGED engineVars ELSE GCBookings(sweep.live)
  /\ sweep' = NoSweep
  /\ swept' = swept \cup (tracked \ sweep.live)
  /\ UNCHANGED <<cycleVars, tracked, podHandler, nodeHandler, rebuilder, orphans>>

-----------------------------------------------------------------------------
(* The process dies and another one starts: ledgers, tree and tracked map  *)
(* are empty (NewEngine), the informer lists the pods that are there, and  *)
(* the scheduler queues those that have no node.                           *)

Restart ==
  /\ "crash" \in Faults
  /\ tree' = NoTree
  /\ allocated' = [q \in Paths |-> Zero]
  /\ allocating' = [q \in Paths |-> Zero]
  /\ held' = {}
  /\ book' = [p \in Pods |-> NoBook]
  /\ gangBook' = [g \in Gangs |-> NoLeaf]
  /\ holBids' = [q \in Paths |-> NoBid]
  /\ phase' = [p \in Pods |-> IF phase[p] = "absent" THEN "absent"
                                ELSE IF node[p] = "none" THEN "queued" ELSE "done"]
  /\ leafOf' = [p \in Pods |-> NoLeaf]
  /\ seen' = [p \in Pods |-> IF node[p] = "bound" THEN "none" ELSE node[p]]
  /\ tracked' = {}
  /\ podHandler' = Idle /\ nodeHandler' = Idle /\ rebuilder' = Idle
  /\ sweep' = NoSweep
  /\ swept' = {}
  /\ UNCHANGED <<node, orphans>>

-----------------------------------------------------------------------------
PodHandlerStep ==
  \/ \E p \in Pods : TrackPod(p) \/ UntrackPod(p)
  \/ ResolvePod \/ ObservePod \/ ReleasePod

RebuildLoop == ListTracked \/ (\E p \in Pods : ReseedPod(p)) \/ ReseedDone

LifeNext ==
  \/ \E p \in Pods : SchedulerStep(p) \/ BindReplyLost(p) \/ UntrackOrphan(p)
  \/ \E t \in Trees, H \in SUBSET Gangs : SwapTree(t, H)
  \/ PodHandlerStep \/ ReleaseOrphan \/ RebuildLoop
  \/ GCList \/ GCRun \/ Restart

LifeSpec == LifeInit /\ [][LifeNext]_lifeVars

\* Every goroutine keeps running: attempts end, events are delivered, handlers
\* and the rebuild finish, and the collector's ticker fires.  Nothing is assumed
\* of pods, nodes, configuration changes and faults.
LifeFairness ==
  /\ \A p \in Pods : /\ WF_lifeVars((ReservePlugin(p) \/ NoNodeFits(p) \/ BindingStep(p))
                                    /\ UNCHANGED handlerVars)
                     /\ SF_lifeVars(Dequeue(p) /\ UNCHANGED handlerVars)
                     /\ WF_lifeVars(TrackPod(p) /\ seen[p] = "none")
                     /\ WF_lifeVars(UntrackPod(p))
  /\ WF_lifeVars(ResolvePod \/ ObservePod \/ ReleasePod)
  /\ WF_lifeVars(ReleaseOrphan)
  /\ WF_lifeVars(RebuildLoop)
  /\ WF_lifeVars(GCList)
  /\ WF_lifeVars(GCRun)

FairLifeSpec == LifeSpec /\ LifeFairness

-----------------------------------------------------------------------------
(* Properties.                                                             *)

\* The shape of the coordinator's state; it tracks the pods it has seen bound
\* and not yet seen go.
LifeTypeOK ==
  /\ phase \in [Pods -> Phases]
  /\ tracked \subseteq {p \in Pods : seen[p] = "bound"}
  /\ orphans \subseteq Pods /\ swept \subseteq Pods
  /\ podHandler.op \in {"idle", "resolve", "observe", "release"}
  /\ nodeHandler.op \in {"idle", "release"}
  /\ rebuilder.op \in {"idle", "list", "reseed"}

\* A running pod the coordinator tracks is charged to a queue, as confirmed
\* usage, whatever rebuilds, lost replies and retries it went through, once the
\* handler and the rebuild in progress are through.  Only a sweep whose list is
\* older than the pod takes its booking, and then the next rebuild restores it.
\* The tracked entry is written before the tree is read, so a rebuild that the
\* handler does not see lists the pod, and one that does not list it is seen by
\* the handler (coordinator.go:619-654, 464-507).
TrackedAreCharged ==
  (podHandler = Idle /\ rebuilder = Idle) =>
     \A p \in tracked \ (orphans \cup swept) :
        (node[p] = "bound" /\ tree # NoTree /\ Resolve(tree, Identity[p]) # NoLeaf)
           => book[p].state = "committed"

\* Leaks heal.  However the delete of a pod was missed or raced with a rebuild,
\* its booking is eventually released for good.
LeaksHeal ==
  \A p \in Pods : (node[p] \in {"ended", "deleted"}) ~> [](book[p] = NoBook)
=============================================================================
