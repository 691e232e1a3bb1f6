---------------------------- MODULE QueueConfig ----------------------------
(***************************************************************************)
(* How Queue CRs and ResourceQuotas become the queue tree, and how a Queue *)
(* CR learns what became of it: the informers and the coalescing rebuild   *)
(* trigger (coordinator.go), validation and assembly (pkg/admission,       *)
(* pkg/controller/queue), the last-good tree, and the status and the drain *)
(* finalizer of queuestatus.go.                                            *)
(*                                                                         *)
(* A CR is named <<namespace, name>>.  The object is a record of its spec, *)
(* whether it is being deleted, whether it has the drain finalizer, and    *)
(* the status last written.                                                *)
(***************************************************************************)
EXTENDS QueueTree

CONSTANTS
  Queues,     \* the names Queue CRs may have: <<namespace, name>>
  SpecsOf,    \* name -> the specs its CR may be given
  Starts,     \* the CRs there are at first: partial functions from names to specs
  Quotas,     \* namespace -> the envelopes its ResourceQuotas may amount to
  Tenants,    \* the pods that come to be charged to queues
  TenantIdentity, \* pod -> [ns, sa]
  MaxEdits    \* bound: writes by the owners of queues and quotas

Namespaces == {q[1] : q \in Queues}

ASSUME QueueConfigAssumption ==
  /\ \A q \in Queues : \A s \in SpecsOf[q] : IsLimit(s.max) /\ IsLimit(s.guaranteed)
  /\ \A ns \in Namespaces : \A e \in Quotas[ns] : IsLimit(e)
  /\ MaxEdits \in Nat

VARIABLES
  cr,        \* name -> the Queue CR as the API server has it, or Gone
  quota,     \* namespace -> the envelope its ResourceQuotas amount to
  crStore,   \* name -> the CR in the informer's store, or Gone
  rqStore,   \* namespace -> the envelope in the informer's store
  unhandled, \* what the stores have taken in and the handlers have not seen
  pending,   \* is there a token in rebuildCh
  loop,      \* where rebuildLoop is
  listed,    \* the CRs the rebuild that is under way has listed
  snapshot,  \* the published tree, or NoTree
  booked,    \* pod -> the leaf it is charged to, NoLeaf, or Absent
  visit,     \* the Queue CR that reconcileQueue has decided on, or NoVisit
  edits

configVars == <<cr, quota, crStore, rqStore, unhandled, pending, loop, listed, snapshot, booked, visit, edits>>

Gone == [deleting |-> FALSE, fin |-> FALSE, status |-> [path |-> NoLeaf, phase |-> "gone"]]
NoTree == [nodes |-> {}]
NoVisit == [queue |-> NoLeaf]
Absent == <<"absent">>

\* A CR as its owner creates it.
Fresh(spec) == [spec |-> spec, deleting |-> FALSE, fin |-> FALSE,
                status |-> [path |-> NoLeaf, phase |-> "", leaf |-> FALSE]]

-----------------------------------------------------------------------------
(* Validation and assembly.                                                *)

\* admission.ValidateQueue: the four rules.
ValidateQueue(q, spec) ==
  /\ spec.parent # q[2]
  /\ spec.parent # "dotted.name"
  /\ spec.mode \in {"", "absolute"}
  /\ "default" \notin spec.sas

\* What a build starts from: the specs of the CRs that are present and valid.
Accepted(crs) == {q \in Queues : crs[q] # Gone /\ ValidateQueue(q, crs[q].spec)}
SpecsIn(crs) == [q \in Accepted(crs) |-> crs[q].spec]

ParentOf(specs, q) == <<q[1], specs[q].parent>>

UnknownParent(specs) ==
  \E q \in DOMAIN specs : specs[q].parent # "" /\ ParentOf(specs, q) \notin DOMAIN specs

ChildrenOf(specs, name) == {q \in DOMAIN specs : ParentOf(specs, q) = name}

\* buildNamespace descends from the namespace's root along childrenOf: the paths
\* it gives to the CRs, level by level.
Built(specs) ==
  LET Level[n \in 0 .. Cardinality(DOMAIN specs)] ==
        IF n = 0
        THEN UNION {{<<c, <<"root", ns, c[2]>>>> : c \in ChildrenOf(specs, <<ns, "">>)} : ns \in Namespaces}
        ELSE UNION {{<<c, Append(b[2], c[2])>> : c \in ChildrenOf(specs, b[1])} : b \in Level[n - 1]}
  IN  UNION {Level[n] : n \in 0 .. Cardinality(DOMAIN specs)}

\* A bound of zero is dropped, as one that is not there.
FromQuantityMap(m) == [d \in {e \in DOMAIN m : m[e] # 0} |-> m[d]]

\* The tree that is assembled from what was built; a namespace has a node when it
\* has a CR, with the envelope as its max.
Assembled(specs, built, envelopes) ==
  LET paths == {n[2] : n \in built}
      spec == [p \in paths |-> specs[(CHOOSE n \in built : n[2] = p)[1]]]
      nodes == {RootPath} \cup {SubSeq(p, 1, 2) : p \in paths} \cup paths
  IN  [nodes |-> nodes,
       max |-> [p \in nodes |-> IF p \in paths THEN FromQuantityMap(spec[p].max)
                                ELSE IF Len(p) = 2 THEN envelopes[p[2]] ELSE <<>>],
       guaranteed |-> [p \in nodes |-> IF p \in paths THEN FromQuantityMap(spec[p].guaranteed)
                                       ELSE <<>>],
       sas |-> [p \in nodes |-> IF p \in paths THEN spec[p].sas \ {"*"} ELSE {}],
       dflt |-> {p \in paths : spec[p].dflt \/ "*" \in spec[p].sas}]

\* BuildSpec: the tree, or NoTree for an error.  A CR that is not reached from the
\* root of its namespace hangs in a cycle.
BuildSpec(specs, envelopes) ==
  LET built == Built(specs)
  IN  IF UnknownParent(specs) \/ {n[1] : n \in built} # DOMAIN specs THEN NoTree
      ELSE Assembled(specs, built, envelopes)

NewManager(t) == IF ValidBuild(t) /\ ValidatePlacement(t) THEN t ELSE NoTree

\* What rebuild makes of the CRs it has listed.
TreeOf(crs, envelopes) ==
  LET t == BuildSpec(SpecsIn(crs), envelopes)
  IN  IF t = NoTree THEN NoTree ELSE NewManager(t)

-----------------------------------------------------------------------------
(* The owners of queues and quotas.                                        *)

Edit ==
  /\ edits < MaxEdits
  /\ edits' = edits + 1
  /\ UNCHANGED <<crStore, rqStore, unhandled, pending, loop, listed, snapshot, booked, visit>>

CreateQueue(q, spec) ==
  /\ cr[q] = Gone
  /\ cr' = [cr EXCEPT ![q] = Fresh(spec)]
  /\ Edit /\ UNCHANGED quota

UpdateQueue(q, spec) ==
  /\ cr[q] # Gone /\ cr[q].spec # spec
  /\ cr' = [cr EXCEPT ![q].spec = spec]
  /\ Edit /\ UNCHANGED quota

\* With a finalizer the object stays, marked.
DeleteQueue(q) ==
  /\ cr[q] # Gone /\ ~cr[q].deleting
  /\ cr' = IF cr[q].fin THEN [cr EXCEPT ![q].deleting = TRUE] ELSE [cr EXCEPT ![q] = Gone]
  /\ Edit /\ UNCHANGED quota

SetQuota(ns, envelope) ==
  /\ quota[ns] # envelope
  /\ quota' = [quota EXCEPT ![ns] = envelope]
  /\ Edit /\ UNCHANGED cr

-----------------------------------------------------------------------------
(* Informers, the trigger and the rebuild.                                 *)

\* queueSpecChanged goes by the generation, which a new spec and a deletion bump
\* and a status or a finalizer does not.
Generation(obj) == IF obj = Gone THEN <<>> ELSE <<obj.spec, obj.deleting>>

InformQueue(q) ==
  /\ crStore[q] # cr[q]
  /\ crStore' = [crStore EXCEPT ![q] = cr[q]]
  /\ unhandled' = IF Generation(crStore[q]) # Generation(cr[q]) THEN unhandled \cup {q} ELSE unhandled
  /\ UNCHANGED <<cr, quota, rqStore, pending, loop, listed, snapshot, booked, visit, edits>>

InformQuota(ns) ==
  /\ rqStore[ns] # quota[ns]
  /\ rqStore' = [rqStore EXCEPT ![ns] = quota[ns]]
  /\ unhandled' = unhandled \cup {<<ns>>}
  /\ UNCHANGED <<cr, quota, crStore, pending, loop, listed, snapshot, booked, visit, edits>>

\* triggerRebuild: with a token in the channel already, nothing is added.
TriggerRebuild(x) ==
  /\ x \in unhandled
  /\ unhandled' = unhandled \ {x}
  /\ pending' = TRUE
  /\ UNCHANGED <<cr, quota, crStore, rqStore, loop, listed, snapshot, booked, visit, edits>>

\* rebuildLoop takes a token, and takes more of them during the debounce.
TakeToken ==
  /\ loop \in {"idle", "debounce"} /\ pending
  /\ pending' = FALSE
  /\ loop' = "debounce"
  /\ UNCHANGED <<cr, quota, crStore, rqStore, unhandled, listed, snapshot, booked, visit, edits>>

\* The debounce is over, or the caches have synced: rebuild lists the CRs.
ListQueues ==
  /\ loop \in {"start", "debounce"}
  /\ loop' = "build"
  /\ listed' = crStore
  /\ UNCHANGED <<cr, quota, crStore, rqStore, unhandled, pending, snapshot, booked, visit, edits>>

\* Mutant: what was booked stays booked.
RebookedNowhere(t, p) == booked[p]

\* Where a pod is charged after the swap: Engine.Rebuild drops what is booked on
\* a queue that is gone, reseedQueueAllocation books it where it resolves now.
Rebooked(t, p) ==
  IF booked[p] = Absent \/ booked[p] \in t.nodes THEN booked[p] ELSE Resolve(t, TenantIdentity[p])

\* Mutant: the tokens that came in during the rebuild are drained after it.
RebuildDraining ==
  LET t == TreeOf(listed, rqStore)
  IN  /\ loop = "build"
      /\ loop' = "idle" /\ pending' = FALSE
      /\ listed' = [q \in Queues |-> Gone]
      /\ IF t = NoTree THEN UNCHANGED <<snapshot, booked>>
         ELSE snapshot' = t /\ booked' = [p \in Tenants |-> Rebooked(t, p)]
      /\ UNCHANGED <<cr, quota, crStore, rqStore, unhandled, visit, edits>>

\* The envelopes are read, the tree is built and swapped in; an error keeps the
\* last-good one.
Rebuild ==
  LET t == TreeOf(listed, rqStore)
  IN  /\ loop = "build"
      /\ loop' = "idle"
      /\ listed' = [q \in Queues |-> Gone]
      /\ IF t = NoTree THEN UNCHANGED <<snapshot, booked>>
         ELSE snapshot' = t /\ booked' = [p \in Tenants |-> Rebooked(t, p)]
      /\ UNCHANGED <<cr, quota, crStore, rqStore, unhandled, pending, visit, edits>>

-----------------------------------------------------------------------------
(* Pods, as far as they make a queue live.                                 *)

PodArrives(p) ==
  LET leaf == Resolve(snapshot, TenantIdentity[p])
  IN  /\ booked[p] = Absent /\ snapshot # NoTree /\ leaf # NoLeaf
      /\ booked' = [booked EXCEPT ![p] = leaf]
      /\ UNCHANGED <<cr, quota, crStore, rqStore, unhandled, pending, loop, listed, snapshot, visit, edits>>

PodEnds(p) ==
  /\ booked[p] # Absent
  /\ booked' = [booked EXCEPT ![p] = Absent]
  /\ UNCHANGED <<cr, quota, crStore, rqStore, unhandled, pending, loop, listed, snapshot, visit, edits>>

-----------------------------------------------------------------------------
(* reconcileQueue: what to do is decided on the informer's object and the  *)
(* tree, and written with the object's resourceVersion.                    *)

\* QueueManager.FindByNamespaceName.
FindByNamespaceName(q) ==
  {p \in snapshot.nodes : NamespaceOf(p) = q[1] /\ p[Len(p)] = q[2]}

\* used is not empty: a pod is charged to a leaf at or below the path.
Live(path) == \E p \in Tenants : Bookable(snapshot, booked[p]) /\ path \in WalkUp(booked[p])

\* Mutant: the path is taken to go with the phase.
PatchedByPhase(u, status) == IF u.status.phase = status.phase THEN u ELSE [u EXCEPT !.status = status]

\* patchQueueStatus writes nothing when the path and the phase are the same.
Patched(u, status) ==
  IF u.status.path = status.path /\ u.status.phase = status.phase THEN u
  ELSE [u EXCEPT !.status = status]

StatusOf(u, path) ==
  [path |-> path, leaf |-> path # NoLeaf /\ IsLeaf(snapshot, path),
   phase |-> IF u.deleting THEN "Draining" ELSE IF path = NoLeaf THEN "Degraded" ELSE "Active"]

\* Mutant: a CR that is not in the tree never gets rid of its finalizer.
DecideInTree(u, path) ==
  IF ~u.deleting /\ ~u.fin THEN [u EXCEPT !.fin = TRUE]
  ELSE IF u.deleting /\ u.fin /\ path # NoLeaf /\ ~Live(path) THEN Gone
  ELSE Patched(u, StatusOf(u, path))

\* The object to write: with the finalizer, without it once the CR is drained
\* (and then it is gone), or with a new status.
Decide(u, path) ==
  IF ~u.deleting /\ ~u.fin THEN [u EXCEPT !.fin = TRUE]
  ELSE IF u.deleting /\ u.fin /\ (path = NoLeaf \/ ~Live(path)) THEN Gone
  ELSE Patched(u, StatusOf(u, path))

\* Where reconcileQueue finds the queue of a CR; several paths may match.
Found(q) ==
  LET found == FindByNamespaceName(q) IN IF found = {} THEN {NoLeaf} ELSE found

ReconcileQueue(q) ==
  /\ visit = NoVisit /\ snapshot # NoTree /\ crStore[q] # Gone
  /\ \E path \in Found(q) :
       LET obj == Decide(crStore[q], path)
       IN  obj # crStore[q] /\ visit' = [queue |-> q, read |-> crStore[q], obj |-> obj]
  /\ UNCHANGED <<cr, quota, crStore, rqStore, unhandled, pending, loop, listed, snapshot, booked, edits>>

\* Mutant: the update carries no resourceVersion.
WriteQueueBlindly ==
  /\ visit # NoVisit
  /\ visit' = NoVisit
  /\ cr' = [cr EXCEPT ![visit.queue] = visit.obj]
  /\ UNCHANGED <<quota, crStore, rqStore, unhandled, pending, loop, listed, snapshot, booked, edits>>

\* The update is refused when the object is no longer the one that was read.
WriteQueue ==
  /\ visit # NoVisit
  /\ visit' = NoVisit
  /\ cr' = IF cr[visit.queue] = visit.read THEN [cr EXCEPT ![visit.queue] = visit.obj] ELSE cr
  /\ UNCHANGED <<quota, crStore, rqStore, unhandled, pending, loop, listed, snapshot, booked, edits>>

-----------------------------------------------------------------------------
\* The scheduler starts with CRs that no scheduler has touched yet, in caches that
\* have synced; the handlers that added them have left a token.
ConfigInit ==
  /\ cr \in {[q \in Queues |-> IF q \in DOMAIN f THEN Fresh(f[q]) ELSE Gone] : f \in Starts}
  /\ crStore = cr /\ listed = [q \in Queues |-> Gone]
  /\ quota = [ns \in Namespaces |-> <<>>] /\ rqStore = quota
  /\ unhandled = {} /\ pending = (\E q \in Queues : cr[q] # Gone) /\ loop = "start"
  /\ snapshot = NoTree
  /\ booked = [p \in Tenants |-> Absent]
  /\ visit = NoVisit
  /\ edits = 0

ConfigNext ==
  \/ \E q \in Queues : \/ \E s \in SpecsOf[q] : CreateQueue(q, s) \/ UpdateQueue(q, s)
                       \/ DeleteQueue(q) \/ InformQueue(q) \/ ReconcileQueue(q)
  \/ \E ns \in Namespaces : InformQuota(ns) \/ \E e \in Quotas[ns] : SetQuota(ns, e)
  \/ \E x \in unhandled : TriggerRebuild(x)
  \/ TakeToken \/ ListQueues \/ Rebuild \/ WriteQueue
  \/ \E p \in Tenants : PodArrives(p) \/ PodEnds(p)

ConfigSpec == ConfigInit /\ [][ConfigNext]_configVars

-----------------------------------------------------------------------------
(* Fairness.  Informers, handlers and the rebuild loop run; the reclaim     *)
(* loop visits every Queue CR of the store in every tick, so one with work  *)
(* to do does not wait behind the others for ever.  The owners and the pods *)
(* are under no obligation.                                                 *)

ReconcileDue(q) ==
  /\ visit = NoVisit /\ snapshot # NoTree /\ crStore[q] # Gone
  /\ \E path \in Found(q) : Decide(crStore[q], path) # crStore[q]

ConfigFairness ==
  /\ \A q \in Queues : WF_configVars(InformQueue(q))
  /\ \A ns \in Namespaces : WF_configVars(InformQuota(ns))
  /\ WF_configVars(\E x \in unhandled : TriggerRebuild(x))
  /\ WF_configVars(TakeToken) /\ WF_configVars(ListQueues) /\ WF_configVars(WriteQueue)
  /\ []<>(loop # "build") \/ []<><<Rebuild>>_configVars
  /\ \A q \in Queues : <>[]~ReconcileDue(q) \/ []<><<ReconcileQueue(q)>>_configVars

FairConfigSpec == ConfigSpec /\ ConfigFairness

-----------------------------------------------------------------------------
(* Properties.                                                             *)

\* The published tree is one NewManager accepts, and every pod is charged to a
\* queue of that tree or to none: a swap leaves no booking behind on a path that
\* is gone (engine.go:186-188, coordinator.go:577-580).
ConfigTypeOK ==
  /\ snapshot # NoTree => ValidBuild(snapshot) /\ ValidatePlacement(snapshot)
  /\ booked \in [Tenants -> {Absent, NoLeaf} \cup snapshot.nodes]
  /\ loop \in {"start", "idle", "debounce", "build"} /\ pending \in BOOLEAN
  /\ unhandled \subseteq Queues \cup {<<ns>> : ns \in Namespaces}
  /\ edits \in 0..MaxEdits

\* No change is lost in the coalescing trigger, the debounce or between listing
\* the CRs and reading the quotas (coordinator.go:307-312, 352-388): when the
\* owners are done, the tree is the one their last word builds, unless that one
\* has an error and the last-good tree stays.  And syncQueueStatuses
\* (queuestatus.go:17-20): the path and the phase of every Queue CR come to be those
\* of the tree, and stay them; before there is a tree nothing is written.
ConfigConverges ==
  /\ <>[](TreeOf(cr, quota) \in {NoTree, snapshot})
  /\ <>[]\A q \in Queues : cr[q] # Gone /\ snapshot # NoTree =>
           /\ cr[q].status.path \in Found(q)
           /\ cr[q].status.phase = IF cr[q].deleting THEN "Draining"
                                   ELSE IF NoLeaf \in Found(q) THEN "Degraded" ELSE "Active"

\* The safety half of the first: whenever rebuildLoop waits, with no token in its channel
\* and no handler on its way to triggerRebuild, the tree is what the stores of this
\* moment build, or they have an error.  A token that is coalesced, dropped during
\* the debounce or sent while a rebuild is under way stands for no change that the
\* next listing misses, and the updates queueSpecChanged ignores change no tree.
NoChangeLost ==
  loop = "idle" /\ ~pending /\ unhandled = {} => TreeOf(crStore, rqStore) \in {NoTree, snapshot}

\* The scheduler's own writes never undo an owner's (queuestatus.go:34-89): whatever
\* it decided on an object that has changed meanwhile, a step that is no edit leaves
\* the spec and the deletion of every CR as they are, brings none back, and lets
\* none go but one that its owner deleted.
OwnersWordStands ==
  [][edits' = edits =>
       \A q \in Queues : cr'[q] # cr[q] =>
         /\ cr[q] # Gone
         /\ cr'[q] = Gone => cr[q].deleting
         /\ cr'[q] # Gone => Generation(cr'[q]) = Generation(cr[q])]_configVars

\* "Remove once a deleting queue has drained so the API can garbage-collect it"
\* (queuestatus.go:46-47): a CR that is deleted does not wait for ever without
\* live allocation, whether it is in the tree or was never admitted to it.
DrainedQueuesGo ==
  \A q \in Queues : []<>~(cr[q].deleting /\ snapshot # NoTree /\ \A path \in FindByNamespaceName(q) : ~Live(path))
=============================================================================
