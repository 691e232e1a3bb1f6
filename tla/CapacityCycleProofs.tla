------------------------ MODULE CapacityCycleProofs ------------------------
(***************************************************************************)
(* The hard cap, for any pods, gangs, dimensions and trees: on a tree that *)
(* does not change, what runs or is cleared to bind is within every max.   *)
(* CInv says what a pod's phase means for its booking.                     *)
(***************************************************************************)
EXTENDS CapacityCycle, EngineProofs

\* A leaf is for Zenon unless it names another prover: arithmetic is for SMT.
USE ZenonT(30)

Bound(p) == node[p] \in {"bound", "ended"}

\* The pod is booked on the leaf and with the footprint PreFilter resolved.
Booked(p) ==
  /\ book[p] \in BookRec
  /\ book[p].leaf = leafOf[p] /\ book[p].req = Footprint[p]
  /\ Bookable(tree, leafOf[p])

\* What a pod's phase, its node and what the informer saw of it say of its
\* booking.
PodInv(p) ==
  /\ phase[p] \in {"absent", "queued", "filtered"} => book[p] = NoBook
  /\ phase[p] = "absent" => node[p] = "none"
  /\ phase[p] = "filtered" => Bookable(tree, leafOf[p])
  /\ phase[p] \in {"assumed", "binding", "failing"} => Booked(p) /\ book[p].state = "reserved"
  /\ Bound(p) <=> (phase[p] = "postbind" \/ (phase[p] = "done" /\ node[p] # "deleted"))
  /\ (Bound(p) /\ seen[p] # "ended") => Booked(p)
  /\ seen[p] = "bound" => Bound(p)
  /\ seen[p] = "ended" => node[p] = "ended" /\ book[p] = NoBook

CInv ==
  /\ IInv
  /\ tree \in Trees
  /\ CycleTypeOK
  /\ \A p \in Pods : PodInv(p)

-----------------------------------------------------------------------------
(* A pod's booking through the cycle.                                      *)

\* Placement answers with a leaf of the tree, or not at all.
LEMMA ResolvedIsLeaf ==
  ASSUME NEW t \in Trees, NEW id, Resolve(t, id) # NoLeaf
  PROVE  Bookable(t, Resolve(t, id)) /\ Resolve(t, id) \in Paths
<1> DEFINE leaves  == {q \in t.nodes : IsLeaf(t, q) /\ NamespaceOf(q) = id.ns}
           exact   == {q \in leaves : id.sa \in t.sas[q]}
           found   == IF exact # {} THEN exact ELSE leaves \cap t.dflt
<1>1. found # {} /\ Resolve(t, id) = CHOOSE q \in found : TRUE
  BY DEF Resolve
<1>2. Resolve(t, id) \in found
  <2> HIDE DEF found
  <2> QED BY <1>1
<1>3. Resolve(t, id) \in leaves
  BY <1>2
<1> QED BY <1>3 DEF Bookable, Paths

\* A step that concerns one pod keeps CInv when it keeps the engine's invariant
\* and that pod's.
LEMMA OnePodStep ==
  ASSUME CInv, NEW p \in Pods, IInv', tree' = tree,
         phase' \in [Pods -> Phases], leafOf' \in [Pods -> Paths \cup {NoLeaf}],
         node' \in [Pods -> PodStates], seen' \in [Pods -> PodStates],
         \A o \in Pods \ {p} : /\ phase'[o] = phase[o] /\ leafOf'[o] = leafOf[o]
                               /\ node'[o] = node[o] /\ seen'[o] = seen[o]
                               /\ book'[o] = book[o],
         PodInv(p)',
         phase'[p] \notin {"absent", "queued", "done"} => Bookable(tree, leafOf'[p])
  PROVE  CInv'
<1>1. CycleTypeOK'
  BY DEF CInv, CycleTypeOK
<1>2. ASSUME NEW o \in Pods, o # p PROVE PodInv(o)'
  <2>1. PodInv(o)
    BY DEF CInv
  <2> QED BY <1>2, <2>1 DEF PodInv, Booked, Bound
<1> QED BY <1>1, <1>2 DEF CInv

\* What CInv says of one pod.
LEMMA CycleFacts ==
  ASSUME CInv, NEW p \in Pods
  PROVE  /\ IInv /\ tree \in Trees /\ PodInv(p)
         /\ phase \in [Pods -> Phases] /\ leafOf \in [Pods -> Paths \cup {NoLeaf}]
         /\ node \in [Pods -> PodStates] /\ seen \in [Pods -> PodStates]
         /\ phase[p] \notin {"absent", "queued", "done"} => Bookable(tree, leafOf[p]) /\ leafOf[p] \in Paths
         /\ book \in Books
         /\ Footprint[p] \in Requests[p] /\ Footprint[p] \in Vec /\ Observed[p] \in Requests[p]
BY SMT, CycleAssumption, LedgerAssumption, PodFacts DEF CInv, CycleTypeOK, Bookable, Paths

\* A step that leaves the engine alone keeps the engine's invariant.
LEMMA EngineStutter ==
  ASSUME IInv, UNCHANGED engineVars
  PROVE  IInv' /\ tree' = tree /\ book' = book
BY PodStutter DEF engineVars

\* Capacity.PreFilter keeps CInv.
LEMMA PreFilterStep ==
  ASSUME CInv, NEW p \in Pods, PreFilter(p)
  PROVE  CInv'
<1>1. IInv' /\ tree' = tree /\ book' = book
  BY CycleFacts, EngineStutter DEF PreFilter
<1>2. Bookable(tree, leafOf'[p]) /\ leafOf'[p] \in Paths
  BY CycleFacts, ResolvedIsLeaf DEF PreFilter
<1>3. PodInv(p)'
  BY <1>1, <1>2, CycleFacts DEF PreFilter, To, PodInv, Booked, Bound, Phases
<1> QED BY <1>1, <1>2, <1>3, CycleFacts, OnePodStep DEF PreFilter, To, Phases

\* The steps that move a pod's attempt on and book nothing keep CInv.
LEMMA PhaseStep ==
  ASSUME CInv, NEW p \in Pods,
         Create(p) \/ NoNodeFits(p) \/ Dequeue(p) \/ PreBind(p) \/ OtherPluginRejects(p) \/ BindFails(p)
  PROVE  CInv'
<1>0. UNCHANGED <<engineVars, leafOf, node, seen>>
  BY DEF Create, NoNodeFits, Dequeue, PreBind, OtherPluginRejects, BindFails
<1>1. IInv' /\ tree' = tree /\ book' = book
  BY <1>0, CycleFacts, EngineStutter
<1>2. PICK ph \in Phases :
        /\ To(p, ph)
        /\ \/ phase[p] \in {"absent", "filtered"} /\ ph = "queued"
           \/ phase[p] = "queued" /\ node[p] # "none" /\ ph = "done"
           \/ phase[p] = "assumed" /\ ph \in {"binding", "failing"}
           \/ phase[p] = "binding" /\ ph = "failing"
  BY DEF Create, NoNodeFits, Dequeue, PreBind, OtherPluginRejects, BindFails, Phases
<1>3. phase' \in [Pods -> Phases] /\ phase'[p] = ph /\ \A o \in Pods \ {p} : phase'[o] = phase[o]
  BY <1>2, CycleFacts DEF To
<1>4. node[p] \in PodStates
  BY CycleFacts
<1>5. PodInv(p)'
  BY <1>0, <1>1, <1>2, <1>3, <1>4, CycleFacts DEF PodInv, Booked, Bound, PodStates
<1> QED BY <1>0, <1>1, <1>2, <1>3, <1>5, CycleFacts, OnePodStep

\* The API server's steps, bind and the pod's end, keep CInv.
LEMMA BindOrEndStep ==
  ASSUME CInv, NEW p \in Pods, Bind(p) \/ PodEnds(p)
  PROVE  CInv'
<1>0. UNCHANGED <<engineVars, leafOf, seen>>
  BY DEF Bind, PodEnds
<1>1. IInv' /\ tree' = tree /\ book' = book
  BY <1>0, CycleFacts, EngineStutter
<1>2. CASE Bind(p)
  <2>1. PodInv(p)'
    BY <1>0, <1>1, <1>2, CycleFacts DEF Bind, To, PodInv, Booked, Bound
  <2> QED BY <1>0, <1>1, <1>2, <2>1, CycleFacts, OnePodStep DEF Bind, To, Phases, PodStates
<1>3. CASE PodEnds(p)
  <2>1. PodInv(p)'
    BY <1>0, <1>1, <1>3, CycleFacts DEF PodEnds, PodInv, Booked, Bound
  <2> QED BY <1>0, <1>1, <1>3, <2>1, CycleFacts, OnePodStep DEF PodEnds, PodStates
<1> QED BY <1>2, <1>3

\* Capacity.Reserve keeps CInv: the pod that passed PreFilter is not booked yet.
LEMMA ReservePluginStep ==
  ASSUME CInv, NEW p \in Pods, ReservePlugin(p)
  PROVE  CInv'
<1>1. /\ book[p] = NoBook /\ Bookable(tree, leafOf[p]) /\ leafOf[p] \in Paths
      /\ Reserve(p, leafOf[p], Footprint[p]) /\ phase[p] = "filtered"
  BY CycleFacts DEF ReservePlugin, PodInv
<1>2. IInv'
  BY <1>1, CycleFacts, ReserveStep
<1>3. /\ tree' = tree
      /\ book' = [book EXCEPT ![p] = [state |-> "reserved", leaf |-> leafOf[p], req |-> Footprint[p]]]
  BY <1>1 DEF Reserve
<1>4. /\ book'[p] = [state |-> "reserved", leaf |-> leafOf[p], req |-> Footprint[p]]
      /\ \A o \in Pods \ {p} : book'[o] = book[o]
  BY <1>3, CycleFacts DEF Books
<1>5. book'[p] \in BookRec
  BY SMT, <1>1, <1>4, CycleFacts DEF BookRec
<1>6. PodInv(p)'
  BY SMT, <1>1, <1>3, <1>4, <1>5, CycleFacts DEF ReservePlugin, To, PodInv, Booked, Bound
<1> QED BY <1>1, <1>2, <1>3, <1>4, <1>6, CycleFacts, OnePodStep DEF ReservePlugin, To, Phases

\* Capacity.Unreserve keeps CInv: a failing attempt still has its reservation.
LEMMA UnreservePluginStep ==
  ASSUME CInv, NEW p \in Pods, UnreservePlugin(p)
  PROVE  CInv'
<1>1. Unreserve(p) /\ phase[p] = "failing" /\ book[p].state = "reserved"
  BY CycleFacts DEF UnreservePlugin, PodInv
<1>2. IInv'
  BY <1>1, CycleFacts, UnreserveStep
<1>3. tree' = tree /\ book' = [book EXCEPT ![p] = NoBook]
  BY <1>1 DEF Unreserve
<1>4. book'[p] = NoBook /\ \A o \in Pods \ {p} : book'[o] = book[o]
  BY <1>3, CycleFacts DEF Books
<1>5. PodInv(p)'
  BY <1>1, <1>3, <1>4, CycleFacts DEF UnreservePlugin, To, PodInv, Booked, Bound
<1> QED BY <1>1, <1>2, <1>3, <1>4, <1>5, CycleFacts, OnePodStep DEF UnreservePlugin, To, Phases

\* Confirming a booking keeps its leaf and its footprint.
LEMMA ConfirmedBook ==
  ASSUME IInv, NEW p \in Pods, book[p] \in BookRec,
         book' = book \/ book' = [book EXCEPT ![p].state = "committed"]
  PROVE  /\ book'[p] \in BookRec
         /\ book'[p].leaf = book[p].leaf /\ book'[p].req = book[p].req
         /\ \A o \in Pods \ {p} : book'[o] = book[o]
BY SMT, PodFacts DEF Books, BookRec

\* Capacity.PostBind keeps CInv, whether the informer was faster or not.
LEMMA PostBindStep ==
  ASSUME CInv, NEW p \in Pods, PostBind(p)
  PROVE  CInv'
<1>1. Commit(p) /\ phase[p] = "postbind" /\ UNCHANGED <<leafOf, node, seen>>
  BY DEF PostBind
<1>2. IInv' /\ tree' = tree
  BY <1>1, CycleFacts, CommitStep DEF Commit
<1>3. book' = book \/ book' = [book EXCEPT ![p].state = "committed"]
  BY <1>1 DEF Commit, Confirm
<1>4. \A o \in Pods \ {p} : book'[o] = book[o]
  BY <1>3, CycleFacts DEF Books
<1>5. book[p] = NoBook => book' = book
  BY SMT, <1>1 DEF Commit, NoBook
<1>6. PodInv(p)'
  <2>1. Booked(p) => Booked(p)'
    BY <1>1, <1>2, <1>3, CycleFacts, ConfirmedBook DEF Booked
  <2> QED BY <1>1, <1>2, <1>5, <2>1, CycleFacts DEF PostBind, To, PodInv, Bound
<1> QED BY <1>1, <1>2, <1>4, <1>6, CycleFacts, OnePodStep DEF PostBind, To, Phases

\* Coordinator.onPodUpsert keeps CInv: the pod is booked already.
LEMMA OnPodUpsertStep ==
  ASSUME CInv, NEW p \in Pods, OnPodUpsert(p)
  PROVE  CInv'
<1> DEFINE leaf == Resolve(tree, Identity[p])
<1>1. Bound(p) /\ seen[p] = "none" /\ Booked(p) /\ UNCHANGED <<phase, leafOf, node>>
  BY CycleFacts DEF OnPodUpsert, PodInv, Bound
<1>2. IInv' /\ tree' = tree /\ (book' = book \/ book' = [book EXCEPT ![p].state = "committed"])
  <2>1. CASE leaf = NoLeaf
    BY <2>1, CycleFacts, EngineStutter DEF OnPodUpsert
  <2>2. CASE leaf # NoLeaf
    <3>1. ObserveBound(p, leaf, Observed[p]) /\ leaf \in Paths
      BY <2>2, CycleFacts, ResolvedIsLeaf DEF OnPodUpsert
    <3>2. book[p] # NoBook
      BY SMT, <1>1 DEF Booked, BookRec, NoBook
    <3> HIDE DEF leaf
    <3>3. IInv'
      BY <3>1, CycleFacts, ObserveBoundStep
    <3>4. tree' = tree /\ (book' = book \/ book' = [book EXCEPT ![p].state = "committed"])
      BY <3>1, <3>2 DEF ObserveBound, Confirm
    <3> QED BY <3>3, <3>4
  <2> QED BY <2>1, <2>2
<1>3. Booked(p)' /\ \A o \in Pods \ {p} : book'[o] = book[o]
  BY <1>1, <1>2, CycleFacts, ConfirmedBook DEF Booked
<1>4. seen' = [seen EXCEPT ![p] = "bound"]
  BY DEF OnPodUpsert
<1>5. PodInv(p)'
  BY <1>1, <1>3, <1>4, CycleFacts DEF PodInv, Bound
<1> QED BY <1>1, <1>2, <1>3, <1>4, <1>5, CycleFacts, OnePodStep DEF PodStates

\* Coordinator.onPodDelete keeps CInv.
LEMMA OnPodDeleteStep ==
  ASSUME CInv, NEW p \in Pods, OnPodDelete(p)
  PROVE  CInv'
<1>1. /\ UNCHANGED <<phase, leafOf, node>> /\ seen' = [seen EXCEPT ![p] = node[p]]
      /\ \/ seen[p] = "bound" /\ node[p] = "ended" /\ ObserveDeleted(p)
         \/ seen[p] = "none" /\ node[p] = "deleted" /\ UNCHANGED engineVars
  BY DEF OnPodDelete, Tracked
<1>2. IInv' /\ tree' = tree
  BY <1>1, CycleFacts, EngineStutter, ObserveDeletedStep DEF ObserveDeleted
<1>3. /\ \A o \in Pods \ {p} : book'[o] = book[o]
      /\ IF node[p] = "ended" THEN book'[p] = NoBook ELSE book'[p] = book[p]
  BY <1>1, CycleFacts, EngineStutter DEF ObserveDeleted, Books
<1>4. PodInv(p)'
  BY <1>1, <1>2, <1>3, CycleFacts DEF PodInv, Bound, Booked
<1> QED BY <1>1, <1>2, <1>3, <1>4, CycleFacts, OnePodStep DEF PodStates

\* Admitting and releasing gangs keeps CInv.
LEMMA GangStepKeeps ==
  ASSUME CInv, NEW g \in Gangs, GangStep(g)
  PROVE  CInv'
<1>1. UNCHANGED <<cycleVars, tree, book>>
  BY DEF GangStep, AdmitGangWW, YieldToBid, RefuseGang, EnterGang, ClaimBid, Hold, treeVars,
         ReleaseGang, ReleaseGangs
<1>2. IInv'
  <2>1. IInv /\ GangQueue[g] \in Paths
    BY CycleAssumption DEF CInv
  <2>2. ASSUME NEW prio \in Priorities, AdmitGangWW(g, GangQueue[g], prio) PROVE IInv'
    BY <2>1, <2>2, AdmitGangWWStep
  <2>3. CASE ReleaseGang(g)
    BY <2>1, <2>3, ReleaseGangsStep DEF ReleaseGang
  <2> QED BY <2>2, <2>3 DEF GangStep
<1> QED BY <1>1, <1>2 DEF CInv, CycleTypeOK, PodInv, Booked, Bound, cycleVars

\* Every step of the cycle keeps CInv.
LEMMA CycleNextCInv ==
  ASSUME CInv, [CycleNext]_vars
  PROVE  CInv'
<1>1. CASE UNCHANGED vars
  <2>1. UNCHANGED engineVars /\ UNCHANGED cycleVars
    BY <1>1 DEF vars
  <2>2. IInv' /\ tree' = tree /\ book' = book
    BY <2>1, EngineStutter DEF CInv
  <2> QED BY <2>1, <2>2 DEF CInv, CycleTypeOK, PodInv, Booked, Bound, cycleVars
<1>2. ASSUME NEW p \in Pods, SchedulingStep(p) \/ BindingStep(p) \/ InformerStep(p) \/ ClusterStep(p)
      PROVE  CInv'
  BY <1>2, PreFilterStep, PhaseStep, BindOrEndStep, ReservePluginStep, UnreservePluginStep,
     PostBindStep, OnPodUpsertStep, OnPodDeleteStep
     DEF SchedulingStep, BindingStep, InformerStep, ClusterStep
<1>3. ASSUME NEW g \in Gangs, GangStep(g) PROVE CInv'
  BY <1>3, GangStepKeeps
<1> QED BY <1>1, <1>2, <1>3 DEF CycleNext

-----------------------------------------------------------------------------
(* Quota: what the cleared pods and the gangs take, against what is used.  *)

\* The footprints of a set of pods add up to a natural number.
LEMMA FootprintsType ==
  ASSUME NEW C, NEW lf, NEW q, NEW d \in Dims
  PROVE  /\ [p \in Pods |-> IF p \in C /\ q \in WalkUp(lf[p]) THEN Footprint[p][d] ELSE 0]
               \in [Pods -> Nat]
         /\ Footprints(C, lf, q, d) \in Nat
<1>1. [p \in Pods |-> IF p \in C /\ q \in WalkUp(lf[p]) THEN Footprint[p][d] ELSE 0]
         \in [Pods -> Nat]
  BY SMT, CycleAssumption, LedgerAssumption DEF Vec
<1> QED BY <1>1, TotalType, LedgerAssumption DEF Footprints

\* Fewer pods on the path of a queue take no more of it.
LEMMA FootprintsMonotone ==
  ASSUME NEW C, NEW lf, NEW C2, NEW lf2, NEW q, NEW d \in Dims,
         \A p \in Pods : (p \in C2 /\ q \in WalkUp(lf2[p])) => (p \in C /\ q \in WalkUp(lf[p]))
  PROVE  Footprints(C2, lf2, q, d) <= Footprints(C, lf, q, d)
<1> DEFINE w == [p \in Pods |-> IF p \in C /\ q \in WalkUp(lf[p]) THEN Footprint[p][d] ELSE 0]
           v == [p \in Pods |-> IF p \in C2 /\ q \in WalkUp(lf2[p]) THEN Footprint[p][d] ELSE 0]
<1>1. w \in [Pods -> Nat] /\ v \in [Pods -> Nat]
  BY SMT, CycleAssumption, LedgerAssumption DEF Vec
<1>2. \A p \in Pods : v[p] <= w[p]
  BY SMT, CycleAssumption, LedgerAssumption DEF Vec
<1>3. Total(w) = Footprints(C, lf, q, d) /\ Total(v) = Footprints(C2, lf2, q, d)
  BY DEF Footprints
<1> HIDE DEF w, v
<1>4. Total(v) <= Total(w)
  BY <1>1, <1>2, TotalMonotone, LedgerAssumption
<1> QED BY <1>3, <1>4

\* Fewer gangs on the path of a queue hold no more of it.
LEMMA ChargedGangsMonotone ==
  ASSUME NEW H, NEW gb, NEW H2, NEW gb2, NEW q, NEW d \in Dims,
         \A g \in Gangs : (g \in H2 /\ q \in WalkUp(gb2[g])) => (g \in H /\ q \in WalkUp(gb[g]))
  PROVE  ChargedGangs(H2, gb2, q, d) <= ChargedGangs(H, gb, q, d)
<1> DEFINE w == [g \in Gangs |-> IF g \in H /\ q \in WalkUp(gb[g]) THEN MinRes[g][d] ELSE 0]
           v == [g \in Gangs |-> IF g \in H2 /\ q \in WalkUp(gb2[g]) THEN MinRes[g][d] ELSE 0]
<1>1. w \in [Gangs -> Nat] /\ v \in [Gangs -> Nat]
  BY LedgerAssumption DEF Vec
<1>2. \A g \in Gangs : v[g] <= w[g]
  BY SMT, LedgerAssumption DEF Vec
<1>3. Total(w) = ChargedGangs(H, gb, q, d) /\ Total(v) = ChargedGangs(H2, gb2, q, d)
  BY DEF ChargedGangs
<1> HIDE DEF w, v
<1>4. Total(v) <= Total(w)
  BY <1>1, <1>2, TotalMonotone, LedgerAssumption
<1> QED BY <1>3, <1>4

\* Usage is a number, the sum of the two counters.
LEMMA UsedAt ==
  ASSUME IInv, NEW q \in Paths, NEW d \in Dims
  PROVE  /\ Used[q][d] = allocated[q][d] + allocating[q][d]
         /\ allocated[q][d] \in Int /\ allocating[q][d] \in Int /\ Used[q][d] \in Int
BY SMT DEF IInv, TypeOK, Used, Plus

\* Pods that are booked as scheduled, and the gangs, take no more than is used.
LEMMA BookedWithinUsed ==
  ASSUME IInv, NEW C \in SUBSET Pods, \A p \in C : Booked(p), NEW q \in Paths, NEW d \in Dims
  PROVE  Footprints(C, leafOf, q, d) + ChargedGangs(held, gangBook, q, d) <= Used[q][d]
<1> DEFINE f == [p \in Pods |-> IF p \in C /\ q \in WalkUp(leafOf[p]) THEN Footprint[p][d] ELSE 0]
           u == [p \in Pods |-> Charge(tree, book[p], "committed", q, d)]
           v == [p \in Pods |-> Charge(tree, book[p], "reserved", q, d)]
           w == [p \in Pods |-> IF book[p].state = "committed" THEN u[p] ELSE v[p]]
<1>0. book \in Books
  BY DEF IInv, TypeOK, Books
<1>1. f \in [Pods -> Nat] /\ u \in [Pods -> Nat] /\ v \in [Pods -> Nat]
  <2>1. f \in [Pods -> Nat]
    BY SMT, CycleAssumption, LedgerAssumption DEF Vec
  <2>2. u \in [Pods -> Nat] /\ v \in [Pods -> Nat]
    BY SMT, <1>0, ChargedPodsType
  <2> QED BY <2>1, <2>2
<1>2. w \in [Pods -> Nat]
  <2> HIDE DEF u, v
  <2> QED BY <1>1
<1>3. \A p \in Pods : (u[p] = w[p] /\ v[p] = 0) \/ (u[p] = 0 /\ v[p] = w[p])
  BY DEF Charge
<1>4. ASSUME NEW p \in Pods PROVE f[p] <= w[p]
  <2>1. CASE p \in C /\ q \in WalkUp(leafOf[p])
    <3>1. Booked(p) /\ f[p] = Footprint[p][d]
      BY <2>1
    <3>2. w[p] = Footprint[p][d]
      BY <2>1, <3>1 DEF Booked, Charge, BookRec
    <3>3. f[p] \in Nat
      BY <1>1
    <3> HIDE DEF f, w
    <3> QED BY SMT, <3>1, <3>2, <3>3
  <2>2. CASE ~(p \in C /\ q \in WalkUp(leafOf[p]))
    <3>1. f[p] = 0
      BY <2>2
    <3>2. w[p] \in Nat
      BY <1>2
    <3> HIDE DEF f, w
    <3> QED BY SMT, <3>1, <3>2
  <2> QED BY <2>1, <2>2
<1>5. /\ Total(f) = Footprints(C, leafOf, q, d)
      /\ Total(u) = ChargedPods(tree, book, "committed", q, d)
      /\ Total(v) = ChargedPods(tree, book, "reserved", q, d)
  BY DEF Footprints, ChargedPods
<1> HIDE DEF f, u, v, w
<1>6. Total(w) = Total(u) + Total(v) /\ Total(f) <= Total(w)
  BY SMT, <1>1, <1>2, <1>3, <1>4, TotalSplit, TotalMonotone, LedgerAssumption
<1>7. Total(f) \in Nat /\ Total(u) \in Nat /\ Total(v) \in Nat
  BY <1>1, TotalType, LedgerAssumption
<1>8. /\ allocated[q][d] = Total(u)
      /\ allocating[q][d] = Total(v) + ChargedGangs(held, gangBook, q, d)
  BY <1>5 DEF IInv, CountersAgree
<1>9. ChargedGangs(held, gangBook, q, d) \in Nat
  BY ChargedGangsType
<1> QED BY SMTT(30), <1>5, <1>6, <1>7, <1>8, <1>9, UsedAt

\* A bounded dimension of a queue of the tree: everything about it is a number.
LEMMA BoundedDim ==
  ASSUME tree \in Trees, NEW q \in tree.nodes, NEW d \in DOMAIN tree.max[q]
  PROVE  q \in Paths /\ d \in Dims /\ tree.max[q][d] \in Nat
BY TreeAssumption DEF Paths, IsLimit

\* Cleared pods are booked as scheduled.
LEMMA ClearedAreBooked ==
  ASSUME CInv
  PROVE  \A p \in ClearedPods : Booked(p)
BY CycleFacts DEF ClearedPods, Cleared, PodInv, Bound

\* Cleared pods and gangs take no more than is used.
LEMMA ClearedWithinUsed ==
  ASSUME CInv, NEW q \in Paths, NEW d \in Dims
  PROVE  /\ ClearedUse(q, d) <= Used[q][d]
         /\ Footprints(ClearedPods, leafOf, q, d) \in Nat
         /\ ChargedGangs(held, gangBook, q, d) \in Nat
         /\ ClearedUse(q, d) \in Nat
<1>1. IInv /\ ClearedPods \in SUBSET Pods
  BY DEF CInv, ClearedPods
<1>2. /\ Footprints(ClearedPods, leafOf, q, d) \in Nat
      /\ ChargedGangs(held, gangBook, q, d) \in Nat
  BY FootprintsType, ChargedGangsType
<1>3. Footprints(ClearedPods, leafOf, q, d) + ChargedGangs(held, gangBook, q, d) <= Used[q][d]
  BY <1>1, ClearedAreBooked, BookedWithinUsed
<1> QED BY SMT, <1>2, <1>3 DEF ClearedUse

\* The cap is kept at one queue when no pod and no gang joins its path.
LEMMA NobodyJoins ==
  ASSUME CInv, ClearedWithinMax, tree' = tree,
         NEW q \in tree.nodes, NEW d \in DOMAIN tree.max[q],
         \A p \in Pods : (p \in ClearedPods' /\ q \in WalkUp(leafOf'[p]))
                            => (p \in ClearedPods /\ q \in WalkUp(leafOf[p])),
         \A g \in Gangs : (g \in held' /\ q \in WalkUp(gangBook'[g]))
                            => (g \in held /\ q \in WalkUp(gangBook[g]))
  PROVE  ClearedUse(q, d)' <= tree.max[q][d]
<1>1. q \in Paths /\ d \in Dims /\ tree.max[q][d] \in Nat
  BY BoundedDim DEF CInv
<1>2. ASSUME NEW C2, NEW lf2,
             \A p \in Pods : (p \in C2 /\ q \in WalkUp(lf2[p]))
                                => (p \in ClearedPods /\ q \in WalkUp(leafOf[p]))
      PROVE  /\ Footprints(C2, lf2, q, d) <= Footprints(ClearedPods, leafOf, q, d)
             /\ Footprints(C2, lf2, q, d) \in Nat
  BY <1>1, <1>2, FootprintsMonotone, FootprintsType
<1>3. ASSUME NEW H2, NEW gb2,
             \A g \in Gangs : (g \in H2 /\ q \in WalkUp(gb2[g]))
                                => (g \in held /\ q \in WalkUp(gangBook[g]))
      PROVE  /\ ChargedGangs(H2, gb2, q, d) <= ChargedGangs(held, gangBook, q, d)
             /\ ChargedGangs(H2, gb2, q, d) \in Nat
  BY <1>1, <1>3, ChargedGangsMonotone, ChargedGangsType
<1>4. /\ Footprints(ClearedPods', leafOf', q, d) <= Footprints(ClearedPods, leafOf, q, d)
      /\ Footprints(ClearedPods', leafOf', q, d) \in Nat
  BY <1>2
<1>5. /\ ChargedGangs(held', gangBook', q, d) <= ChargedGangs(held, gangBook, q, d)
      /\ ChargedGangs(held', gangBook', q, d) \in Nat
  BY <1>3
<1>6. ClearedUse(q, d) <= tree.max[q][d]
  BY DEF ClearedWithinMax
<1>7. /\ Footprints(ClearedPods, leafOf, q, d) \in Nat
      /\ ChargedGangs(held, gangBook, q, d) \in Nat
  BY <1>1, ClearedWithinUsed
<1> QED BY SMTT(30), <1>1, <1>4, <1>5, <1>6, <1>7 DEF ClearedUse

\* The cap is kept when no cleared pod is new or moves and no gang is admitted.
LEMMA NobodyNew ==
  ASSUME CInv, ClearedWithinMax, tree' = tree,
         \A p \in Pods : p \in ClearedPods' => p \in ClearedPods /\ leafOf'[p] = leafOf[p],
         \A g \in Gangs : g \in held' => g \in held /\ gangBook'[g] = gangBook[g]
  PROVE  ClearedWithinMax'
<1>1. ASSUME NEW q \in tree.nodes, NEW d \in DOMAIN tree.max[q]
      PROVE  ClearedUse(q, d)' <= tree.max[q][d]
  BY <1>1, NobodyJoins
<1> QED BY <1>1 DEF ClearedWithinMax

\* PreBind keeps the cap: it clears a pod only if usage, which covers all that
\* is cleared and the pod itself, is within max on the pod's path.
LEMMA PreBindKeepsCap ==
  ASSUME CInv, ClearedWithinMax, NEW p \in Pods, PreBind(p)
  PROVE  ClearedWithinMax'
<1>1. /\ UNCHANGED <<engineVars, leafOf, node, seen>>
      /\ phase[p] = "assumed"
      /\ phase' = [phase EXCEPT ![p] = IF leafOf[p] \in tree.nodes /\ WithinMax(tree, Used, leafOf[p])
                                       THEN "binding" ELSE "failing"]
  BY DEF PreBind, To
<1>2. UNCHANGED <<tree, held, gangBook, leafOf>>
  BY <1>1 DEF engineVars
<1>3. \A o \in Pods \ {p} : o \in ClearedPods' => o \in ClearedPods
  BY <1>1, CycleFacts DEF ClearedPods, Cleared
<1>4. CASE p \notin ClearedPods'
  BY <1>2, <1>3, <1>4, NobodyNew
<1>5. CASE p \in ClearedPods'
  <2>1. WithinMax(tree, Used, leafOf[p])
    <3>1. phase'[p] = "binding"
      <4>1. node[p] # "bound"
        BY <1>1, CycleFacts DEF PodInv, Bound
      <4> QED BY <1>1, <1>5, <4>1 DEF ClearedPods, Cleared
    <3> QED BY <1>1, <3>1, CycleFacts
  <2>2. \A o \in ClearedPods' : Booked(o)
    BY <1>1, <1>3, CycleFacts, ClearedAreBooked DEF PodInv, ClearedPods
  <2>3. ASSUME NEW q \in tree.nodes, NEW d \in DOMAIN tree.max[q]
        PROVE  ClearedUse(q, d)' <= tree.max[q][d]
    <3>1. q \in Paths /\ d \in Dims /\ tree.max[q][d] \in Nat
      BY BoundedDim DEF CInv
    <3>2. CASE q \in WalkUp(leafOf[p])
      <4>1. Used[q][d] <= tree.max[q][d]
        BY <2>1, <3>2 DEF WithinMax
      <4>2. ASSUME NEW C \in SUBSET Pods, \A o \in C : Booked(o)
            PROVE  /\ Footprints(C, leafOf, q, d) + ChargedGangs(held, gangBook, q, d) <= Used[q][d]
                   /\ Footprints(C, leafOf, q, d) \in Nat
        BY <3>1, <4>2, BookedWithinUsed, FootprintsType DEF CInv
      <4>3. ClearedPods' \in SUBSET Pods
        BY DEF ClearedPods
      <4>4. /\ Footprints(ClearedPods', leafOf, q, d) + ChargedGangs(held, gangBook, q, d) <= Used[q][d]
            /\ Footprints(ClearedPods', leafOf, q, d) \in Nat
        BY <2>2, <4>2, <4>3
      <4>5. ChargedGangs(held, gangBook, q, d) \in Nat /\ Used[q][d] \in Int
        BY <3>1, ChargedGangsType, UsedAt DEF CInv
      <4>6. ClearedUse(q, d)' = Footprints(ClearedPods', leafOf, q, d)
                                + ChargedGangs(held, gangBook, q, d)
        BY <1>2 DEF ClearedUse
      <4> QED BY SMTT(30), <3>1, <4>1, <4>4, <4>5, <4>6
    <3>3. CASE q \notin WalkUp(leafOf[p])
      BY <1>2, <1>3, <3>3, NobodyJoins
    <3> QED BY <3>2, <3>3
  <2> QED BY <1>2, <2>3 DEF ClearedWithinMax
<1> QED BY <1>4, <1>5

\* Admitting a gang keeps the cap: the whole of minResources fits under max on
\* top of what is used, in every dimension it asks for.
LEMMA HoldKeepsCap ==
  ASSUME CInv, ClearedWithinMax, NEW g \in Gangs, NEW leaf \in Paths, ~Admitted(g), Hold(g, leaf),
         UNCHANGED cycleVars
  PROVE  ClearedWithinMax'
<1>1. /\ UNCHANGED <<tree, book>> /\ UNCHANGED <<phase, leafOf, node>>
      /\ held' = held \cup {g} /\ gangBook' = [gangBook EXCEPT ![g] = leaf]
      /\ CanFit(tree, Used, leaf, MinRes[g])
  BY DEF Hold, cycleVars
<1>2. IInv /\ g \notin held /\ gangBook \in [Gangs -> Paths \cup {NoLeaf}]
  BY DEF CInv, IInv, HeldGangsAreBound, TypeOK
<1>3. gangBook'[g] = leaf /\ \A x \in Gangs \ {g} : gangBook'[x] = gangBook[x]
  BY <1>1, <1>2
<1>4. ClearedPods' = ClearedPods
  BY <1>1 DEF ClearedPods, Cleared
<1>5. ASSUME NEW q \in tree.nodes, NEW d \in DOMAIN tree.max[q]
      PROVE  ClearedUse(q, d)' <= tree.max[q][d]
  <2>1. q \in Paths /\ d \in Dims /\ tree.max[q][d] \in Nat
    BY BoundedDim DEF CInv
  <2>2. ASSUME NEW gb2, \A x \in Gangs \ {g} : gb2[x] = gangBook[x]
        PROVE  ChargedGangs(held \cup {g}, gb2, q, d)
                 = ChargedGangs(held, gangBook, q, d)
                   + (IF q \in WalkUp(gb2[g]) THEN MinRes[g][d] ELSE 0)
    BY SMTT(30), <1>2, <2>1, <2>2, ChargedGangsAdd
  <2>3. ChargedGangs(held', gangBook', q, d)
          = ChargedGangs(held, gangBook, q, d) + (IF q \in WalkUp(leaf) THEN MinRes[g][d] ELSE 0)
    BY <1>1, <1>3, <2>2
  <2>4. ClearedUse(q, d)' = Footprints(ClearedPods, leafOf, q, d) + ChargedGangs(held', gangBook', q, d)
    BY <1>1, <1>4 DEF ClearedUse
  <2>5. /\ ClearedUse(q, d) <= Used[q][d] /\ ClearedUse(q, d) \in Nat
        /\ Footprints(ClearedPods, leafOf, q, d) \in Nat
        /\ ChargedGangs(held, gangBook, q, d) \in Nat
    BY <2>1, ClearedWithinUsed
  <2>6. ClearedUse(q, d) <= tree.max[q][d]
    BY DEF ClearedWithinMax
  <2>7. MinRes[g][d] \in Nat /\ Used[q][d] \in Int
    BY <1>2, <2>1, UsedAt, LedgerAssumption DEF Vec
  <2>8. ClearedUse(q, d) = Footprints(ClearedPods, leafOf, q, d) + ChargedGangs(held, gangBook, q, d)
    BY DEF ClearedUse
  <2>9. CASE q \in WalkUp(leaf) /\ MinRes[g][d] > 0
    <3>1. Used[q][d] + MinRes[g][d] <= tree.max[q][d]
      BY <1>1, <2>9 DEF CanFit
    <3>2. (IF q \in WalkUp(leaf) THEN MinRes[g][d] ELSE 0) = MinRes[g][d]
      BY <2>9
    <3>3. ClearedUse(q, d)' = Footprints(ClearedPods, leafOf, q, d)
                               + (ChargedGangs(held, gangBook, q, d) + MinRes[g][d])
      BY <2>3, <2>4, <3>2
    <3> QED BY SMTT(30), <2>1, <2>5, <2>7, <2>8, <3>1, <3>3
  <2>10. CASE ~(q \in WalkUp(leaf) /\ MinRes[g][d] > 0)
    <3>1. (IF q \in WalkUp(leaf) THEN MinRes[g][d] ELSE 0) = 0
      BY SMT, <2>7, <2>10
    <3>2. ChargedGangs(held', gangBook', q, d) = ChargedGangs(held, gangBook, q, d)
      BY SMTT(30), <2>3, <2>5, <3>1
    <3> QED BY <2>4, <2>6, <2>8, <3>2
  <2> QED BY <2>9, <2>10
<1> QED BY <1>1, <1>5 DEF ClearedWithinMax

\* A step of a gang keeps the cap.
LEMMA GangStepKeepsCap ==
  ASSUME CInv, ClearedWithinMax, NEW g \in Gangs, GangStep(g)
  PROVE  ClearedWithinMax'
<1>1. UNCHANGED cycleVars /\ GangQueue[g] \in Paths
  BY CycleAssumption DEF GangStep
<1>2. ClearedPods' = ClearedPods /\ leafOf' = leafOf
  BY <1>1 DEF ClearedPods, Cleared, cycleVars
<1>3. CASE ReleaseGang(g)
  BY <1>2, <1>3, NobodyNew DEF ReleaseGang, ReleaseGangs
<1>4. ASSUME NEW prio \in Priorities, AdmitGangWW(g, GangQueue[g], prio) PROVE ClearedWithinMax'
  <2>1. CASE UNCHANGED <<treeVars, book, gangBook>>
    BY <1>2, <2>1, NobodyNew DEF treeVars
  <2>2. CASE Hold(g, GangQueue[g])
    BY <1>1, <1>4, <2>2, HoldKeepsCap DEF AdmitGangWW
  <2> QED BY <1>4, <2>1, <2>2 DEF AdmitGangWW, YieldToBid, RefuseGang, EnterGang, ClaimBid
<1> QED BY <1>3, <1>4 DEF GangStep

\* The other steps of a pod clear nobody, so they keep the cap.
LEMMA OtherStepKeepsCap ==
  ASSUME CInv, ClearedWithinMax, NEW p \in Pods,
         \/ SchedulingStep(p) \/ OtherPluginRejects(p) \/ Bind(p) \/ BindFails(p)
         \/ PostBind(p) \/ UnreservePlugin(p) \/ InformerStep(p) \/ ClusterStep(p)
  PROVE  ClearedWithinMax'
<1>1. UNCHANGED <<tree, held, gangBook>>
  BY DEF SchedulingStep, PreFilter, NoNodeFits, ReservePlugin, Dequeue, Reserve, OtherPluginRejects,
         Bind, BindFails, PostBind, Commit, UnreservePlugin, Unreserve, InformerStep, OnPodUpsert,
         ObserveBound, OnPodDelete, ObserveDeleted, ClusterStep, Create, PodEnds, engineVars
<1>2. phase \in [Pods -> Phases] /\ node \in [Pods -> PodStates] /\ PodInv(p)
  BY CycleFacts
<1>3. \A o \in Pods : o \in ClearedPods' => o \in ClearedPods /\ leafOf'[o] = leafOf[o]
  <2>1. CASE PreFilter(p)
    BY <1>2, <2>1, CycleFacts DEF PreFilter, To, ClearedPods, Cleared, PodInv, Bound
  <2>2. CASE Bind(p) \/ PodEnds(p)
    BY <1>2, <2>2 DEF Bind, PodEnds, To, ClearedPods, Cleared
  <2>3. CASE InformerStep(p)
    BY <2>3 DEF InformerStep, OnPodUpsert, OnPodDelete, ClearedPods, Cleared
  <2>4. CASE \/ Create(p) \/ NoNodeFits(p) \/ ReservePlugin(p) \/ Dequeue(p) \/ OtherPluginRejects(p)
             \/ BindFails(p) \/ PostBind(p) \/ UnreservePlugin(p)
    BY <1>2, <2>4 DEF Create, NoNodeFits, ReservePlugin, Dequeue, OtherPluginRejects, BindFails, PostBind,
                      UnreservePlugin, To, ClearedPods, Cleared
  <2> QED BY <2>1, <2>2, <2>3, <2>4 DEF SchedulingStep, ClusterStep
<1> QED BY <1>1, <1>3, NobodyNew

\* Every step of the cycle keeps the cap.
LEMMA NextKeepsCap ==
  ASSUME CInv, ClearedWithinMax, [CycleNext]_vars
  PROVE  ClearedWithinMax'
<1>1. CASE UNCHANGED vars
  <2>1. UNCHANGED <<tree, held, gangBook, phase, leafOf, node>>
    BY <1>1 DEF vars, engineVars, cycleVars
  <2>2. ClearedPods' = ClearedPods
    BY <2>1 DEF ClearedPods, Cleared
  <2> QED BY <2>1, <2>2, NobodyNew
<1>2. ASSUME NEW p \in Pods, SchedulingStep(p) \/ BindingStep(p) \/ InformerStep(p) \/ ClusterStep(p)
      PROVE  ClearedWithinMax'
  BY <1>2, PreBindKeepsCap, OtherStepKeepsCap DEF BindingStep
<1>3. ASSUME NEW g \in Gangs, GangStep(g) PROVE ClearedWithinMax'
  BY <1>3, GangStepKeepsCap
<1> QED BY <1>1, <1>2, <1>3 DEF CycleNext

\* At the start nobody is booked and nobody is cleared.
LEMMA StartCInv ==
  ASSUME StartedInit
  PROVE  CInv /\ ClearedWithinMax
<1>1. IInv
  BY InitIInv DEF StartedInit, EmptyLedgers
<1>2. CInv
  BY <1>1 DEF StartedInit, CInv, CycleTypeOK, PodInv, Bound, Phases, PodStates
<1>3. ASSUME NEW q \in tree.nodes, NEW d \in DOMAIN tree.max[q] PROVE ClearedUse(q, d) <= tree.max[q][d]
  <2>1. q \in Paths /\ d \in Dims /\ tree.max[q][d] \in Nat
    BY BoundedDim DEF StartedInit
  <2>2. ClearedUse(q, d) <= Used[q][d] /\ ClearedUse(q, d) \in Nat
    BY <1>2, <2>1, ClearedWithinUsed
  <2>3. Used[q][d] = 0
    BY SMTT(30), <2>1 DEF StartedInit, Used, Plus, Zero
  <2> QED BY SMT, <2>1, <2>2, <2>3
<1> QED BY <1>2, <1>3 DEF ClearedWithinMax

\* The inductive invariant of the cycle.
THEOREM CycleInvariant == CycleSpec => [](CInv /\ ClearedWithinMax)
<1>1. StartedInit => CInv /\ ClearedWithinMax
  BY StartCInv
<1>2. (CInv /\ ClearedWithinMax) /\ [CycleNext]_vars => (CInv /\ ClearedWithinMax)'
  BY CycleNextCInv, NextKeepsCap
<1> QED BY <1>1, <1>2, PTL DEF CycleSpec

\* The hard cap of queue.go: whatever the interleaving of scheduling, binding,
\* gang admission and informer events, on one tree what runs or is cleared to
\* bind, with the room held for gangs, is within the max of every queue.
THEOREM CapHolds == CycleSpec => []ClearedWithinMax
BY CycleInvariant, PTL

\* Running pods are booked as PreFilter resolved them, whichever of PostBind and
\* the informer came first, and idle pods are not booked.
THEOREM BookedAsScheduledHolds == CycleSpec => []BookedAsScheduled
<1>1. CInv => BookedAsScheduled
  <2> SUFFICES ASSUME CInv, NEW p \in Pods
               PROVE  /\ Cleared(p) => /\ book[p].state \in {"reserved", "committed"}
                                       /\ book[p].leaf = leafOf[p] /\ book[p].req = Footprint[p]
                      /\ (phase[p] = "queued" /\ node[p] # "bound") => book[p] = NoBook
    BY DEF BookedAsScheduled
  <2> QED BY CycleFacts DEF PodInv, Booked, Bound, Cleared, BookRec
<1> QED BY <1>1, CycleInvariant, PTL

\* An attempt that has passed PreFilter has a leaf of the tree, and the cycle's
\* state keeps its shape.
THEOREM CycleTypeCorrect == CycleSpec => []CycleTypeOK
BY CycleInvariant, PTL DEF CInv
=============================================================================
