------------------------ MODULE CompositionProofs ------------------------
(***************************************************************************)
(* The capacity cycle seen from the modules around it, for any pods,       *)
(* gangs, trees and footprints.                                            *)
(*                                                                         *)
(* From the outside it implements atomic admission.                        *)
(*                                                                         *)
(* Inside the pod's life, a running pod the coordinator tracks stays       *)
(* charged, with rebuilds, sweeps, lost replies, watch gaps, node          *)
(* deletions and crashes in between; and the counters of the queues follow *)
(* the ledgers all the while.  While a handler or the rebuild loop is      *)
(* under way a tracked pod may be without its booking.  The invariant says *)
(* who will book it: the pod handler, which has yet to read the tree or    *)
(* has read a leaf of it, or the rebuild loop, which has yet to list the   *)
(* pods or has listed this one.                                            *)
(***************************************************************************)
EXTENDS PodLifecycle, CapacityRefinement, CapacityCycleProofs

\* A leaf is for Zenon unless it names another prover: arithmetic is for SMT.
USE ZenonT(30)

-----------------------------------------------------------------------------
(* Refinement: what an attempt under way has resolved.                     *)

\* An attempt under way carries the leaf that placement names, and a gang is
\* held where its members resolve to.
RInv ==
  /\ CInv /\ ClearedWithinMax
  /\ \A p \in Pods : phase[p] \in {"filtered", "assumed", "binding", "failing"}
                        => leafOf[p] = Resolve(tree, Identity[p])
  /\ \A g \in held : gangBook[g] = GangQueue[g]

-----------------------------------------------------------------------------
(* The operators of QueueTree that AtomicAdmission sees are the cycle's.   *)

\* Placement and the shape of the tree mean the same on both sides.
LEMMA SameTree ==
  ASSUME NEW t, NEW q, NEW id
  PROVE  /\ Atomic!WalkUp(q) = WalkUp(q)
         /\ Atomic!IsLeaf(t, q) = IsLeaf(t, q)
         /\ Atomic!Bookable(t, q) = Bookable(t, q)
         /\ Atomic!NoLeaf = NoLeaf
         /\ Atomic!NamespaceOf(q) = NamespaceOf(q)
<1>1. Atomic!WalkUp(q) = WalkUp(q)
  BY DEF WalkUp, Atomic!WalkUp
<1>2. Atomic!Children(t, q) = Children(t, q)
  BY DEF WalkUp, Atomic!WalkUp, Children, Atomic!Children
<1> QED BY <1>1, <1>2 DEF IsLeaf, Atomic!IsLeaf, Bookable, Atomic!Bookable, NoLeaf, Atomic!NoLeaf,
                          NamespaceOf, Atomic!NamespaceOf

\* Placement answers the same.
LEMMA SameResolve ==
  ASSUME NEW t, NEW id
  PROVE  Atomic!Resolve(t, id) = Resolve(t, id)
<1> DEFINE atomic == {q \in t.nodes : Atomic!IsLeaf(t, q) /\ Atomic!NamespaceOf(q) = id.ns}
           leaves == {q \in t.nodes : IsLeaf(t, q) /\ NamespaceOf(q) = id.ns}
           Chosen(S) == LET found == IF {q \in S : id.sa \in t.sas[q]} # {}
                                     THEN {q \in S : id.sa \in t.sas[q]} ELSE S \cap t.dflt
                        IN  IF <<"root", id.ns>> \in t.nodes /\ found # {}
                            THEN CHOOSE q \in found : TRUE ELSE <<>>
<1>1. atomic = leaves
  BY SameTree
<1>2. Atomic!Resolve(t, id) = Chosen(atomic)
  BY DEF Atomic!Resolve, Atomic!NoLeaf
<1>3. Resolve(t, id) = Chosen(leaves)
  BY DEF Resolve, NoLeaf
<1> HIDE DEF Chosen, atomic, leaves
<1> QED BY <1>1, <1>2, <1>3

\* What the mapped state takes of a queue is what the cleared pods and the held
\* gangs take of it.
LEMMA SameUse ==
  ASSUME NEW C, NEW lf, NEW H, NEW gb, NEW q, NEW d
  PROVE  Atomic!Use(PlacedOf(C, lf), ReservedOf(H, gb), q, d)
           = Footprints(C, lf, q, d) + ChargedGangs(H, gb, q, d)
<1>1. q \notin WalkUp(NoLeaf)
  BY SMT DEF WalkUp, NoLeaf
<1>2. [p \in Pods |-> IF q \in Atomic!WalkUp(PlacedOf(C, lf)[p]) THEN Footprint[p][d] ELSE 0]
        = [p \in Pods |-> IF p \in C /\ q \in WalkUp(lf[p]) THEN Footprint[p][d] ELSE 0]
  BY <1>1, SameTree DEF PlacedOf
<1>3. [g \in Gangs |-> IF q \in Atomic!WalkUp(ReservedOf(H, gb)[g]) THEN MinRes[g][d] ELSE 0]
        = [g \in Gangs |-> IF g \in H /\ q \in WalkUp(gb[g]) THEN MinRes[g][d] ELSE 0]
  BY <1>1, SameTree DEF ReservedOf
<1>4. ASSUME NEW w PROVE Atomic!Total(w) = Total(w)
  BY DEF Total, Atomic!Total, Cells, Atomic!Cells, Cardinality, Atomic!Cardinality
<1> QED BY <1>2, <1>3, <1>4 DEF Atomic!Use, Footprints, ChargedGangs

-----------------------------------------------------------------------------
(* Steps.                                                                  *)

\* Within the cap, the mapped state fits: the guard of atomic admission.
LEMMA FitsAfter ==
  ASSUME ClearedWithinMax', tree' = tree
  PROVE  Atomic!Fits(PlacedOf(ClearedPods', leafOf'), ReservedOf(held', gangBook'))
<1> SUFFICES ASSUME NEW q \in tree.nodes, NEW d \in DOMAIN tree.max[q]
             PROVE  Atomic!Use(PlacedOf(ClearedPods', leafOf'), ReservedOf(held', gangBook'), q, d)
                      <= tree.max[q][d]
  BY DEF Atomic!Fits
<1>1. ASSUME NEW C, NEW lf, NEW H, NEW gb
      PROVE  Atomic!Use(PlacedOf(C, lf), ReservedOf(H, gb), q, d)
               = Footprints(C, lf, q, d) + ChargedGangs(H, gb, q, d)
  BY SMT, SameUse
<1>2. Footprints(ClearedPods', leafOf', q, d) + ChargedGangs(held', gangBook', q, d) <= tree.max[q][d]
  BY DEF ClearedWithinMax, ClearedUse
<1> HIDE DEF ClearedPods
<1>3. Atomic!Use(PlacedOf(ClearedPods', leafOf'), ReservedOf(held', gangBook'), q, d)
        = Footprints(ClearedPods', leafOf', q, d) + ChargedGangs(held', gangBook', q, d)
  BY <1>1
<1> QED BY <1>2, <1>3

\* A step of one pod that leaves the tree and the gangs alone, and every other
\* pod where it is, is an admission, a withdrawal or invisible.
LEMMA OnePodRefines ==
  ASSUME RInv, ClearedWithinMax', NEW p \in Pods,
         UNCHANGED <<tree, held, gangBook>>,
         \A o \in Pods \ {p} : (o \in ClearedPods' <=> o \in ClearedPods) /\ leafOf'[o] = leafOf[o],
         p \in ClearedPods /\ p \in ClearedPods' => leafOf'[p] = leafOf[p],
         p \notin ClearedPods /\ p \in ClearedPods' =>
            leafOf'[p] = Resolve(tree, Identity[p]) /\ Bookable(tree, leafOf'[p])
  PROVE  [Atomic!AtomicNext]_<<tree, PlacedOf(ClearedPods, leafOf), ReservedOf(held, gangBook)>>
<1> DEFINE pl == PlacedOf(ClearedPods, leafOf)
           pl2 == PlacedOf(ClearedPods', leafOf')
<1>1. ReservedOf(held, gangBook)' = ReservedOf(held, gangBook) /\ pl' = pl2
  BY DEF ReservedOf, PlacedOf
<1>2. \A o \in Pods \ {p} : pl2[o] = pl[o]
  BY DEF PlacedOf
<1>3. pl \in [Pods -> {pl[o] : o \in Pods}] /\ DOMAIN pl2 = Pods /\ DOMAIN pl = Pods
  BY DEF PlacedOf
<1>4. pl2 = [pl EXCEPT ![p] = pl2[p]]
  BY <1>2, <1>3 DEF PlacedOf
<1>5. CASE p \in ClearedPods <=> p \in ClearedPods'
  <2>1. pl2[p] = pl[p]
    BY <1>5 DEF PlacedOf
  <2>2. pl2 = pl
    BY <1>4, <2>1 DEF PlacedOf
  <2> QED BY <1>1, <2>2
<1>6. CASE p \notin ClearedPods /\ p \in ClearedPods'
  <2>1. pl[p] = NoLeaf /\ pl2[p] = Resolve(tree, Identity[p]) /\ Bookable(tree, pl2[p])
    BY <1>6 DEF PlacedOf
  <2>2. Atomic!Fits(pl2, ReservedOf(held, gangBook))
    BY <1>1, FitsAfter DEF ReservedOf
  <2>3. Atomic!Resolve(tree, Identity[p]) = pl2[p] /\ Atomic!Bookable(tree, pl2[p]) /\ pl[p] = Atomic!NoLeaf
    BY <2>1, SameTree, SameResolve
  <2> HIDE DEF pl, pl2
  <2>4. Atomic!AdmitPod(p)
    BY <1>1, <1>4, <2>2, <2>3 DEF Atomic!AdmitPod, pl
  <2> QED BY <2>4 DEF Atomic!AtomicNext
<1>7. CASE p \in ClearedPods /\ p \notin ClearedPods'
  <2>1. pl[p] = leafOf[p] /\ pl2[p] = NoLeaf
    BY <1>7 DEF PlacedOf
  <2>2. leafOf[p] # NoLeaf
    BY <1>7, ClearedAreBooked, TreeAssumption DEF RInv, CInv, Booked, Bookable
  <2>3. NoLeaf = Atomic!NoLeaf
    BY DEF NoLeaf, Atomic!NoLeaf
  <2> HIDE DEF pl, pl2
  <2>4. Atomic!WithdrawPod(p)
    BY <1>1, <1>4, <2>1, <2>2, <2>3 DEF Atomic!WithdrawPod, pl
  <2> QED BY <2>4 DEF Atomic!AtomicNext
<1> QED BY <1>5, <1>6, <1>7

\* Every step of a pod is an admission, a withdrawal or invisible.
LEMMA PodRefines ==
  ASSUME RInv, ClearedWithinMax', NEW p \in Pods,
         SchedulingStep(p) \/ BindingStep(p) \/ InformerStep(p) \/ ClusterStep(p)
  PROVE  [Atomic!AtomicNext]_<<tree, PlacedOf(ClearedPods, leafOf), ReservedOf(held, gangBook)>>
<1>1. UNCHANGED <<tree, held, gangBook>>
  BY DEF SchedulingStep, PreFilter, NoNodeFits, ReservePlugin, Dequeue, Reserve, OtherPluginRejects,
         BindingStep, PreBind, Bind, BindFails, PostBind, Commit, UnreservePlugin, Unreserve,
         InformerStep, OnPodUpsert, ObserveBound, OnPodDelete, ObserveDeleted, ClusterStep,
         Create, PodEnds, engineVars
<1>2. /\ phase \in [Pods -> Phases] /\ node \in [Pods -> PodStates] /\ PodInv(p)
      /\ leafOf \in [Pods -> Paths \cup {NoLeaf}]
  BY CycleFacts DEF RInv, CInv, CycleTypeOK
<1>3. /\ \A o \in Pods \ {p} : (o \in ClearedPods' <=> o \in ClearedPods) /\ leafOf'[o] = leafOf[o]
      /\ p \in ClearedPods /\ p \in ClearedPods' => leafOf'[p] = leafOf[p]
      /\ p \notin ClearedPods /\ p \in ClearedPods' => phase[p] = "assumed" /\ leafOf'[p] = leafOf[p]
  <2>1. CASE PreFilter(p)
    BY <1>2, <2>1 DEF PreFilter, To, ClearedPods, Cleared, PodInv, Bound
  <2>2. CASE Bind(p) \/ PodEnds(p)
    BY <1>2, <2>2 DEF Bind, PodEnds, To, ClearedPods, Cleared
  <2>3. CASE InformerStep(p)
    BY <2>3 DEF InformerStep, OnPodUpsert, OnPodDelete, ClearedPods, Cleared
  <2>4. CASE \/ Create(p) \/ NoNodeFits(p) \/ ReservePlugin(p) \/ Dequeue(p) \/ OtherPluginRejects(p)
             \/ BindFails(p) \/ PostBind(p) \/ UnreservePlugin(p)
    BY <1>2, <2>4 DEF Create, NoNodeFits, ReservePlugin, Dequeue, OtherPluginRejects, BindFails, PostBind,
                      UnreservePlugin, To, ClearedPods, Cleared
  <2>5. CASE PreBind(p)
    BY <1>2, <2>5 DEF PreBind, To, ClearedPods, Cleared
  <2> QED BY <2>1, <2>2, <2>3, <2>4, <2>5 DEF SchedulingStep, BindingStep, ClusterStep
<1>4. phase[p] = "assumed" => leafOf[p] = Resolve(tree, Identity[p]) /\ Bookable(tree, leafOf[p])
  BY <1>2 DEF RInv, PodInv, Booked
<1> QED BY <1>1, <1>3, <1>4, OnePodRefines

\* A gang's reservation is taken and given back in one step each.
LEMMA GangRefines ==
  ASSUME RInv, ClearedWithinMax', NEW g \in Gangs, GangStep(g)
  PROVE  [Atomic!AtomicNext]_<<tree, PlacedOf(ClearedPods, leafOf), ReservedOf(held, gangBook)>>
<1> DEFINE rs == ReservedOf(held, gangBook)
           rs2 == ReservedOf(held', gangBook')
<1>1. UNCHANGED cycleVars /\ tree' = tree
  BY DEF GangStep, AdmitGangWW, YieldToBid, RefuseGang, EnterGang, Hold, ClaimBid, ReleaseGang,
         ReleaseGangs, treeVars
<1>2. /\ ClearedPods' = ClearedPods /\ leafOf' = leafOf
      /\ PlacedOf(ClearedPods, leafOf)' = PlacedOf(ClearedPods, leafOf)
      /\ rs' = rs2
  BY <1>1 DEF ClearedPods, Cleared, cycleVars, PlacedOf, ReservedOf
<1>3. CASE UNCHANGED <<treeVars, gangBook>>
  BY <1>1, <1>2, <1>3 DEF treeVars, ReservedOf
<1>4. CASE Hold(g, GangQueue[g]) /\ ~Admitted(g)
  <2>1. g \notin held /\ gangBook \in [Gangs -> Paths \cup {NoLeaf}]
    BY <1>4 DEF RInv, CInv, IInv, HeldGangsAreBound, TypeOK
  <2>2. rs2 = [rs EXCEPT ![g] = GangQueue[g]] /\ rs[g] = NoLeaf
    BY <1>4, <2>1 DEF Hold, ReservedOf
  <2>3. Bookable(tree, GangQueue[g])
    BY <1>4 DEF Hold, Inadmissible
  <2>4. Atomic!Fits(PlacedOf(ClearedPods, leafOf), rs2)
    BY <1>1, <1>2, FitsAfter
  <2>5. Atomic!Bookable(tree, GangQueue[g]) /\ rs[g] = Atomic!NoLeaf
    BY <2>2, <2>3, SameTree
  <2> HIDE DEF rs, rs2
  <2>6. Atomic!AdmitGroup(g)
    BY <1>1, <1>2, <2>2, <2>4, <2>5 DEF Atomic!AdmitGroup, rs
  <2> QED BY <2>6 DEF Atomic!AtomicNext
<1>5. CASE ReleaseGang(g)
  <2>1. held' = held \ {g} /\ gangBook' = [x \in Gangs |-> IF x \in {g} THEN NoLeaf ELSE gangBook[x]]
    BY <1>5 DEF ReleaseGang, ReleaseGangs
  <2>2. rs2 = [rs EXCEPT ![g] = NoLeaf]
    BY <2>1 DEF ReservedOf
  <2>3. CASE g \notin held
    <3>1. rs2 = rs
      BY <2>1, <2>3 DEF ReservedOf
    <3> QED BY <1>1, <1>2, <3>1
  <2>4. CASE g \in held
    <3>1. rs[g] # NoLeaf
      BY <2>4 DEF ReservedOf, RInv, CInv, IInv, HeldGangsAreBound, Admitted
    <3>2. NoLeaf = Atomic!NoLeaf
      BY DEF NoLeaf, Atomic!NoLeaf
    <3> HIDE DEF rs, rs2
    <3>3. Atomic!WithdrawGroup(g)
      BY <1>1, <1>2, <2>2, <3>1, <3>2 DEF Atomic!WithdrawGroup, rs
    <3> QED BY <3>3 DEF Atomic!AtomicNext
  <2> QED BY <2>3, <2>4
<1> QED BY <1>3, <1>4, <1>5 DEF GangStep, AdmitGangWW, YieldToBid, RefuseGang, EnterGang, ClaimBid

-----------------------------------------------------------------------------
(* The invariant and the theorem.                                          *)

\* What RInv adds to the invariant of the cycle is kept: the leaf is written by
\* PreFilter alone, from the tree, and a gang is held on the leaf it asks for.
LEMMA NextRInv ==
  ASSUME RInv, [CycleNext]_vars
  PROVE  RInv'
<1> DEFINE Under == {"filtered", "assumed", "binding", "failing"}
<1>1. CInv' /\ ClearedWithinMax'
  BY CycleNextCInv, NextKeepsCap DEF RInv
<1>2. /\ phase \in [Pods -> Phases] /\ leafOf \in [Pods -> Paths \cup {NoLeaf}]
      /\ held \subseteq Gangs /\ gangBook \in [Gangs -> Paths \cup {NoLeaf}]
  BY DEF RInv, CInv, CycleTypeOK, IInv, TypeOK
<1>3. /\ \A o \in Pods : phase'[o] \in Under => leafOf'[o] = Resolve(tree', Identity[o])
      /\ \A g \in held' : gangBook'[g] = GangQueue[g]
  <2>1. CASE UNCHANGED vars
    BY <2>1 DEF RInv, vars, engineVars, cycleVars
  <2>2. ASSUME NEW p \in Pods, SchedulingStep(p) \/ BindingStep(p) \/ InformerStep(p) \/ ClusterStep(p)
        PROVE  /\ \A o \in Pods : phase'[o] \in Under => leafOf'[o] = Resolve(tree', Identity[o])
               /\ \A g \in held' : gangBook'[g] = GangQueue[g]
    <3>1. UNCHANGED <<tree, held, gangBook>>
      BY <2>2 DEF SchedulingStep, PreFilter, NoNodeFits, ReservePlugin, Dequeue, Reserve,
             OtherPluginRejects, BindingStep, PreBind, Bind, BindFails, PostBind, Commit,
             UnreservePlugin, Unreserve, InformerStep, OnPodUpsert, ObserveBound, OnPodDelete,
             ObserveDeleted, ClusterStep, Create, PodEnds, engineVars
    <3>2. CASE PreFilter(p)
      BY <1>2, <3>1, <3>2 DEF RInv, PreFilter, To
    <3>3. CASE InformerStep(p) \/ ClusterStep(p)
      BY <1>2, <3>1, <3>3 DEF RInv, InformerStep, OnPodUpsert, OnPodDelete, ClusterStep, Create, PodEnds, To
    <3>4. CASE \/ NoNodeFits(p) \/ ReservePlugin(p) \/ Dequeue(p) \/ BindingStep(p)
      BY <1>2, <3>1, <3>4 DEF RInv, NoNodeFits, ReservePlugin, Dequeue, BindingStep, PreBind,
         OtherPluginRejects, Bind, BindFails, PostBind, UnreservePlugin, To
    <3> QED BY <2>2, <3>2, <3>3, <3>4 DEF SchedulingStep
  <2>3. ASSUME NEW g \in Gangs, GangStep(g)
        PROVE  /\ \A o \in Pods : phase'[o] \in Under => leafOf'[o] = Resolve(tree', Identity[o])
               /\ \A x \in held' : gangBook'[x] = GangQueue[x]
    <3>1. UNCHANGED cycleVars /\ tree' = tree
      BY <2>3 DEF GangStep, AdmitGangWW, YieldToBid, RefuseGang, EnterGang, Hold, ClaimBid, ReleaseGang,
             ReleaseGangs, treeVars
    <3>2. CASE UNCHANGED <<treeVars, gangBook>>
      BY <3>1, <3>2 DEF RInv, treeVars, cycleVars
    <3>3. CASE Hold(g, GangQueue[g])
      BY <1>2, <3>1, <3>3 DEF RInv, Hold, cycleVars
    <3>4. CASE ReleaseGang(g)
      BY <1>2, <3>1, <3>4 DEF RInv, ReleaseGang, ReleaseGangs, cycleVars
    <3> QED BY <2>3, <3>2, <3>3, <3>4 DEF GangStep, AdmitGangWW, YieldToBid, RefuseGang, EnterGang, ClaimBid
  <2> QED BY <2>1, <2>2, <2>3 DEF CycleNext
<1> QED BY <1>1, <1>3 DEF RInv

\* Refinement.  The check in PreFilter, the booking in Reserve, the re-check in
\* PreBind and the gang admissions between them amount to atomic admission: no
\* interleaving lets two requests through on the same room.
THEOREM RefinementHolds == CycleSpec => ImplementsAtomic
<1>1. StartedInit => RInv /\ Atomic!AtomicInit
  <2> SUFFICES ASSUME StartedInit PROVE RInv /\ Atomic!AtomicInit
    OBVIOUS
  <2>1. RInv
    BY StartCInv DEF RInv, StartedInit
  <2>2. ClearedPods = {}
    BY DEF StartedInit, ClearedPods, Cleared
  <2>3. Atomic!AtomicInit
    BY <2>2 DEF StartedInit, Atomic!AtomicInit, PlacedOf, ReservedOf, NoLeaf, Atomic!NoLeaf
  <2> QED BY <2>1, <2>3
<1>2. RInv /\ [CycleNext]_vars => RInv'
  BY NextRInv
<1>3. RInv /\ RInv' /\ [CycleNext]_vars
        => [Atomic!AtomicNext]_<<tree, PlacedOf(ClearedPods, leafOf), ReservedOf(held, gangBook)>>
  <2> SUFFICES ASSUME RInv, RInv', [CycleNext]_vars
               PROVE  [Atomic!AtomicNext]_<<tree, PlacedOf(ClearedPods, leafOf), ReservedOf(held, gangBook)>>
    OBVIOUS
  <2>1. ClearedWithinMax'
    BY DEF RInv
  <2>2. CASE UNCHANGED vars
    BY <2>2 DEF vars, engineVars, cycleVars, ClearedPods, Cleared, PlacedOf, ReservedOf
  <2>3. CASE CycleNext
    BY <2>1, <2>3, PodRefines, GangRefines DEF CycleNext
  <2> QED BY <2>2, <2>3
<1> QED BY <1>1, <1>2, <1>3, PTL DEF CycleSpec, ImplementsAtomic, Atomic!AtomicSpec, Atomic!atomicVars

-----------------------------------------------------------------------------
(* The pod's life: who will book a running pod.                            *)

\* Somebody is about to book the pod.
Awaited(p) ==
  \/ podHandler.op = "resolve" /\ podHandler.pod = p
  \/ podHandler.op = "observe" /\ podHandler.pod = p /\ podHandler.leaf \in tree.nodes
  \/ rebuilder.op = "list"
  \/ rebuilder.op = "reseed" /\ p \in rebuilder.todo

\* The pod runs, is tracked, and the tree has a leaf for it.
Due(p) ==
  /\ p \in tracked /\ p \notin orphans /\ p \notin swept
  /\ node[p] = "bound" /\ tree # NoTree /\ Resolve(tree, Identity[p]) # NoLeaf

Covered == \A p \in Pods : Due(p) => book[p].state = "committed" \/ Awaited(p)

\* What the handlers carry from one step to the next.
HandlersOK ==
  /\ node \in [Pods -> PodStates] /\ seen \in [Pods -> PodStates]
  /\ podHandler.op # "idle" => podHandler.pod \in Pods
  /\ podHandler.op = "observe" => podHandler.leaf \in Paths
  /\ podHandler.op = "release" => node[podHandler.pod] \in {"ended", "deleted"}
  /\ nodeHandler.op = "release" => nodeHandler.pod \in orphans
  /\ rebuilder.op = "reseed" => rebuilder.todo \subseteq Pods
  /\ sweep.op = "run" => sweep.live \subseteq Pods
  /\ \A p \in tracked : node[p] # "none"

LifeInv == IInv /\ LifeTypeOK /\ HandlersOK /\ Covered

-----------------------------------------------------------------------------
(* What the engine's calls do to the bookings.                             *)

\* A confirmed booking stays.
Firm == \A p \in Pods : book[p].state = "committed" => book'[p].state = "committed"

\* Reserve books a pod that has no booking.
LEMMA ReserveFirm ==
  ASSUME IInv, NEW p \in Pods, NEW leaf, NEW r \in Requests[p], Reserve(p, leaf, r)
  PROVE  IInv' /\ tree' = tree /\ Firm
<1>1. tree' = tree
  BY DEF Reserve
<1>2. Firm
  BY SMT, PodFacts DEF Reserve, Firm, Books, NoBook
<1>3. IInv'
  <2>1. CASE leaf \in Paths
    BY <2>1, ReserveStep
  <2>2. CASE leaf \notin Paths
    <3>1. ~Bookable(tree, leaf)
      BY SMT, <2>2 DEF Bookable, Paths, IInv, TypeOK, NoTree
    <3> QED BY <3>1, PodStutter DEF Reserve
  <2> QED BY <2>1, <2>2
<1> QED BY <1>1, <1>2, <1>3

\* Unreserve takes back a reservation only.
LEMMA UnreserveFirm ==
  ASSUME IInv, NEW p \in Pods, Unreserve(p)
  PROVE  IInv' /\ tree' = tree /\ Firm
<1>1. Firm
  BY PodFacts DEF Unreserve, Firm, Books
<1> QED BY <1>1, UnreserveStep DEF Unreserve

\* A booking that is confirmed is committed.
LEMMA ConfirmedState ==
  ASSUME IInv, NEW p \in Pods, book[p].state = "reserved",
         book' = [book EXCEPT ![p].state = "committed"]
  PROVE  book'[p].state = "committed" /\ Firm
<1>1. book \in Books /\ book[p] \in BookRec
  BY PodFacts
<1>2. book'[p].state = "committed"
  BY <1>1 DEF Books, BookRec
<1>3. \A o \in Pods \ {p} : book'[o] = book[o]
  BY <1>1 DEF Books
<1> QED BY <1>2, <1>3 DEF Firm

\* Commit confirms.
LEMMA CommitFirm ==
  ASSUME IInv, NEW p \in Pods, Commit(p)
  PROVE  IInv' /\ tree' = tree /\ Firm
<1>1. Firm
  BY ConfirmedState DEF Commit, Confirm, Firm
<1> QED BY <1>1, CommitStep DEF Commit

\* Observing a bound pod leaves it committed, if its leaf is in the tree.
LEMMA ObserveBoundFirm ==
  ASSUME IInv, NEW p \in Pods, NEW leaf \in Paths, NEW r \in Requests[p], ObserveBound(p, leaf, r)
  PROVE  /\ IInv' /\ tree' = tree /\ Firm
         /\ leaf \in tree.nodes => book'[p].state = "committed"
<1>1. tree' = tree /\ IInv'
  BY ObserveBoundStep DEF ObserveBound
<1>2. CASE book[p].state = "reserved"
  <2>1. book' = [book EXCEPT ![p].state = "committed"]
    BY SMT, <1>2 DEF ObserveBound, Confirm, NoBook
  <2> QED BY <1>1, <1>2, <2>1, ConfirmedState
<1>3. CASE book[p] = NoBook /\ leaf \in tree.nodes
  <2>1. book' = [book EXCEPT ![p] = [state |-> "committed", leaf |-> leaf, req |-> r]]
    BY SMT, <1>3 DEF ObserveBound, NoBook
  <2>2. book'[p].state = "committed" /\ Firm
    BY <2>1, PodFacts DEF Books, Firm
  <2> QED BY <1>1, <2>2
<1>4. CASE book[p].state # "reserved" /\ ~(book[p] = NoBook /\ leaf \in tree.nodes)
  <2>1. book' = book
    BY <1>4 DEF ObserveBound
  <2>2. leaf \in tree.nodes => book[p].state = "committed"
    BY <1>4, PodFacts
  <2> QED BY <1>1, <2>1, <2>2 DEF Firm
<1> QED BY <1>2, <1>3, <1>4

\* Observing a delete takes one pod's booking.
LEMMA ObserveDeletedFirm ==
  ASSUME IInv, NEW p \in Pods, ObserveDeleted(p)
  PROVE  IInv' /\ tree' = tree /\ \A o \in Pods \ {p} : book'[o] = book[o]
<1>1. \A o \in Pods \ {p} : book'[o] = book[o]
  BY PodFacts DEF ObserveDeleted, Books
<1> QED BY <1>1, ObserveDeletedStep DEF ObserveDeleted

-----------------------------------------------------------------------------
(* The steps.                                                              *)

\* A step of the scheduler or the cluster keeps the invariant if it keeps the
\* confirmed bookings and the tree, and no pod loses the node it has but by
\* ending.
LEMMA QuietStep ==
  ASSUME LifeInv, IInv', tree' = tree, Firm, UNCHANGED handlerVars, seen' = seen,
         phase' \in [Pods -> Phases], node' \in [Pods -> PodStates],
         \A p \in Pods : node'[p] = node[p] \/ node[p] = "none" \/ node'[p] \in {"ended", "deleted"}
  PROVE  LifeInv'
<1>1. LifeTypeOK'
  BY DEF LifeInv, LifeTypeOK, handlerVars
<1>2. tracked \subseteq Pods
  BY DEF LifeInv, LifeTypeOK
<1>3. HandlersOK'
  BY <1>2 DEF LifeInv, LifeTypeOK, HandlersOK, handlerVars
<1>4. ASSUME NEW p \in Pods, Due(p)' PROVE (book[p].state = "committed" \/ Awaited(p))'
  <2>1. Due(p)
    BY <1>4, <1>2 DEF LifeInv, HandlersOK, Due, handlerVars
  <2>2. book[p].state = "committed" \/ Awaited(p)
    BY <2>1 DEF LifeInv, Covered
  <2> QED BY <2>2 DEF Firm, Awaited, handlerVars
<1> QED BY <1>1, <1>3, <1>4 DEF LifeInv, Covered

\* The attempts of the scheduler, the creation and the end of pods, and a bind
\* whose reply is lost.
LEMMA SchedulerKeeps ==
  ASSUME LifeInv, NEW p \in Pods, SchedulerStep(p) \/ BindReplyLost(p)
  PROVE  LifeInv'
<1>1. /\ IInv /\ phase \in [Pods -> Phases] /\ node \in [Pods -> PodStates]
      /\ Footprint[p] \in Requests[p]
  BY CycleAssumption DEF LifeInv, LifeTypeOK, HandlersOK
<1>2. UNCHANGED handlerVars /\ seen' = seen
  BY DEF SchedulerStep, BindReplyLost, SchedulingStep, BindingStep, PreFilter, NoNodeFits,
         ReservePlugin, Dequeue, PreBind, OtherPluginRejects, Bind, BindFails, PostBind,
         UnreservePlugin, ClusterStep, Create, PodEnds
<1>3. phase' \in [Pods -> Phases]
  BY <1>1 DEF SchedulerStep, BindReplyLost, SchedulingStep, BindingStep, PreFilter,
         NoNodeFits, ReservePlugin, Dequeue, PreBind, OtherPluginRejects, Bind, BindFails, PostBind,
         UnreservePlugin, ClusterStep, Create, PodEnds, To, Phases
<1>4. /\ node' \in [Pods -> PodStates]
      /\ \A o \in Pods : node'[o] = node[o] \/ node[o] = "none" \/ node'[o] \in {"ended", "deleted"}
  BY <1>1 DEF SchedulerStep, BindReplyLost, SchedulingStep, BindingStep, PreFilter,
         NoNodeFits, ReservePlugin, Dequeue, PreBind, OtherPluginRejects, Bind, BindFails, PostBind,
         UnreservePlugin, ClusterStep, Create, PodEnds, PodStates
<1>5. IInv' /\ tree' = tree /\ Firm
  <2>1. CASE UNCHANGED engineVars
    BY <1>1, <2>1, EngineStutter DEF Firm
  <2>2. CASE ReservePlugin(p)
    BY <1>1, <2>2, ReserveFirm DEF ReservePlugin
  <2>3. CASE PostBind(p)
    BY <1>1, <2>3, CommitFirm DEF PostBind
  <2>4. CASE UnreservePlugin(p)
    BY <1>1, <2>4, UnreserveFirm DEF UnreservePlugin
  <2> QED BY <2>1, <2>2, <2>3, <2>4 DEF SchedulerStep, BindReplyLost, SchedulingStep,
         BindingStep, PreFilter, NoNodeFits, Dequeue, PreBind, OtherPluginRejects, Bind, BindFails,
         ClusterStep, Create, PodEnds
<1> QED BY <1>2, <1>3, <1>4, <1>5, QuietStep

\* A step of a handler that leaves the engine alone.
LEMMA EngineIdle ==
  ASSUME LifeInv, UNCHANGED engineVars
  PROVE  IInv' /\ tree' = tree /\ book' = book
BY EngineStutter DEF LifeInv

\* onPodUpsert writes the tracked map: the pod it adds is the one it resolves.
LEMMA TrackPodKeeps ==
  ASSUME LifeInv, NEW p \in Pods, TrackPod(p)
  PROVE  LifeInv'
<1>1. IInv' /\ tree' = tree /\ book' = book
  BY EngineIdle DEF TrackPod
<1>2. /\ podHandler.op = "idle" /\ UNCHANGED <<phase, node, nodeHandler, rebuilder, sweep, orphans, swept>>
      /\ seen' = [seen EXCEPT ![p] = "bound"] /\ node[p] \in {"bound", "ended"}
      /\ \/ p \in tracked /\ tracked' = tracked /\ podHandler' = podHandler
         \/ tracked' = tracked \cup {p} /\ podHandler' = [op |-> "resolve", pod |-> p]
  BY DEF TrackPod, Idle
<1>3. LifeTypeOK'
  BY SMT, <1>2 DEF LifeInv, LifeTypeOK, HandlersOK
<1>4. HandlersOK'
  BY SMT, <1>2 DEF LifeInv, LifeTypeOK, HandlersOK, PodStates
<1>5. ASSUME NEW o \in Pods, Due(o)' PROVE (book[o].state = "committed" \/ Awaited(o))'
  <2>1. CASE o = p /\ podHandler' = [op |-> "resolve", pod |-> p]
    BY <2>1 DEF Awaited
  <2>2. CASE ~(o = p /\ podHandler' = [op |-> "resolve", pod |-> p])
    <3>1. Due(o)
      BY <1>1, <1>2, <1>5, <2>2 DEF Due
    <3>2. book[o].state = "committed" \/ Awaited(o)
      BY <3>1 DEF LifeInv, Covered
    <3> QED BY <1>1, <1>2, <3>2 DEF Awaited
  <2> QED BY <2>1, <2>2
<1> QED BY <1>1, <1>3, <1>4, <1>5 DEF LifeInv, Covered

\* onPodUpsert reads the tree: the leaf it finds is one of this tree.
LEMMA ResolvePodKeeps ==
  ASSUME LifeInv, ResolvePod
  PROVE  LifeInv'
<1> DEFINE p == podHandler.pod
           leaf == IF tree = NoTree THEN NoLeaf ELSE Resolve(tree, Identity[p])
<1>1. IInv' /\ tree' = tree /\ book' = book
  BY EngineIdle DEF ResolvePod, vars
<1>2. /\ UNCHANGED <<phase, node, seen, tracked, nodeHandler, rebuilder, sweep, orphans, swept>>
      /\ podHandler.op = "resolve" /\ p \in Pods
      /\ podHandler' = IF leaf = NoLeaf THEN Idle ELSE [op |-> "observe", pod |-> p, leaf |-> leaf]
  BY DEF ResolvePod, vars, cycleVars, LifeInv, HandlersOK
<1>3. leaf # NoLeaf => leaf \in tree.nodes /\ leaf \in Paths
  BY ResolvedIsLeaf DEF LifeInv, IInv, TypeOK, Bookable
<1> HIDE DEF leaf
<1>4. LifeTypeOK'
  BY <1>2 DEF LifeInv, LifeTypeOK, Idle
<1>5. HandlersOK'
  BY <1>2, <1>3 DEF LifeInv, HandlersOK, Idle
<1>6. ASSUME NEW o \in Pods, Due(o)' PROVE (book[o].state = "committed" \/ Awaited(o))'
  <2>1. Due(o)
    BY <1>1, <1>2, <1>6 DEF Due
  <2>2. CASE o = p
    <3>1. leaf # NoLeaf
      BY <2>1, <2>2 DEF Due, leaf
    <3> QED BY <1>1, <1>2, <1>3, <2>2, <3>1 DEF Awaited
  <2>3. CASE o # p
    <3>1. book[o].state = "committed" \/ Awaited(o)
      BY <2>1 DEF LifeInv, Covered
    <3> QED BY <1>1, <1>2, <2>3, <3>1 DEF Awaited
  <2> QED BY <2>2, <2>3
<1> QED BY <1>1, <1>4, <1>5, <1>6 DEF LifeInv, Covered

\* onPodUpsert books: the pod is committed, if its leaf is still there.
LEMMA ObservePodKeeps ==
  ASSUME LifeInv, ObservePod
  PROVE  LifeInv'
<1> DEFINE p == podHandler.pod
<1>1. /\ UNCHANGED <<phase, node, seen, tracked, nodeHandler, rebuilder, sweep, orphans, swept>>
      /\ podHandler.op = "observe" /\ p \in Pods /\ podHandler.leaf \in Paths
      /\ podHandler' = Idle /\ ObserveBound(p, podHandler.leaf, Observed[p])
  BY DEF ObservePod, cycleVars, LifeInv, HandlersOK
<1>2. Observed[p] \in Requests[p]
  BY <1>1, CycleAssumption
<1>3. /\ IInv' /\ tree' = tree /\ Firm
      /\ podHandler.leaf \in tree.nodes => book'[p].state = "committed"
  BY <1>1, <1>2, ObserveBoundFirm DEF LifeInv
<1>4. LifeTypeOK'
  BY <1>1 DEF LifeInv, LifeTypeOK, Idle
<1>5. HandlersOK'
  BY <1>1 DEF LifeInv, HandlersOK, Idle
<1>6. ASSUME NEW o \in Pods, Due(o)' PROVE (book[o].state = "committed" \/ Awaited(o))'
  <2>1. Due(o)
    BY <1>1, <1>3, <1>6 DEF Due
  <2>2. book[o].state = "committed" \/ Awaited(o)
    BY <2>1 DEF LifeInv, Covered
  <2> QED BY <1>1, <1>3, <2>2 DEF Awaited, Firm
<1> QED BY <1>3, <1>4, <1>5, <1>6 DEF LifeInv, Covered

\* onPodDelete, and onPodUpsert of a terminal pod, forget a pod that is gone.
LEMMA UntrackPodKeepsInv ==
  ASSUME LifeInv, NEW p \in Pods, UntrackPod(p)
  PROVE  LifeInv'
<1>1. IInv' /\ tree' = tree /\ book' = book
  BY EngineIdle DEF UntrackPod
<1>2. /\ UNCHANGED <<phase, node, nodeHandler, rebuilder, sweep, orphans, swept>>
      /\ podHandler.op = "idle" /\ node[p] \in {"ended", "deleted"}
      /\ seen' = [seen EXCEPT ![p] = node[p]] /\ tracked' = tracked \ {p}
      /\ podHandler' = [op |-> "release", pod |-> p] \/ podHandler' = Idle
  BY DEF UntrackPod, Idle
<1>3. LifeTypeOK'
  BY SMTT(30), <1>2 DEF LifeInv, LifeTypeOK, HandlersOK, Idle
<1>4. HandlersOK'
  BY SMT, <1>2 DEF LifeInv, HandlersOK, PodStates, Idle
<1>5. ASSUME NEW o \in Pods, Due(o)' PROVE (book[o].state = "committed" \/ Awaited(o))'
  <2>1. Due(o)
    BY <1>1, <1>2, <1>5 DEF Due
  <2>2. book[o].state = "committed" \/ Awaited(o)
    BY <2>1 DEF LifeInv, Covered
  <2> QED BY <1>1, <1>2, <2>2 DEF Awaited
<1> QED BY <1>1, <1>3, <1>4, <1>5 DEF LifeInv, Covered

\* Releasing the booking of a pod that is gone, or whose node is.
LEMMA ReleaseKeeps ==
  ASSUME LifeInv, ReleasePod \/ ReleaseOrphan
  PROVE  LifeInv'
<1>1. PICK p \in Pods : ObserveDeleted(p) /\ (node[p] \in {"ended", "deleted"} \/ p \in orphans)
  BY DEF ReleasePod, ReleaseOrphan, LifeInv, HandlersOK, LifeTypeOK
<1>2. /\ UNCHANGED <<phase, node, seen, tracked, rebuilder, sweep, orphans, swept>>
      /\ \/ podHandler.op = "release" /\ podHandler' = Idle /\ nodeHandler' = nodeHandler
         \/ podHandler' = podHandler /\ nodeHandler' = Idle
  BY DEF ReleasePod, ReleaseOrphan, cycleVars
<1>3. IInv' /\ tree' = tree /\ \A o \in Pods \ {p} : book'[o] = book[o]
  BY <1>1, ObserveDeletedFirm DEF LifeInv
<1>4. LifeTypeOK'
  BY SMT, <1>2 DEF LifeInv, LifeTypeOK, Idle
<1>5. HandlersOK'
  BY SMT, <1>2 DEF LifeInv, HandlersOK, Idle
<1>6. ASSUME NEW o \in Pods, Due(o)' PROVE (book[o].state = "committed" \/ Awaited(o))'
  <2>1. Due(o) /\ o # p
    BY <1>1, <1>2, <1>3, <1>6 DEF Due
  <2>2. book[o].state = "committed" \/ Awaited(o)
    BY <2>1 DEF LifeInv, Covered
  <2> QED BY <1>2, <1>3, <2>1, <2>2 DEF Awaited, Idle
<1> QED BY <1>3, <1>4, <1>5, <1>6 DEF LifeInv, Covered

\* releaseNodePods forgets a pod whose node is deleted.
LEMMA UntrackOrphanKeeps ==
  ASSUME LifeInv, NEW p \in Pods, UntrackOrphan(p)
  PROVE  LifeInv'
<1>1. IInv' /\ tree' = tree /\ book' = book
  BY EngineIdle DEF UntrackOrphan, vars
<1>2. /\ UNCHANGED <<phase, node, seen, podHandler, rebuilder, sweep, swept>>
      /\ orphans' = orphans \cup {p} /\ tracked' = tracked \ {p}
      /\ nodeHandler' = [op |-> "release", pod |-> p]
  BY DEF UntrackOrphan, vars, cycleVars
<1>3. LifeTypeOK'
  BY <1>2 DEF LifeInv, LifeTypeOK
<1>4. HandlersOK'
  BY <1>2 DEF LifeInv, HandlersOK
<1>5. ASSUME NEW o \in Pods, Due(o)' PROVE (book[o].state = "committed" \/ Awaited(o))'
  <2>1. Due(o)
    BY <1>1, <1>2, <1>5 DEF Due
  <2>2. book[o].state = "committed" \/ Awaited(o)
    BY <2>1 DEF LifeInv, Covered
  <2> QED BY <1>1, <1>2, <2>2 DEF Awaited
<1> QED BY <1>1, <1>3, <1>4, <1>5 DEF LifeInv, Covered

\* The rebuild installs a tree; every tracked pod is yet to be listed.
LEMMA SwapTreeKeeps ==
  ASSUME LifeInv, NEW t \in Trees, NEW H \in SUBSET Gangs, SwapTree(t, H)
  PROVE  LifeInv'
<1>1. IInv'
  BY RebuildStep DEF SwapTree, LifeInv
<1>2. /\ UNCHANGED <<phase, node, seen, tracked, podHandler, nodeHandler, sweep, orphans, swept>>
      /\ rebuilder' = [op |-> "list"]
  BY DEF SwapTree, cycleVars
<1>3. LifeTypeOK'
  BY <1>2 DEF LifeInv, LifeTypeOK
<1>4. HandlersOK'
  BY <1>2 DEF LifeInv, HandlersOK
<1>5. Covered'
  BY <1>2 DEF Covered, Awaited
<1> QED BY <1>1, <1>3, <1>4, <1>5 DEF LifeInv

\* The rebuild lists the tracked pods, and comes to the end of its list.
LEMMA ListKeeps ==
  ASSUME LifeInv, ListTracked \/ ReseedDone
  PROVE  LifeInv'
<1>1. IInv' /\ tree' = tree /\ book' = book
  BY EngineIdle DEF ListTracked, ReseedDone, vars
<1>2. /\ UNCHANGED <<phase, node, seen, tracked, podHandler, nodeHandler, sweep, orphans, swept>>
      /\ \/ rebuilder' = [op |-> "reseed", todo |-> tracked]
         \/ rebuilder.op = "reseed" /\ rebuilder.todo = {} /\ rebuilder' = Idle
  BY DEF ListTracked, ReseedDone, vars, cycleVars
<1>3. LifeTypeOK'
  BY SMTT(30), <1>2 DEF LifeInv, LifeTypeOK, Idle
<1>4. HandlersOK'
  BY SMTT(30), <1>2 DEF LifeInv, HandlersOK, LifeTypeOK, Idle
<1>5. ASSUME NEW o \in Pods, Due(o)' PROVE (book[o].state = "committed" \/ Awaited(o))'
  <2>1. Due(o)
    BY <1>1, <1>2, <1>5 DEF Due
  <2>2. book[o].state = "committed" \/ Awaited(o)
    BY <2>1 DEF LifeInv, Covered
  <2> QED BY SMTT(30), <1>1, <1>2, <2>1, <2>2 DEF Awaited, Due
<1> QED BY <1>1, <1>3, <1>4, <1>5 DEF LifeInv, Covered

\* The rebuild observes a pod of its list: it is committed, if it has a leaf.
LEMMA ReseedPodKeeps ==
  ASSUME LifeInv, NEW p \in Pods, ReseedPod(p)
  PROVE  LifeInv'
<1> DEFINE leaf == Resolve(tree, Identity[p])
<1>1. /\ UNCHANGED <<phase, node, seen, tracked, podHandler, nodeHandler, sweep, orphans>>
      /\ swept' = swept \ {p} /\ rebuilder.op = "reseed"
      /\ rebuilder' = [op |-> "reseed", todo |-> rebuilder.todo \ {p}]
      /\ IF leaf # NoLeaf THEN ObserveBound(p, leaf, Observed[p]) ELSE UNCHANGED engineVars
  BY DEF ReseedPod, cycleVars
<1>2. leaf # NoLeaf => leaf \in tree.nodes /\ leaf \in Paths
  <2>1. tree = NoTree => leaf = NoLeaf
    BY SMT DEF Resolve, NoTree
  <2> QED BY <2>1, ResolvedIsLeaf DEF LifeInv, IInv, TypeOK, Bookable
<1> HIDE DEF leaf
<1>3. Observed[p] \in Requests[p]
  BY CycleAssumption
<1>4. /\ IInv' /\ tree' = tree /\ Firm
      /\ leaf # NoLeaf => book'[p].state = "committed"
  <2>1. CASE leaf = NoLeaf
    BY <1>1, <2>1, EngineIdle DEF Firm
  <2>2. CASE leaf # NoLeaf
    BY <1>1, <1>2, <1>3, <2>2, ObserveBoundFirm DEF LifeInv
  <2> QED BY <2>1, <2>2
<1>5. LifeTypeOK'
  BY <1>1 DEF LifeInv, LifeTypeOK
<1>6. HandlersOK'
  BY <1>1 DEF LifeInv, HandlersOK
<1>7. ASSUME NEW o \in Pods, Due(o)' PROVE (book[o].state = "committed" \/ Awaited(o))'
  <2>1. CASE o = p
    <3>1. leaf # NoLeaf
      BY <1>4, <1>7, <2>1 DEF Due, leaf
    <3> QED BY <1>4, <2>1, <3>1
  <2>2. CASE o # p
    <3>1. Due(o)
      BY <1>1, <1>4, <1>7, <2>2 DEF Due
    <3>2. book[o].state = "committed" \/ Awaited(o)
      BY <3>1 DEF LifeInv, Covered
    <3> QED BY <1>1, <1>4, <2>2, <3>2 DEF Awaited, Firm
  <2> QED BY <2>1, <2>2
<1> QED BY <1>4, <1>5, <1>6, <1>7 DEF LifeInv, Covered

\* The collector lists the pods of the store.
LEMMA GCListKeeps ==
  ASSUME LifeInv, GCList
  PROVE  LifeInv'
<1>1. IInv' /\ tree' = tree /\ book' = book
  BY EngineIdle DEF GCList, vars
<1>2. PICK store \in Stores : sweep' = [op |-> "run", live |-> store]
  BY DEF GCList
<1>3. store \subseteq Pods
  BY DEF Stores, Present, Lagging
<1>4. UNCHANGED <<phase, node, seen, tracked, podHandler, nodeHandler, rebuilder, orphans, swept>>
  BY DEF GCList, vars, cycleVars
<1>5. LifeTypeOK' /\ HandlersOK'
  BY <1>2, <1>3, <1>4 DEF LifeInv, LifeTypeOK, HandlersOK
<1>6. Covered'
  BY <1>1, <1>4 DEF LifeInv, Covered, Due, Awaited
<1> QED BY <1>1, <1>5, <1>6 DEF LifeInv

\* The sweep takes the bookings of pods outside its list: those it takes from
\* tracked pods are the swept ones.
LEMMA GCRunKeeps ==
  ASSUME LifeInv, GCRun
  PROVE  LifeInv'
<1>1. /\ UNCHANGED <<phase, node, seen, tracked, podHandler, nodeHandler, rebuilder, orphans>>
      /\ swept' = swept \cup (tracked \ sweep.live) /\ sweep' = NoSweep
      /\ sweep.live \in SUBSET Pods
      /\ UNCHANGED engineVars \/ GCBookings(sweep.live)
  BY DEF GCRun, cycleVars, LifeInv, HandlersOK
<1>2. IInv' /\ tree' = tree /\ \A o \in sweep.live : book'[o] = book[o]
  <2>1. CASE UNCHANGED engineVars
    BY <2>1, EngineIdle
  <2>2. CASE GCBookings(sweep.live)
    BY <1>1, <2>2, GCBookingsStep DEF LifeInv, GCBookings
  <2> QED BY <1>1, <2>1, <2>2
<1>3. LifeTypeOK'
  BY <1>1 DEF LifeInv, LifeTypeOK
<1>4. HandlersOK'
  BY <1>1 DEF LifeInv, HandlersOK, NoSweep
<1>5. ASSUME NEW o \in Pods, Due(o)' PROVE (book[o].state = "committed" \/ Awaited(o))'
  <2>1. Due(o) /\ o \in sweep.live
    BY <1>1, <1>2, <1>5 DEF Due
  <2>2. book[o].state = "committed" \/ Awaited(o)
    BY <2>1 DEF LifeInv, Covered
  <2> QED BY <1>1, <1>2, <2>1, <2>2 DEF Awaited
<1> QED BY <1>2, <1>3, <1>4, <1>5 DEF LifeInv, Covered

\* A new process starts with empty ledgers and tracks nothing.
LEMMA RestartKeeps ==
  ASSUME LifeInv, Restart
  PROVE  LifeInv'
<1>1. EmptyLedgers'
  BY DEF Restart, EmptyLedgers
<1>2. IInv'
  BY <1>1, InitIInv, PTL
<1>3. LifeTypeOK'
  BY DEF Restart, LifeInv, LifeTypeOK, Phases, Idle
<1>4. HandlersOK'
  BY DEF Restart, LifeInv, HandlersOK, PodStates, Idle, NoSweep
<1>5. Covered'
  BY DEF Restart, Covered, Due
<1> QED BY <1>2, <1>3, <1>4, <1>5 DEF LifeInv

\* Every step keeps the invariant.
LEMMA LifeStep ==
  ASSUME LifeInv, [LifeNext]_lifeVars
  PROVE  LifeInv'
<1>1. ASSUME NEW p \in Pods, SchedulerStep(p) \/ BindReplyLost(p) PROVE LifeInv'
  BY <1>1, SchedulerKeeps
<1>2. ASSUME NEW p \in Pods, UntrackOrphan(p) PROVE LifeInv'
  BY <1>2, UntrackOrphanKeeps
<1>3. ASSUME NEW t \in Trees, NEW H \in SUBSET Gangs, SwapTree(t, H) PROVE LifeInv'
  BY <1>3, SwapTreeKeeps
<1>4. CASE PodHandlerStep
  BY <1>4, TrackPodKeeps, UntrackPodKeepsInv, ResolvePodKeeps, ObservePodKeeps, ReleaseKeeps
     DEF PodHandlerStep
<1>5. CASE ReleaseOrphan
  BY <1>5, ReleaseKeeps
<1>6. CASE RebuildLoop
  BY <1>6, ListKeeps, ReseedPodKeeps DEF RebuildLoop
<1>7. CASE GCList \/ GCRun \/ Restart
  BY <1>7, GCListKeeps, GCRunKeeps, RestartKeeps
<1>8. CASE UNCHANGED lifeVars
  <2>1. IInv' /\ tree' = tree /\ book' = book
    BY <1>8, EngineIdle DEF lifeVars, vars
  <2>2. LifeTypeOK' /\ HandlersOK'
    BY <1>8 DEF lifeVars, vars, cycleVars, handlerVars, LifeInv, LifeTypeOK, HandlersOK
  <2>3. Covered'
    BY <1>8, <2>1 DEF lifeVars, vars, cycleVars, handlerVars, LifeInv, Covered, Due, Awaited
  <2> QED BY <2>1, <2>2, <2>3 DEF LifeInv
<1> QED BY <1>1, <1>2, <1>3, <1>4, <1>5, <1>6, <1>7, <1>8 DEF LifeNext

\* The invariant holds from the start, and through everything the cluster, the
\* scheduler and the coordinator's goroutines do.
THEOREM LifeInvariant == LifeSpec => []LifeInv
<1>1. LifeInit => LifeInv
  <2> SUFFICES ASSUME LifeInit PROVE LifeInv
    OBVIOUS
  <2>1. IInv
    BY InitIInv DEF LifeInit, Init, EmptyLedgers
  <2>2. LifeTypeOK
    BY DEF LifeInit, LifeTypeOK, Phases, Idle
  <2>3. HandlersOK
    BY DEF LifeInit, HandlersOK, PodStates, Idle, NoSweep
  <2>4. Covered
    BY DEF LifeInit, Covered, Due
  <2> QED BY <2>1, <2>2, <2>3, <2>4 DEF LifeInv
<1>2. LifeInv /\ [LifeNext]_lifeVars => LifeInv'
  BY LifeStep
<1> QED BY <1>1, <1>2, PTL DEF LifeSpec

\* A running pod the coordinator tracks is charged to a queue, as confirmed
\* usage, whatever rebuilds, lost replies and retries it went through, once the
\* handler and the rebuild in progress are through.
THEOREM TrackedAreChargedHolds == LifeSpec => []TrackedAreCharged
<1>1. ASSUME LifeInv PROVE TrackedAreCharged
  <2> SUFFICES ASSUME podHandler = Idle, rebuilder = Idle, NEW p \in tracked \ (orphans \cup swept),
                      node[p] = "bound", tree # NoTree, Resolve(tree, Identity[p]) # NoLeaf
               PROVE  book[p].state = "committed"
    BY DEF TrackedAreCharged
  <2>1. p \in Pods
    BY <1>1 DEF LifeInv, LifeTypeOK
  <2>2. ~Awaited(p)
    BY DEF Awaited, Idle
  <2> QED BY <1>1, <2>1, <2>2 DEF LifeInv, Covered, Due
<1> QED BY <1>1, LifeInvariant, PTL

\* The coordinator's state keeps its shape, and it tracks only pods it has seen
\* bound and not yet seen go.
THEOREM LifeTypeHolds == LifeSpec => []LifeTypeOK
BY LifeInvariant, PTL DEF LifeInv

\* The counters of every queue are what the ledgers charge to it also in the
\* composition of scheduler, coordinator and cluster, crashes included: every
\* step is a call of the engine, or starts an empty one.
THEOREM LifeConservation == LifeSpec => []Conservation
BY LifeInvariant, PTL DEF LifeInv, IInv, Conservation
=============================================================================
