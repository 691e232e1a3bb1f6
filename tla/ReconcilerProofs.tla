-------------------------- MODULE ReconcilerProofs --------------------------
(***************************************************************************)
(* Proofs about the loops that keep the cluster's objects and the          *)
(* scheduler's gangs in step, for any gangs, pods and replicas: the        *)
(* provisioning requests, and the life of a gang's reservation.            *)
(***************************************************************************)
EXTENDS Provisioning, GangLifecycle, FiniteSetTheorems, TLAPS

\* A leaf is for Zenon unless it names another prover: arithmetic is for SMT.
USE ZenonT(30)

-----------------------------------------------------------------------------
(* The provisioning reconciler: the requests stay within the gangs' sizes, *)
(* and no object of a gang that wanted nodes all through a tick is deleted *)
(* in it.  The invariant behind both: a gang that wanted nodes since the   *)
(* tick began is still to be visited or already marked as desired, and the *)
(* count that is about to be written is what the gang lacked when it was   *)
(* visited.                                                                *)

Stages == {"idle", "visit", "template", "request", "mark", "gc"}

TickOK ==
  /\ pass.at \in Stages
  /\ pass \in [at : Stages, todo : SUBSET Gangs, desired : SUBSET Gangs,
               gang : Gangs \cup {""}, count : Nat, members : SUBSET Pods]
  /\ pass.at \in {"template", "request", "mark"} =>
       /\ pass.gang \in Gangs
       /\ pass.count \in 1 .. MinMember[pass.gang]
  /\ pass.at = "gc" => pass.todo = {}

\* The inductive invariant.
ProvisioningInv ==
  /\ ProvisioningTypeOK
  /\ TickOK
  /\ \A g \in steady : Want(g) > 0 /\ g \in pass.todo \cup pass.desired

\* The members that are placed are counted by a number.
LEMMA PlacedIsNat ==
  ASSUME NEW g \in Gangs
  PROVE  Placed(g) \in Nat
<1> DEFINE S == {p \in Pods : GangOf[p] = g /\ phase[p] = "bound"}
<1>1. IsFiniteSet(S)
  BY PodGroupsAssumption, FS_Subset
<1> QED
  BY <1>1, FS_CardinalityType DEF Placed

\* Whatever changes in the cluster, a gang that is still steady still wants nodes.
LEMMA ChangesKeep ==
  ASSUME ProvisioningInv, NEW ng \in [Gangs -> {"gone", "present", "failed"}],
         NEW np \in [Pods -> {"absent", "unschedulable", "bound"}], Changes(ng, np)
  PROVE  ProvisioningInv'
<1>1. /\ group' = ng /\ phase' = np /\ UNCHANGED <<templates, request, pass>>
      /\ steady' = steady \cap {g \in Gangs : Want(g)' > 0}
      /\ consume' = {p \in consume : phase'[p] # "absent"}
  BY DEF Changes
<1>2. ProvisioningTypeOK'
  BY <1>1 DEF ProvisioningInv, ProvisioningTypeOK
<1>3. TickOK'
  BY <1>1 DEF ProvisioningInv, TickOK
<1>4. \A g \in steady' : Want(g)' > 0 /\ g \in pass'.todo \cup pass'.desired
  BY <1>1 DEF ProvisioningInv
<1> QED
  BY <1>2, <1>3, <1>4 DEF ProvisioningInv

\* Nothing the reconciler does changes what a gang wants.
LEMMA WantUnchanged ==
  ASSUME UNCHANGED world
  PROVE  \A g \in Gangs : Want(g)' = Want(g)
  BY DEF world, Want, Placed, pendingGangMembers

\* A visit keeps a steady gang by marking it as desired (Visit).
LEMMA VisitKeeps ==
  ASSUME ProvisioningInv, NEW g \in Gangs, Visit(g)
  PROVE  ProvisioningInv'
<1> DEFINE ok == group[g] # "gone" /\ Placed(g) < MinMember[g] /\ pendingGangMembers(g) # {}
<1>1. UNCHANGED <<world, objects, steady>> /\ pass.at = "visit"
  BY DEF Visit
<1>2. ProvisioningTypeOK'
  BY <1>1 DEF ProvisioningInv, ProvisioningTypeOK, TickOK, world, objects, Visit
<1>3. CASE ~ok
  <2>1. pass' = [pass EXCEPT !.todo = @ \ {g}]
    BY <1>3 DEF Visit
  <2>2. Want(g) = 0
    <3>1. Placed(g) \in Nat /\ MinMember[g] \in Nat
      BY PlacedIsNat, PodGroupsAssumption
    <3> QED
      BY <1>3, <3>1 DEF Want
  <2>3. TickOK'
    BY <1>1, <2>1 DEF ProvisioningInv, TickOK
  <2>4. \A h \in steady' : Want(h)' > 0 /\ h \in pass'.todo \cup pass'.desired
    <3>1. steady \subseteq Gangs /\ steady' = steady
      BY <1>1 DEF ProvisioningInv, ProvisioningTypeOK
    <3>2. \A h \in steady : h # g
      BY SMT, <2>2 DEF ProvisioningInv
    <3>3. pass'.todo = pass.todo \ {g} /\ pass'.desired = pass.desired
      BY <2>1 DEF ProvisioningInv, TickOK
    <3> QED
      BY <1>1, <3>1, <3>2, <3>3, WantUnchanged DEF ProvisioningInv
  <2> QED
    BY <1>2, <2>3, <2>4 DEF ProvisioningInv
<1>4. CASE ok
  <2>1. pass' = [pass EXCEPT !.todo = @ \ {g}, !.at = "template", !.gang = g,
                             !.desired = @ \cup {g}, !.count = MinMember[g] - Placed(g),
                             !.members = pendingGangMembers(g)]
    BY <1>4 DEF Visit, ProvisioningInv, TickOK
  <2>2. /\ pass'.at = "template" /\ pass'.gang = g
        /\ pass'.todo = pass.todo \ {g} /\ pass'.desired = pass.desired \cup {g}
        /\ pass'.count = MinMember[g] - Placed(g)
    BY <2>1 DEF ProvisioningInv, TickOK
  <2>3. TickOK'
    <3>1. /\ Placed(g) \in Nat /\ MinMember[g] \in Nat
          /\ MinMember[g] - Placed(g) \in 1 .. MinMember[g]
      BY SMT, <1>4, PlacedIsNat, PodGroupsAssumption
    <3>2. pendingGangMembers(g) \subseteq Pods
      BY DEF pendingGangMembers
    <3>3. pass' \in [at : Stages, todo : SUBSET Gangs, desired : SUBSET Gangs,
                     gang : Gangs \cup {""}, count : Nat, members : SUBSET Pods]
      <4> DEFINE n == MinMember[g] - Placed(g)
                 m == pendingGangMembers(g)
      <4>1. n \in Nat /\ m \subseteq Pods
        BY SMT, <3>1, <3>2
      <4>2. pass' = [pass EXCEPT !.todo = @ \ {g}, !.at = "template", !.gang = g,
                                 !.desired = @ \cup {g}, !.count = n, !.members = m]
        BY <2>1
      <4> HIDE DEF n, m
      <4> QED
        BY <4>1, <4>2 DEF ProvisioningInv, TickOK, Stages
    <3> QED
      BY <2>2, <3>1, <3>3 DEF TickOK, Stages
  <2>4. \A h \in steady' : Want(h)' > 0 /\ h \in pass'.todo \cup pass'.desired
    <3>1. steady \subseteq Gangs /\ steady' = steady
      BY <1>1 DEF ProvisioningInv, ProvisioningTypeOK
    <3> QED
      BY <1>1, <2>2, <3>1, WantUnchanged DEF ProvisioningInv
  <2> QED
    BY <1>2, <2>3, <2>4 DEF ProvisioningInv
<1> QED
  BY <1>3, <1>4

\* A step of the reconciler that keeps the todo and the desired gangs, what is
\* steady and the world, keeps the steady gangs' part of the invariant.
LEMMA SteadyKeeps ==
  ASSUME ProvisioningInv, UNCHANGED <<world, steady>>,
         pass'.todo = pass.todo, pass'.desired = pass.desired
  PROVE  \A h \in steady' : Want(h)' > 0 /\ h \in pass'.todo \cup pass'.desired
<1>1. steady \subseteq Gangs
  BY DEF ProvisioningInv, ProvisioningTypeOK
<1> QED
  BY <1>1, WantUnchanged DEF ProvisioningInv

\* Going on to the next gang keeps what is known of the tick.
LEMMA NextGangOK ==
  ASSUME TickOK, pass.at # "gc"
  PROVE  /\ NextGang \in [at : Stages, todo : SUBSET Gangs, desired : SUBSET Gangs,
                           gang : Gangs \cup {""}, count : Nat, members : SUBSET Pods]
         /\ NextGang.at = "visit" /\ NextGang.todo = pass.todo /\ NextGang.desired = pass.desired
  BY DEF TickOK, NextGang, Stages

\* Writing the template, the request and the marks keeps the invariant.
LEMMA WritesKeep ==
  ASSUME ProvisioningInv, NEW ok \in BOOLEAN,
         \/ ensurePodTemplate(ok) \/ ensureProvisioningRequest(ok) \/ markMembersConsumeProvReq
  PROVE  ProvisioningInv'
<1> USE DEF ProvisioningInv
<1>1. CASE ensurePodTemplate(ok)
  <2>1. pass.at = "template" /\ pass.gang \in Gangs
    BY <1>1 DEF ensurePodTemplate, TickOK
  <2>2. pass'.todo = pass.todo /\ pass'.desired = pass.desired /\ TickOK'
    <3>1. CASE ok
      BY <1>1, <2>1, <3>1 DEF ensurePodTemplate, TickOK, Stages
    <3>2. CASE ~ok
      <4>1. pass' = NextGang
        BY <1>1, <3>2 DEF ensurePodTemplate
      <4> QED
        BY <4>1, <2>1, NextGangOK DEF TickOK, Stages
    <3> QED
      BY <3>1, <3>2
  <2>3. ProvisioningTypeOK'
    BY <1>1, <2>1, <2>2 DEF ensurePodTemplate, ProvisioningTypeOK, TickOK, world
  <2> QED
    BY <1>1, <2>2, <2>3, SteadyKeeps DEF ensurePodTemplate
<1>2. CASE ensureProvisioningRequest(ok)
  <2>1. pass.at = "request" /\ pass.gang \in Gangs /\ pass.count \in 1 .. MinMember[pass.gang]
    BY <1>2 DEF ensureProvisioningRequest, TickOK
  <2>2. pass'.todo = pass.todo /\ pass'.desired = pass.desired /\ TickOK'
    <3>1. CASE ok
      BY <1>2, <2>1, <3>1 DEF ensureProvisioningRequest, TickOK, Stages
    <3>2. CASE ~ok
      <4>1. pass' = NextGang
        BY <1>2, <3>2 DEF ensureProvisioningRequest
      <4> QED
        BY <4>1, <2>1, NextGangOK DEF TickOK, Stages
    <3> QED
      BY <3>1, <3>2
  <2>3. request' \in [Gangs -> Nat] /\ \A g \in Gangs : request'[g] <= MinMember[g]
    <3>1. MinMember[pass.gang] \in Nat
      BY <2>1, PodGroupsAssumption
    <3> QED
      BY SMT, <1>2, <2>1, <3>1 DEF ensureProvisioningRequest, ProvisioningTypeOK
  <2>4. ProvisioningTypeOK'
    BY <1>2, <2>2, <2>3 DEF ensureProvisioningRequest, ProvisioningTypeOK, TickOK, world
  <2> QED
    BY <1>2, <2>2, <2>4, SteadyKeeps DEF ensureProvisioningRequest
<1>3. CASE markMembersConsumeProvReq
  <2>1. pass.at = "mark" /\ pass' = NextGang
    BY <1>3 DEF markMembersConsumeProvReq
  <2>2. pass'.todo = pass.todo /\ pass'.desired = pass.desired /\ TickOK'
    BY <2>1, NextGangOK DEF TickOK, Stages
  <2>3. ProvisioningTypeOK'
    BY <1>3, <2>2 DEF markMembersConsumeProvReq, ProvisioningTypeOK, TickOK, world
  <2> QED
    BY <1>3, <2>2, <2>3, SteadyKeeps DEF markMembersConsumeProvReq
<1> QED
  BY <1>1, <1>2, <1>3

\* The collector keeps the invariant: it writes no count and visits nobody.
LEMMA CollectorKeeps ==
  ASSUME ProvisioningInv, NEW gone \in SUBSET Stale, gcRequests(gone) \/ gcTemplates(gone)
  PROVE  ProvisioningInv'
<1> USE DEF ProvisioningInv
<1>1. CASE gcRequests(gone)
  <2>1. pass'.todo = pass.todo /\ pass'.desired = pass.desired /\ TickOK'
    BY <1>1 DEF gcRequests, TickOK, Stages
  <2>2. request' \in [Gangs -> Nat] /\ \A g \in Gangs : request'[g] <= MinMember[g]
    BY SMT, <1>1, PodGroupsAssumption DEF gcRequests, ProvisioningTypeOK
  <2>3. ProvisioningTypeOK'
    BY <1>1, <2>1, <2>2 DEF gcRequests, ProvisioningTypeOK, TickOK, world
  <2> QED
    BY <1>1, <2>1, <2>3, SteadyKeeps DEF gcRequests
<1>2. CASE gcTemplates(gone)
  <2>1. steady' = {} /\ pass' = NoPass
    BY <1>2 DEF gcTemplates
  <2>2. TickOK'
    BY <2>1 DEF TickOK, NoPass, Stages
  <2>3. ProvisioningTypeOK'
    <3>1. pass'.todo = {} /\ pass'.desired = {}
      BY <2>1 DEF NoPass
    <3> QED
      BY <1>2, <2>1, <3>1 DEF gcTemplates, ProvisioningTypeOK, world
  <2> QED
    BY <2>1, <2>2, <2>3
<1> QED
  BY <1>1, <1>2

\* A tick begins with every gang that wants nodes on its list, and a restart
\* forgets the tick.
LEMMA StartAndCrashKeep ==
  ASSUME ProvisioningInv, StartTick \/ Crash
  PROVE  ProvisioningInv'
<1> USE DEF ProvisioningInv
<1>1. CASE StartTick
  <2> DEFINE T == {g \in Gangs : group[g] = "present"}
  <2>1. /\ pass' = [NoPass EXCEPT !.at = "visit", !.todo = T]
        /\ steady' = StillWanting(Gangs) /\ UNCHANGED <<world, objects>>
    BY <1>1 DEF StartTick
  <2>2. pass'.todo = T /\ pass'.desired = {} /\ TickOK'
    BY <2>1 DEF NoPass, TickOK, Stages
  <2>3. ProvisioningTypeOK'
    BY <2>1, <2>2 DEF ProvisioningTypeOK, StillWanting, world, objects
  <2>4. \A h \in steady' : Want(h)' > 0 /\ h \in T
    BY SMT, <2>1, WantUnchanged DEF StillWanting, Want
  <2> QED
    BY <2>2, <2>3, <2>4
<1>2. CASE Crash
  <2>1. steady' = {} /\ pass' = NoPass /\ UNCHANGED <<world, objects>>
    BY <1>2 DEF Crash
  <2>2. TickOK'
    BY <2>1 DEF TickOK, NoPass, Stages
  <2>3. ProvisioningTypeOK'
    BY <2>1 DEF ProvisioningTypeOK, NoPass, world, objects
  <2> QED
    BY <2>1, <2>2, <2>3
<1> QED
  BY <1>1, <1>2

\* The pods and the PodGroups move among their states (PodMoves, GroupMoves).
LEMMA ClusterKeeps ==
  ASSUME ProvisioningInv, (\E p \in Pods : PodMoves(p)) \/ (\E g \in Gangs : GroupMoves(g))
  PROVE  ProvisioningInv'
<1> DEFINE P == {"absent", "unschedulable", "bound"}
           G == {"gone", "present", "failed"}
<1>0. phase \in [Pods -> P] /\ group \in [Gangs -> G]
  BY DEF ProvisioningInv, ProvisioningTypeOK
<1>1. ASSUME NEW p \in Pods, PodMoves(p)
      PROVE  ProvisioningInv'
  <2>1. \E to \in P : Changes(group, [phase EXCEPT ![p] = to])
    <3>1. phase[p] \in P
      BY <1>0
    <3> QED
      BY <1>1, <3>1 DEF PodMoves
  <2>2. PICK to \in P : Changes(group, [phase EXCEPT ![p] = to])
    BY <2>1
  <2>3. [phase EXCEPT ![p] = to] \in [Pods -> P]
    BY <1>0
  <2> QED
    BY <1>0, <2>2, <2>3, ChangesKeep
<1>2. ASSUME NEW g \in Gangs, GroupMoves(g)
      PROVE  ProvisioningInv'
  <2>1. \E to \in G : Changes([group EXCEPT ![g] = to], phase)
    <3>1. group[g] \in G
      BY <1>0
    <3> QED
      BY <1>2, <3>1 DEF GroupMoves
  <2>2. PICK to \in G : Changes([group EXCEPT ![g] = to], phase)
    BY <2>1
  <2>3. [group EXCEPT ![g] = to] \in [Gangs -> G]
    BY <1>0
  <2> QED
    BY <1>0, <2>2, <2>3, ChangesKeep
<1> QED
  BY <1>1, <1>2

\* Every step keeps the invariant.
LEMMA StepKeeps ==
  ASSUME ProvisioningInv, [ProvisioningNext]_vars
  PROVE  ProvisioningInv'
<1>1. CASE Reconcile
  <2>1. pass.todo \subseteq Gangs
    BY DEF ProvisioningInv, ProvisioningTypeOK
  <2> QED
    BY <1>1, <2>1, StartAndCrashKeep, VisitKeeps, WritesKeep, CollectorKeeps DEF Reconcile
<1>2. CASE UNCHANGED vars
  <2>1. UNCHANGED <<world, steady>> /\ pass' = pass
    BY <1>2 DEF vars, world
  <2>2. ProvisioningTypeOK' /\ TickOK'
    BY <1>2 DEF vars, ProvisioningInv, ProvisioningTypeOK, TickOK
  <2> QED
    BY <2>1, <2>2, SteadyKeeps DEF ProvisioningInv
<1> QED
  BY <1>1, <1>2, StartAndCrashKeep, ClusterKeeps DEF ProvisioningNext

\* The invariant holds at all times.
THEOREM ProvisioningInvHolds == ProvisioningSpec => []ProvisioningInv
<1>1. ProvisioningInit => ProvisioningInv
  <2> SUFFICES ASSUME ProvisioningInit PROVE ProvisioningInv
    OBVIOUS
  <2>1. pass = NoPass /\ steady = {}
    BY DEF ProvisioningInit
  <2>2. pass.todo = {} /\ pass.desired = {} /\ TickOK
    BY <2>1 DEF TickOK, NoPass, Stages
  <2>3. ProvisioningTypeOK
    BY SMT, <2>1, <2>2, PodGroupsAssumption DEF ProvisioningInit, ProvisioningTypeOK
  <2> QED
    BY <2>1, <2>2, <2>3 DEF ProvisioningInv
<1> QED
  BY <1>1, StepKeeps, PTL DEF ProvisioningSpec

\* ProvisioningTypeOK for any gangs and pods: no request asks for more than the
\* gang's minMember.
THEOREM ProvisioningTypeHolds == ProvisioningSpec => []ProvisioningTypeOK
<1>1. ProvisioningInv => ProvisioningTypeOK
  BY DEF ProvisioningInv
<1> QED
  BY <1>1, ProvisioningInvHolds, PTL

\* KeptWhileWanted for any gangs and pods, and whatever calls fail: an object of a
\* gang that wanted nodes all through the tick survives the collector.
THEOREM KeptWhileWantedHolds == ProvisioningSpec => KeptWhileWanted
<1> DEFINE Kept == \A g \in steady :
                     /\ request[g] > 0 => request'[g] > 0
                     /\ g \in templates => g \in templates'
<1>1. ProvisioningInv /\ [ProvisioningNext]_vars => [Kept]_vars
  <2> SUFFICES ASSUME ProvisioningInv, ProvisioningNext, NEW g \in steady
               PROVE  /\ request[g] > 0 => request'[g] > 0
                      /\ g \in templates => g \in templates'
    BY DEF vars
  <2>0. g \in Gangs /\ g \in pass.todo \cup pass.desired
    BY DEF ProvisioningInv, ProvisioningTypeOK
  <2>1. CASE UNCHANGED <<request, templates>>
    BY <2>1
  <2>2. ASSUME NEW ok \in BOOLEAN, ensurePodTemplate(ok)
        PROVE  request' = request /\ (g \in templates => g \in templates')
    BY <2>2 DEF ensurePodTemplate
  <2>3. ASSUME NEW ok \in BOOLEAN, ensureProvisioningRequest(ok)
        PROVE  templates' = templates /\ (request[g] > 0 => request'[g] > 0)
    <3>1. pass.gang \in Gangs /\ pass.count \in 1 .. MinMember[pass.gang]
      BY <2>3 DEF ensureProvisioningRequest, ProvisioningInv, TickOK
    <3>2. request' = request \/ request' = [request EXCEPT ![pass.gang] = pass.count]
      BY <2>3 DEF ensureProvisioningRequest
    <3>3. request \in [Gangs -> Nat]
      BY DEF ProvisioningInv, ProvisioningTypeOK
    <3>4. MinMember[pass.gang] \in Nat /\ pass.count > 0
      BY SMT, <3>1, PodGroupsAssumption
    <3> QED
      BY <2>0, <2>3, <3>1, <3>2, <3>3, <3>4 DEF ensureProvisioningRequest
  <2>4. ASSUME NEW gone \in SUBSET Stale, gcRequests(gone)
        PROVE  templates' = templates /\ request'[g] = request[g]
    <3>1. g \in pass.desired
      BY <2>0, <2>4 DEF gcRequests
    <3> QED
      BY <2>0, <2>4, <3>1 DEF gcRequests, Stale
  <2>5. ASSUME NEW gone \in SUBSET Stale, gcTemplates(gone)
        PROVE  request' = request /\ (g \in templates => g \in templates')
    <3>1. g \in pass.desired
      BY <2>0, <2>5 DEF gcTemplates, ProvisioningInv, TickOK
    <3> QED
      BY <2>0, <2>5, <3>1 DEF gcTemplates, Stale
  <2>6. CASE Reconcile
    <3>1. ASSUME NEW h \in pass.todo, Visit(h)
          PROVE  UNCHANGED <<request, templates>>
      BY <3>1 DEF Visit, objects
    <3>2. ASSUME StartTick \/ markMembersConsumeProvReq
          PROVE  UNCHANGED <<request, templates>>
      BY <3>2 DEF StartTick, markMembersConsumeProvReq, objects
    <3> QED
      BY <2>6, <2>1, <2>2, <2>3, <2>4, <2>5, <3>1, <3>2 DEF Reconcile
  <2>7. CASE ~Reconcile
    BY <2>1, <2>7 DEF ProvisioningNext, PodMoves, GroupMoves, Changes, Crash, objects
  <2> QED
    BY <2>6, <2>7
<1> QED
  BY <1>1, ProvisioningInvHolds, PTL DEF ProvisioningSpec, KeptWhileWanted

-----------------------------------------------------------------------------
(* The gang's life.  The types are inductive; what RegistryFollows needs   *)
(* is Informed, which says of a replica with events still to come that the *)
(* last of them is the PodGroup as it is.                                  *)

(* The versions of a PodGroup.                                             *)

LEMMA NoneIsVersion == None \in Versions
BY DEF Versions

LEMMA PhaseNamed == /\ "Failed" \in PhaseNames /\ "Completed" \in PhaseNames /\ "Running" \in PhaseNames
                    /\ "Scheduling" \in PhaseNames /\ "Pending" \in PhaseNames /\ "none" \notin PhaseNames
BY DEF PhaseNames

LEMMA NewIsVersion == NewPodGroup \in Versions
<1>1. "" \in PhaseNames  BY DEF PhaseNames
<1> QED  BY <1>1 DEF Versions, NewPodGroup

\* A status patch of a PodGroup that exists makes a version of it.
LEMMA PatchedIsVersion ==
  ASSUME NEW v \in Versions, v # None, NEW b \in BOOLEAN, NEW ph \in PhaseNames
  PROVE  /\ v.phase \in PhaseNames /\ v.admitted \in BOOLEAN
         /\ [v EXCEPT !.admitted = b] \in Versions
         /\ [v EXCEPT !.phase = ph] \in Versions
         /\ [phase |-> "Failed", admitted |-> FALSE] \in Versions
<1>1. v \in [phase : PhaseNames, admitted : BOOLEAN]  BY DEF Versions
<1> QED  BY <1>1, PhaseNamed DEF Versions

LEMMA PhaseIsNamed == ASSUME NEW g, NEW a PROVE Phase(g, a) \in PhaseNames
BY PhaseNamed DEF Phase

-----------------------------------------------------------------------------
(* A new version in the queues of the informers.                           *)

LEMMA SeenQueue ==
  ASSUME NEW q \in Seq(Versions), Len(q) <= MaxLag, NEW obj \in Versions
  PROVE  /\ Seen(q, obj) \in Seq(Versions) /\ Len(Seen(q, obj)) <= MaxLag
         /\ Seen(q, obj) # <<>> /\ Seen(q, obj)[Len(Seen(q, obj))] = obj
<1>0. MaxLag \in Nat \ {0}  BY GangLifecycleAssumption
<1>1. CASE Len(q) < MaxLag
  <2>1. Seen(q, obj) = Append(q, obj)  BY <1>1 DEF Seen
  <2> QED  BY SMT, <1>0, <1>1, <2>1
<1>2. CASE ~(Len(q) < MaxLag)
  <2>0. Len(q) = MaxLag  BY SMT, <1>0, <1>2
  <2>1. Seen(q, obj) = [q EXCEPT ![MaxLag] = obj]  BY <1>2 DEF Seen
  <2>2. q \in [1..MaxLag -> Versions]  BY SMT, <2>0
  <2>3. Seen(q, obj) \in [1..MaxLag -> Versions]  BY <2>1, <2>2
  <2>4. Seen(q, obj) \in Seq(Versions) /\ Len(Seen(q, obj)) = MaxLag  BY SMT, <1>0, <2>3
  <2> QED  BY SMT, <1>0, <2>1, <2>2, <2>4
<1> QED  BY <1>1, <1>2

Newest(r, g) == IF events[r][g] = <<>> THEN store[r][g] ELSE events[r][g][Len(events[r][g])]

\* RegistryFollows with what makes it inductive: the version an informer will have
\* seen last is the API server's, and a registry that has nothing to take in goes
\* with the store.
Informed ==
  \A r \in Replicas : \A g \in Gangs :
    /\ Newest(r, g) = pg[g]
    /\ events[r][g] = <<>> =>
         /\ registry[r][g] = "unknown" <=> store[r][g] = None
         /\ store[r][g].phase = "Failed" => registry[r][g] = "failed"

LEMMA WriteKeeps ==
  ASSUME GangTypeOK, NEW g \in Gangs, NEW obj \in Versions, Write(g, obj)
  PROVE  /\ pg' \in [Gangs -> Versions]
         /\ events' \in [Replicas -> [Gangs -> Seq(Versions)]]
         /\ \A r \in Replicas : \A h \in Gangs : Len(events'[r][h]) <= MaxLag
         /\ Informed /\ UNCHANGED <<store, registry>> => Informed'
<1>1. pg' \in [Gangs -> Versions] /\ pg' = [pg EXCEPT ![g] = obj] /\ pg'[g] = obj
  BY DEF Write, GangTypeOK
<1>2. CASE obj = pg[g]
  <2>1. pg' = pg /\ events' = events  BY <1>2 DEF Write, GangTypeOK
  <2>2. Informed /\ UNCHANGED <<store, registry>> => Informed'
    BY SMT, <2>1 DEF Informed, Newest
  <2>3. events' \in [Replicas -> [Gangs -> Seq(Versions)]]  BY <2>1 DEF GangTypeOK
  <2>4. \A r \in Replicas : \A h \in Gangs : Len(events'[r][h]) <= MaxLag  BY <2>1 DEF GangTypeOK
  <2> QED  BY <1>1, <2>2, <2>3, <2>4
<1>3. CASE obj # pg[g]
  <2>1. events' = [r \in Replicas |-> [events[r] EXCEPT ![g] = Seen(events[r][g], obj)]]
    BY <1>3 DEF Write
  <2>2. ASSUME NEW r \in Replicas
        PROVE  /\ events[r] \in [Gangs -> Seq(Versions)] /\ Len(events[r][g]) <= MaxLag
               /\ events'[r] = [events[r] EXCEPT ![g] = Seen(events[r][g], obj)]
    BY <2>1 DEF GangTypeOK
  <2>3. ASSUME NEW r \in Replicas
        PROVE  /\ events'[r] \in [Gangs -> Seq(Versions)]
               /\ events'[r][g] # <<>> /\ events'[r][g][Len(events'[r][g])] = obj
               /\ Len(events'[r][g]) <= MaxLag
               /\ \A h \in Gangs \ {g} : events'[r][h] = events[r][h]
    <3>1. events[r][g] \in Seq(Versions) /\ Len(events[r][g]) <= MaxLag  BY <2>2
    <3>2. /\ Seen(events[r][g], obj) \in Seq(Versions)
          /\ Len(Seen(events[r][g], obj)) <= MaxLag
          /\ Seen(events[r][g], obj) # <<>>
          /\ Seen(events[r][g], obj)[Len(Seen(events[r][g], obj))] = obj
      BY <3>1, SeenQueue
    <3>3. events'[r][g] = Seen(events[r][g], obj)  BY <2>2
    <3>4. events'[r] \in [Gangs -> Seq(Versions)]
      <4> DEFINE T == Seq(Versions)
                 v == Seen(events[r][g], obj)
      <4>1. v \in T /\ events[r] \in [Gangs -> T]  BY <2>2, <3>2
      <4> HIDE DEF T, v
      <4>2. [events[r] EXCEPT ![g] = v] \in [Gangs -> T]  BY <4>1
      <4> QED  BY <2>2, <4>2 DEF T, v
    <3>5. \A h \in Gangs \ {g} : events'[r][h] = events[r][h]  BY <2>2
    <3> QED  BY <3>2, <3>3, <3>4, <3>5
  <2>4. events' \in [Replicas -> [Gangs -> Seq(Versions)]]  BY <2>1, <2>3
  <2>5. \A r \in Replicas : \A h \in Gangs : Len(events'[r][h]) <= MaxLag
    BY <2>3 DEF GangTypeOK
  <2>6. ASSUME Informed, UNCHANGED <<store, registry>> PROVE Informed'
    <3> SUFFICES ASSUME NEW r \in Replicas, NEW h \in Gangs
                 PROVE  /\ Newest(r, h)' = pg'[h]
                        /\ events'[r][h] = <<>> =>
                             /\ registry'[r][h] = "unknown" <=> store'[r][h] = None
                             /\ store'[r][h].phase = "Failed" => registry'[r][h] = "failed"
      BY DEF Informed
    <3>1. CASE h = g  BY <1>1, <2>3, <3>1 DEF Newest
    <3>2. CASE h # g
      <4>1. pg'[h] = pg[h] /\ events'[r][h] = events[r][h]  BY <1>1, <2>3, <3>2 DEF GangTypeOK
      <4> QED  BY SMT, <2>6, <4>1 DEF Informed, Newest
    <3> QED  BY <3>1, <3>2
  <2> QED  BY <1>1, <2>4, <2>5, <2>6
<1> QED  BY <1>2, <1>3

LEMMA PatchKeeps ==
  ASSUME GangTypeOK, NEW g \in Gangs, NEW obj, Exists(g) => obj \in Versions, Patch(g, obj)
  PROVE  /\ pg' \in [Gangs -> Versions]
         /\ events' \in [Replicas -> [Gangs -> Seq(Versions)]]
         /\ \A r \in Replicas : \A h \in Gangs : Len(events'[r][h]) <= MaxLag
         /\ Informed /\ UNCHANGED <<store, registry>> => Informed'
<1>1. CASE Exists(g) /\ Write(g, obj)  BY <1>1, WriteKeeps
<1>2. CASE UNCHANGED <<pg, events>>  BY SMT, <1>2 DEF GangTypeOK, Informed, Newest
<1> QED  BY <1>1, <1>2 DEF Patch

-----------------------------------------------------------------------------
(* Types and the informers, action by action.                              *)

LEMMA TicksTyped ==
  ASSUME tick \in Ticks
  PROVE  /\ tick.op = "sync" => tick.todo \subseteq Gangs \X BOOLEAN
         /\ tick.op = "check" => tick.todo \subseteq Gangs \X Nat
         /\ tick.op = "failing" => tick.gang \in Gangs /\ tick.todo \subseteq Gangs \X Nat
         /\ tick.op = "phases" => tick.todo \subseteq Gangs \X PhaseNames \X BOOLEAN
BY SMT DEF Ticks, Idle

LEMMA TicksMade ==
  /\ Idle \in Ticks
  /\ \A T \in SUBSET (Gangs \X BOOLEAN) : [op |-> "sync", todo |-> T] \in Ticks
  /\ \A T \in SUBSET (Gangs \X Nat) :
       /\ [op |-> "check", todo |-> T] \in Ticks
       /\ \A g \in Gangs : [op |-> "failing", gang |-> g, todo |-> T] \in Ticks
  /\ \A T \in SUBSET (Gangs \X PhaseNames \X BOOLEAN) : Phases(T) \in Ticks
BY DEF Ticks, Phases

LEMMA TicksLess ==
  ASSUME tick \in Ticks, tick.op \in {"sync", "check"}, NEW t
  PROVE  [tick EXCEPT !.todo = @ \ {t}] \in Ticks
<1>1. CASE tick \in [op : {"sync"}, todo : SUBSET (Gangs \X BOOLEAN)]
  <2>1. [tick EXCEPT !.todo = @ \ {t}] \in [op : {"sync"}, todo : SUBSET (Gangs \X BOOLEAN)]
    BY <1>1
  <2> QED  BY <2>1 DEF Ticks
<1>2. CASE tick \in [op : {"check"}, todo : SUBSET (Gangs \X Nat)]
  <2>1. [tick EXCEPT !.todo = @ \ {t}] \in [op : {"check"}, todo : SUBSET (Gangs \X Nat)]
    BY <1>2
  <2> QED  BY <2>1 DEF Ticks
<1> QED  BY <1>1, <1>2 DEF Ticks, Idle

LEMMA MemberStep ==
  ASSUME GangTypeOK, NEW p \in Pods,
         \/ CreateMember(p) \/ PreEnqueue(p) \/ Permit(p) \/ Unassume(p) \/ Succeed(p) \/ DeleteMember(p)
  PROVE  GangTypeOK' /\ UNCHANGED <<pg, events, replicaVars>>
<1>1. UNCHANGED <<pg, events, replicaVars>>
  BY DEF CreateMember, PreEnqueue, Permit, Unassume, Succeed, DeleteMember
<1>2. member' \in [Pods -> {"absent", "gated", "admitting", "active", "waiting", "bound", "succeeded"}]
  <2>1. CASE Permit(p)  BY <2>1 DEF Permit, GangTypeOK
  <2>2. CASE ~Permit(p)
    BY <2>2 DEF CreateMember, PreEnqueue, Unassume, Succeed, DeleteMember, Becomes, GangTypeOK
  <2> QED  BY <2>1, <2>2
<1> QED  BY <1>1, <1>2 DEF GangTypeOK, replicaVars

LEMMA AdmitStep ==
  ASSUME GangTypeOK, NEW p \in Pods, Admit(p)
  PROVE  GangTypeOK'
<1>0. GangOf[p] \in Gangs /\ Sched \in Replicas  BY PodGroupsAssumption, GangLifecycleAssumption
<1>1. ledger' \in [Replicas -> SUBSET Gangs]
  <2>1. ledger' = [ledger EXCEPT ![Sched] = @ \cup {GangOf[p]}] \/ ledger' = ledger  BY DEF Admit
  <2>2. ledger \in [Replicas -> SUBSET Gangs]  BY DEF GangTypeOK
  <2>3. ledger[Sched] \cup {GangOf[p]} \in SUBSET Gangs  BY <1>0, <2>2
  <2> QED  BY <1>0, <2>1, <2>2, <2>3
<1>2. member' \in [Pods -> {"absent", "gated", "admitting", "active", "waiting", "bound", "succeeded"}]
  BY DEF Admit, Becomes, GangTypeOK
<1>3. UNCHANGED <<pg, store, events, registry, ready, recovering, sweep, clock, tick>>  BY DEF Admit
<1> QED  BY <1>1, <1>2, <1>3 DEF GangTypeOK

LEMMA OwnerStep ==
  ASSUME GangTypeOK, NEW g \in Gangs, CreatePodGroup(g) \/ DeletePodGroup(g)
  PROVE  GangTypeOK' /\ (Informed => Informed')
<1>1. PICK obj \in Versions : Write(g, obj)
  BY NoneIsVersion, NewIsVersion DEF CreatePodGroup, DeletePodGroup
<1>2. UNCHANGED <<replicaVars, member>>  BY DEF CreatePodGroup, DeletePodGroup
<1>3. UNCHANGED <<store, registry, ledger, ready, recovering, sweep, clock, tick, member>>
  BY <1>2 DEF replicaVars
<1>4. /\ pg' \in [Gangs -> Versions]
      /\ events' \in [Replicas -> [Gangs -> Seq(Versions)]]
      /\ \A r \in Replicas : \A h \in Gangs : Len(events'[r][h]) <= MaxLag
      /\ Informed /\ UNCHANGED <<store, registry>> => Informed'
  BY <1>1, WriteKeeps
<1> QED  BY <1>3, <1>4 DEF GangTypeOK

\* The oldest of the versions that wait is taken in.
LEMMA InformerStep ==
  ASSUME GangTypeOK, NEW r \in Replicas, NEW g \in Gangs, OnPodGroup(r, g)
  PROVE  GangTypeOK' /\ (Informed => Informed')
<1> DEFINE q == events[r][g]
           obj == Head(q)
           reg == IF obj = None THEN "unknown" ELSE IF obj.phase = "Failed" THEN "failed" ELSE "live"
<1>1. /\ q \in Seq(Versions) /\ q # <<>> /\ Len(q) <= MaxLag /\ MaxLag \in Nat
  BY GangLifecycleAssumption DEF OnPodGroup, GangTypeOK
<1>2. /\ obj \in Versions /\ obj = q[1] /\ Tail(q) \in Seq(Versions) /\ Len(Tail(q)) = Len(q) - 1
      /\ Len(q) \in Nat \ {0} /\ Len(Tail(q)) <= MaxLag
      /\ Tail(q) = <<>> => Len(q) = 1
      /\ Tail(q) # <<>> => Tail(q)[Len(Tail(q))] = q[Len(q)]
  <2> HIDE DEF q
  <2>1. Len(q) \in Nat \ {0} /\ obj = q[1] /\ obj \in Versions  BY SMT, <1>1
  <2>2. Tail(q) \in Seq(Versions) /\ Len(Tail(q)) = Len(q) - 1  BY SMT, <1>1
  <2>3. Tail(q) = <<>> => Len(q) = 1  BY SMTT(30), <1>1, <2>1, <2>2
  <2>4. Tail(q) # <<>> => Len(Tail(q)) \in 1..Len(Tail(q))  BY SMT, <2>2
  <2>5. Tail(q) # <<>> => Tail(q)[Len(Tail(q))] = q[Len(q)]  BY SMT, <1>1, <2>1, <2>2, <2>4
  <2> QED  BY SMT, <1>1, <2>1, <2>2, <2>3, <2>5
<1>3. /\ store' = [store EXCEPT ![r][g] = obj]
      /\ registry' = [registry EXCEPT ![r][g] = reg]
      /\ ledger' = IF obj = None THEN [ledger EXCEPT ![r] = @ \ {g}] ELSE ledger
      /\ events' = [events EXCEPT ![r][g] = Tail(q)]
      /\ UNCHANGED <<pg, ready, recovering, sweep, clock, tick, member>>
  BY DEF OnPodGroup
<1>4. reg \in {"unknown", "live", "failed"} /\ (reg = "unknown" <=> obj = None)
      /\ (obj.phase = "Failed" => reg = "failed")
  BY SMT DEF None
<1> DEFINE rest == Tail(q)
           Histories == Seq(Versions)
<1>5. rest \in Histories /\ events \in [Replicas -> [Gangs -> Histories]]  BY <1>2 DEF GangTypeOK
<1>6. events' = [events EXCEPT ![r][g] = rest] /\ Len(rest) <= MaxLag  BY <1>2, <1>3
<1>7. /\ rest = <<>> => obj = q[Len(q)]
      /\ rest # <<>> => rest[Len(rest)] = q[Len(q)]
  BY <1>2
<1>8. q # <<>> /\ q = events[r][g] /\ obj \in Versions  BY <1>1, <1>2
<1> HIDE DEF rest, Histories, obj, reg, q
<1>9. events' \in [Replicas -> [Gangs -> Histories]]  BY <1>5, <1>6
<1>10. /\ store' \in [Replicas -> [Gangs -> Versions]]
       /\ registry' \in [Replicas -> [Gangs -> {"unknown", "live", "failed"}]]
       /\ ledger' \in [Replicas -> SUBSET Gangs]
  BY <1>3, <1>4, <1>8 DEF GangTypeOK
<1>11. \A s \in Replicas : \A h \in Gangs :
         IF s = r /\ h = g THEN events'[s][h] = rest /\ store'[s][h] = obj /\ registry'[s][h] = reg
         ELSE events'[s][h] = events[s][h] /\ store'[s][h] = store[s][h] /\ registry'[s][h] = registry[s][h]
  BY SMT, <1>3, <1>5, <1>6 DEF GangTypeOK
<1>12. GangTypeOK'
  <2>1. \A s \in Replicas : \A h \in Gangs : Len(events'[s][h]) <= MaxLag
    BY <1>6, <1>11 DEF GangTypeOK
  <2> QED  BY <1>3, <1>9, <1>10, <2>1 DEF GangTypeOK, Histories
<1>13. ASSUME Informed PROVE Informed'
  <2> SUFFICES ASSUME NEW s \in Replicas, NEW h \in Gangs
               PROVE  /\ Newest(s, h)' = pg'[h]
                      /\ events'[s][h] = <<>> =>
                           /\ registry'[s][h] = "unknown" <=> store'[s][h] = None
                           /\ store'[s][h].phase = "Failed" => registry'[s][h] = "failed"
    BY DEF Informed
  <2>1. CASE s = r /\ h = g
    <3>1. q[Len(q)] = pg[g]  BY <1>8, <1>13 DEF Informed, Newest
    <3> QED  BY <1>3, <1>4, <1>7, <1>11, <2>1, <3>1 DEF Newest
  <2>2. CASE ~(s = r /\ h = g)
    BY SMT, <1>3, <1>11, <1>13, <2>2 DEF Informed, Newest
  <2> QED  BY <2>1, <2>2
<1> QED  BY <1>12, <1>13

\* The rebuild and the sweep change the ledger and their own state only.
LEMMA RebuildStep ==
  ASSUME GangTypeOK, NEW r \in Replicas,
         SwapTree(r) \/ RecoverGangs(r) \/ GCList(r) \/ GCGangs(r)
  PROVE  GangTypeOK' /\ (Informed => Informed')
<1>1. UNCHANGED <<pg, store, events, registry, clock, tick, member>>
  BY DEF SwapTree, RecoverGangs, GCList, GCGangs
<1>2. Informed => Informed'  BY <1>1 DEF Informed, Newest
<1>3. CASE SwapTree(r)
  <2>1. /\ ready' = ready \cup {r} /\ recovering' = recovering \cup {r}
        /\ UNCHANGED <<ledger, sweep>>
    BY <1>3 DEF SwapTree
  <2> QED  BY <1>1, <1>2, <2>1 DEF GangTypeOK
<1>4. CASE RecoverGangs(r)
  <2>1. PICK R \in SUBSET Gangs : ledger' = [ledger EXCEPT ![r] = @ \cup R]
    BY <1>4 DEF RecoverGangs
  <2>2. ledger \in [Replicas -> SUBSET Gangs]  BY DEF GangTypeOK
  <2>3. ledger[r] \cup R \in SUBSET Gangs  BY <2>2
  <2>4. ledger' \in [Replicas -> SUBSET Gangs]  BY <2>1, <2>2, <2>3
  <2>5. recovering' = recovering \ {r} /\ UNCHANGED <<ready, sweep>>  BY <1>4 DEF RecoverGangs
  <2> QED  BY <1>1, <1>2, <2>4, <2>5 DEF GangTypeOK
<1>5. CASE GCList(r)
  <2>1. /\ sweep' = [sweep EXCEPT ![r] = {g \in Gangs : store[r][g] # None}]
        /\ UNCHANGED <<ledger, ready, recovering>>
    BY <1>5 DEF GCList
  <2>2. sweep' \in [Replicas -> {NoSweep} \cup SUBSET Gangs]  BY <2>1 DEF GangTypeOK
  <2> QED  BY <1>1, <1>2, <2>1, <2>2 DEF GangTypeOK
<1>6. CASE GCGangs(r)
  <2>1. /\ ledger' = [ledger EXCEPT ![r] = @ \cap sweep[r]]
        /\ sweep' = [sweep EXCEPT ![r] = NoSweep]
        /\ UNCHANGED <<ready, recovering>>
    BY <1>6 DEF GCGangs
  <2>2. ledger \in [Replicas -> SUBSET Gangs]  BY DEF GangTypeOK
  <2>3. ledger[r] \cap sweep[r] \in SUBSET Gangs  BY <2>2
  <2>4. ledger' \in [Replicas -> SUBSET Gangs]  BY <2>1, <2>2, <2>3
  <2>5. sweep' \in [Replicas -> {NoSweep} \cup SUBSET Gangs]  BY <2>1 DEF GangTypeOK
  <2> QED  BY <1>1, <1>2, <2>1, <2>4, <2>5 DEF GangTypeOK
<1> QED  BY <1>3, <1>4, <1>5, <1>6

LEMMA PassStartStep ==
  ASSUME GangTypeOK, SyncStart \/ CheckStart \/ PhasesStart
  PROVE  GangTypeOK' /\ (Informed => Informed')
<1>0. Recon \in Replicas /\ ScheduleTO \in [Gangs -> Nat \ {0}]  BY GangLifecycleAssumption
<1>1. UNCHANGED <<pg, store, events, registry, ledger, ready, recovering, sweep, member>>
  BY DEF SyncStart, CheckStart, PhasesStart
<1>2. Informed => Informed'  BY <1>1 DEF Informed, Newest
<1>3. CASE SyncStart
  <2>1. clock' \in [Gangs -> Nat \cup {NoClock}] /\ \A g \in Gangs : clock'[g] <= ScheduleTO[g]
    BY SMT, <1>0, <1>3 DEF SyncStart, GangTypeOK, NoClock
  <2> DEFINE T == {<<g, g \in ledger[Recon]>> : g \in
                     {h \in podGroups : store[Recon][h].admitted # (h \in ledger[Recon])}}
  <2>a. T \in SUBSET (Gangs \X BOOLEAN)
    <3> SUFFICES ASSUME NEW g \in podGroups PROVE <<g, g \in ledger[Recon]>> \in Gangs \X BOOLEAN
      OBVIOUS
    <3> DEFINE b == g \in ledger[Recon]
    <3>1. b \in BOOLEAN  BY SMT
    <3>a. g \in Gangs  BY DEF podGroups
    <3> HIDE DEF b
    <3>2. <<g, b>> \in Gangs \X BOOLEAN  BY <3>1, <3>a
    <3> QED  BY <3>2 DEF b
  <2>b. tick' = [op |-> "sync", todo |-> T]  BY <1>3 DEF SyncStart
  <2> HIDE DEF T
  <2>2. tick' \in Ticks  BY <2>a, <2>b, TicksMade
  <2> QED  BY <1>1, <1>2, <2>1, <2>2 DEF GangTypeOK
<1>4. CASE CheckStart
  <2>1. {<<g, clock[g]>> : g \in {h \in Gangs : Overdue(h)}} \in SUBSET (Gangs \X Nat)
    BY SMT DEF Overdue, GangTypeOK
  <2>2. tick' \in Ticks /\ clock' = clock  BY <1>4, <2>1, TicksMade DEF CheckStart
  <2> QED  BY <1>1, <1>2, <2>2 DEF GangTypeOK
<1>5. CASE PhasesStart
  <2> DEFINE T == {<<g, store[Recon][g].phase, g \in ledger[Recon]>> : g \in
                     {h \in podGroups : store[Recon][h].phase # "Failed"}}
  <2>1. \A g \in podGroups : g \in Gangs /\ store[Recon][g].phase \in PhaseNames
    <3> SUFFICES ASSUME NEW g \in podGroups
                 PROVE  g \in Gangs /\ store[Recon][g].phase \in PhaseNames
      OBVIOUS
    <3>1. g \in Gangs /\ store[Recon][g] \in Versions /\ store[Recon][g] # None
      BY <1>0 DEF podGroups, GangTypeOK
    <3> QED  BY <3>1, PatchedIsVersion, PhaseNamed
  <2>2. T \in SUBSET (Gangs \X PhaseNames \X BOOLEAN)
    <3> SUFFICES ASSUME NEW g \in podGroups
                 PROVE  <<g, store[Recon][g].phase, g \in ledger[Recon]>> \in Gangs \X PhaseNames \X BOOLEAN
      OBVIOUS
    <3> DEFINE b == g \in ledger[Recon]
    <3>1. b \in BOOLEAN  BY SMT
    <3>a. g \in Gangs  BY DEF podGroups
    <3> HIDE DEF b
    <3>2. <<g, store[Recon][g].phase, b>> \in Gangs \X PhaseNames \X BOOLEAN  BY <2>1, <3>1, <3>a
    <3> QED  BY <3>2 DEF b
  <2>3. tick' = Phases(T) /\ clock' = clock  BY <1>5 DEF PhasesStart
  <2> HIDE DEF T
  <2>4. tick' \in Ticks  BY <2>2, <2>3, TicksMade
  <2> QED  BY <1>1, <1>2, <2>3, <2>4 DEF GangTypeOK
<1> QED  BY <1>3, <1>4, <1>5

\* A patch of the reclaim loop and the rest of its pass.
LEMMA PatchStep ==
  ASSUME GangTypeOK, NEW g \in Gangs, NEW obj, Exists(g) => obj \in Versions,
         Patch(g, obj) \/ UNCHANGED <<pg, events>>, tick' \in Ticks,
         UNCHANGED <<store, registry, ledger, ready, recovering, sweep, clock, member>>
  PROVE  GangTypeOK' /\ (Informed => Informed')
<1>1. /\ pg' \in [Gangs -> Versions]
      /\ events' \in [Replicas -> [Gangs -> Seq(Versions)]]
      /\ \A r \in Replicas : \A h \in Gangs : Len(events'[r][h]) <= MaxLag
      /\ Informed => Informed'
  <2>1. CASE Patch(g, obj)  BY <2>1, PatchKeeps
  <2>2. CASE UNCHANGED <<pg, events>>  BY <2>2 DEF GangTypeOK, Informed, Newest
  <2> QED  BY <2>1, <2>2
<1> QED  BY <1>1 DEF GangTypeOK

LEMMA ReclaimStep ==
  ASSUME GangTypeOK, ReclaimTick
  PROVE  GangTypeOK' /\ (Informed => Informed')
<1>0. tick \in Ticks /\ pg \in [Gangs -> Versions] /\ Recon \in Replicas
  BY GangLifecycleAssumption DEF GangTypeOK
<1>1. CASE SyncStart \/ CheckStart \/ PhasesStart  BY <1>1, PassStartStep
<1>2. CASE PatchGangFailed
  <2>1. tick.gang \in Gangs /\ tick.todo \in SUBSET (Gangs \X Nat)
    BY <1>0, <1>2, TicksTyped DEF PatchGangFailed
  <2>2. [phase |-> "Failed", admitted |-> FALSE] \in Versions  BY PhaseNamed DEF Versions
  <2>3. tick' \in Ticks  BY <1>2, <2>1, TicksMade DEF PatchGangFailed
  <2>4. /\ Patch(tick.gang, [phase |-> "Failed", admitted |-> FALSE])
        /\ UNCHANGED <<store, registry, ledger, ready, recovering, sweep, clock, member>>
    BY <1>2 DEF PatchGangFailed
  <2> QED  BY <2>1, <2>2, <2>3, <2>4, PatchStep
<1>3. ASSUME tick.op = "sync", NEW t \in tick.todo, SyncGangStatus(t[1], t[2])
      PROVE  GangTypeOK' /\ (Informed => Informed')
  <2>1. t[1] \in Gangs /\ t[2] \in BOOLEAN  BY <1>0, <1>3, TicksTyped
  <2> DEFINE obj == [pg[t[1]] EXCEPT !.admitted = t[2]]
  <2>2. Exists(t[1]) => obj \in Versions  BY <1>0, <2>1, PatchedIsVersion, PhaseNamed DEF Exists
  <2>3. tick' \in Ticks  BY <1>0, <1>3, TicksLess DEF SyncGangStatus
  <2>4. /\ Patch(t[1], obj)
        /\ UNCHANGED <<store, registry, ledger, ready, recovering, sweep, clock, member>>
    BY <1>3 DEF SyncGangStatus
  <2> HIDE DEF obj
  <2> QED  BY <2>1, <2>2, <2>3, <2>4, PatchStep
<1>4. ASSUME tick.op = "check", NEW t \in tick.todo, CheckGang(t[1], t[2])
      PROVE  GangTypeOK' /\ (Informed => Informed')
  <2> DEFINE g == t[1]
  <2>1. g \in Gangs /\ tick.todo \ {<<t[1], t[2]>>} \in SUBSET (Gangs \X Nat)
    BY <1>0, <1>4, TicksTyped
  <2>2. UNCHANGED <<pg, store, events, ready, recovering, sweep, member>>
    BY <1>4 DEF CheckGang
  <2>3. CASE gangTimeoutVerdict(t[1], t[2])
    <3>1. /\ registry' = [registry EXCEPT ![Recon][g] = IF @ = "unknown" THEN @ ELSE "failed"]
          /\ clock' = [clock EXCEPT ![g] = NoClock]
          /\ ledger' = [ledger EXCEPT ![Recon] = @ \ {g}]
          /\ tick' = [op |-> "failing", gang |-> g, todo |-> tick.todo \ {<<t[1], t[2]>>}]
      BY <1>4, <2>3 DEF CheckGang
    <3>2. tick' \in Ticks  BY <2>1, <3>1, TicksMade
    <3> HIDE DEF g
    <3>3. registry' \in [Replicas -> [Gangs -> {"unknown", "live", "failed"}]]
      BY <1>0, <2>1, <3>1 DEF GangTypeOK
    <3>4. ledger' \in [Replicas -> SUBSET Gangs]
      <4>1. ledger \in [Replicas -> SUBSET Gangs]  BY DEF GangTypeOK
      <4>2. ledger[Recon] \ {g} \in SUBSET Gangs  BY <1>0, <4>1
      <4> QED  BY <1>0, <3>1, <4>1, <4>2
    <3>5. clock' \in [Gangs -> Nat \cup {NoClock}] /\ \A h \in Gangs : clock'[h] <= ScheduleTO[h]
      <4>1. clock \in [Gangs -> Nat \cup {NoClock}] /\ \A h \in Gangs : clock[h] <= ScheduleTO[h]
        BY DEF GangTypeOK
      <4>2. \A h \in Gangs : ScheduleTO[h] \in Nat  BY GangLifecycleAssumption
      <4> QED  BY SMT, <2>1, <3>1, <4>1, <4>2 DEF NoClock
    <3>6. \A r \in Replicas : \A h \in Gangs :
            /\ registry'[r][h] = "unknown" <=> registry[r][h] = "unknown"
            /\ registry[r][h] = "failed" => registry'[r][h] = "failed"
      BY <1>0, <2>1, <3>1 DEF GangTypeOK
    <3>7. Informed => Informed'  BY <2>2, <3>6 DEF Informed, Newest
    <3> QED  BY <2>2, <3>2, <3>3, <3>4, <3>5, <3>7 DEF GangTypeOK
  <2>4. CASE ~gangTimeoutVerdict(t[1], t[2])
    <3>1. tick' = [tick EXCEPT !.todo = @ \ {<<t[1], t[2]>>}] /\ UNCHANGED <<registry, clock, ledger>>
      BY <1>4, <2>4 DEF CheckGang
    <3>2. tick' \in Ticks  BY <1>0, <1>4, <3>1, TicksLess
    <3> QED  BY <2>2, <3>1, <3>2 DEF GangTypeOK, Informed, Newest
  <2> QED  BY <2>3, <2>4
<1>5. ASSUME tick.op = "phases", NEW t \in tick.todo, SyncPodGroupPhase(t[1], t[2], t[3])
      PROVE  GangTypeOK' /\ (Informed => Informed')
  <2> DEFINE ph == Phase(t[1], t[3])
             obj == [pg[t[1]] EXCEPT !.phase = ph]
  <2>1. t[1] \in Gangs /\ tick.todo \ {<<t[1], t[2], t[3]>>} \in SUBSET (Gangs \X PhaseNames \X BOOLEAN)
    BY <1>0, <1>5, TicksTyped
  <2>2. Exists(t[1]) => obj \in Versions
    <3>1. ph \in PhaseNames  BY PhaseIsNamed
    <3> HIDE DEF ph
    <3> QED  BY <1>0, <2>1, <3>1, PatchedIsVersion DEF Exists
  <2>3. tick' \in Ticks  BY <1>5, <2>1, TicksMade DEF SyncPodGroupPhase
  <2>4. /\ Patch(t[1], obj) \/ UNCHANGED <<pg, events>>
        /\ UNCHANGED <<store, registry, ledger, ready, recovering, sweep, clock, member>>
    BY <1>5 DEF SyncPodGroupPhase
  <2> HIDE DEF obj
  <2> QED  BY <2>1, <2>2, <2>3, <2>4, PatchStep
<1> QED  BY <1>1, <1>2, <1>3, <1>4, <1>5 DEF ReclaimTick

LEMMA ElapseStep ==
  ASSUME GangTypeOK, Elapse
  PROVE  GangTypeOK' /\ (Informed => Informed')
<1>0. \A g \in Gangs : ScheduleTO[g] \in Nat  BY GangLifecycleAssumption
<1>1. UNCHANGED <<pg, store, events, registry, ledger, ready, recovering, sweep, tick, member>>
  BY DEF Elapse
<1>2. Informed => Informed'  BY <1>1 DEF Informed, Newest
<1>3. clock' = [g \in Gangs |-> IF Runs(g) THEN clock[g] + 1 ELSE clock[g]]
  BY DEF Elapse
<1>4. clock' \in [Gangs -> Nat \cup {NoClock}] /\ \A g \in Gangs : clock'[g] <= ScheduleTO[g]
  BY SMT, <1>0, <1>3 DEF Runs, NoClock, GangTypeOK
<1> QED  BY <1>1, <1>2, <1>4 DEF GangTypeOK

\* A replica that starts has every PodGroup in its store, and its handler has yet
\* to see those that exist.
LEMMA RestartStep ==
  ASSUME GangTypeOK, NEW r \in Replicas, Restart(r)
  PROVE  GangTypeOK' /\ (Informed => Informed')
<1> DEFINE lists == [g \in Gangs |-> IF Exists(g) THEN <<pg[g]>> ELSE <<>>]
           Histories == Seq(Versions)
           blank == [g \in Gangs |-> "unknown"]
<1>1. /\ store' = [store EXCEPT ![r] = pg]
      /\ events' = [events EXCEPT ![r] = lists]
      /\ registry' = [registry EXCEPT ![r] = blank]
      /\ ledger' = [ledger EXCEPT ![r] = {}]
      /\ ready' = ready \ {r} /\ recovering' = recovering \ {r}
      /\ sweep' = [sweep EXCEPT ![r] = NoSweep]
      /\ pg' = pg
  BY DEF Restart
<1>2. \A g \in Gangs : pg[g] \in Versions  BY DEF GangTypeOK
<1>3. \A v \in Versions : <<v>> \in Histories /\ <<v>> # <<>> /\ Len(<<v>>) = 1 /\ <<v>>[1] = v
  BY SMT
<1>4. <<>> \in Histories /\ Len(<<>>) = 0 /\ 1 <= MaxLag /\ 0 <= MaxLag  BY SMT, GangLifecycleAssumption
<1>5. /\ lists \in [Gangs -> Histories]
      /\ \A g \in Gangs : /\ Len(lists[g]) <= MaxLag
                          /\ IF pg[g] = None THEN lists[g] = <<>>
                             ELSE lists[g] # <<>> /\ lists[g][Len(lists[g])] = pg[g]
  <2> HIDE DEF Histories
  <2> SUFFICES ASSUME NEW g \in Gangs
               PROVE  /\ lists[g] \in Histories
                      /\ Len(lists[g]) <= MaxLag
                      /\ IF pg[g] = None THEN lists[g] = <<>>
                         ELSE lists[g] # <<>> /\ lists[g][Len(lists[g])] = pg[g]
    OBVIOUS
  <2>1. CASE Exists(g)
    <3>1. lists[g] = <<pg[g]>>  BY <2>1
    <3> QED  BY <1>2, <1>3, <1>4, <2>1, <3>1 DEF Exists
  <2>2. CASE ~Exists(g)
    <3>1. lists[g] = <<>>  BY <2>2
    <3> QED  BY <1>4, <2>2, <3>1 DEF Exists
  <2> QED  BY <2>1, <2>2
<1>6. events \in [Replicas -> [Gangs -> Histories]]  BY DEF GangTypeOK
<1>7. blank \in [Gangs -> {"unknown", "live", "failed"}] /\ \A g \in Gangs : blank[g] = "unknown"
  OBVIOUS
<1> HIDE DEF lists, Histories, blank
<1>8. /\ events' \in [Replicas -> [Gangs -> Histories]]
      /\ events'[r] = lists /\ \A s \in Replicas \ {r} : events'[s] = events[s]
  BY <1>1, <1>5, <1>6
<1>9. /\ store' \in [Replicas -> [Gangs -> Versions]]
      /\ store'[r] = pg /\ \A s \in Replicas \ {r} : store'[s] = store[s]
  BY <1>1 DEF GangTypeOK
<1>10. /\ registry' \in [Replicas -> [Gangs -> {"unknown", "live", "failed"}]]
       /\ registry'[r] = blank /\ \A s \in Replicas \ {r} : registry'[s] = registry[s]
  BY <1>1, <1>7 DEF GangTypeOK
<1>11. /\ ledger' \in [Replicas -> SUBSET Gangs]
       /\ sweep' \in [Replicas -> {NoSweep} \cup SUBSET Gangs]
       /\ ready' \subseteq Replicas /\ recovering' \subseteq ready'
  BY <1>1 DEF GangTypeOK
<1>12. clock' \in [Gangs -> Nat \cup {NoClock}] /\ \A g \in Gangs : clock'[g] <= ScheduleTO[g]
  BY SMT, GangLifecycleAssumption DEF Restart, GangTypeOK, NoClock
<1>13. tick' \in Ticks
  BY TicksMade DEF Restart, GangTypeOK
<1>14. member' \in [Pods -> {"absent", "gated", "admitting", "active", "waiting", "bound", "succeeded"}]
  BY DEF Restart, GangTypeOK
<1>15. \A s \in Replicas : \A h \in Gangs : Len(events'[s][h]) <= MaxLag
  BY <1>5, <1>8 DEF GangTypeOK
<1>16. GangTypeOK'
  BY <1>1, <1>8, <1>9, <1>10, <1>11, <1>12, <1>13, <1>14, <1>15 DEF GangTypeOK, Histories
<1>17. ASSUME Informed PROVE Informed'
  <2> SUFFICES ASSUME NEW s \in Replicas, NEW h \in Gangs
               PROVE  /\ Newest(s, h)' = pg'[h]
                      /\ events'[s][h] = <<>> =>
                           /\ registry'[s][h] = "unknown" <=> store'[s][h] = None
                           /\ store'[s][h].phase = "Failed" => registry'[s][h] = "failed"
    BY DEF Informed
  <2>1. CASE s = r
    <3>1. store'[s][h] = pg[h] /\ events'[s][h] = lists[h] /\ registry'[s][h] = "unknown"
      BY <1>7, <1>8, <1>9, <1>10, <2>1
    <3> QED  BY SMT, <1>1, <1>5, <3>1 DEF Newest, None
  <2>2. CASE s # r
    <3>1. store'[s] = store[s] /\ events'[s] = events[s] /\ registry'[s] = registry[s] /\ pg' = pg
      BY <1>1, <1>8, <1>9, <1>10, <2>2
    <3> QED  BY SMT, <1>17, <3>1 DEF Informed, Newest
  <2> QED  BY <2>1, <2>2
<1> QED  BY <1>16, <1>17

LEMMA GangInitially == GangInit => GangTypeOK /\ Informed
<1> SUFFICES ASSUME GangInit PROVE GangTypeOK /\ Informed  OBVIOUS
<1>1. <<>> \in Seq(Versions) /\ Len(<<>>) = 0 /\ 0 <= MaxLag  BY SMT, GangLifecycleAssumption
<1>2. /\ events \in [Replicas -> [Gangs -> Seq(Versions)]]
      /\ \A r \in Replicas : \A g \in Gangs : events[r][g] = <<>> /\ Len(events[r][g]) <= MaxLag
  <2> DEFINE Histories == Seq(Versions)
  <2>1. <<>> \in Histories  BY <1>1
  <2> HIDE DEF Histories
  <2>2. events \in [Replicas -> [Gangs -> Histories]]  BY <2>1 DEF GangInit
  <2>3. \A r \in Replicas : \A g \in Gangs : events[r][g] = <<>>  BY DEF GangInit
  <2> QED  BY <1>1, <2>2, <2>3 DEF Histories
<1>3. /\ pg \in [Gangs -> Versions] /\ store \in [Replicas -> [Gangs -> Versions]]
  BY NoneIsVersion DEF GangInit
<1>4. clock \in [Gangs -> Nat \cup {NoClock}] /\ \A g \in Gangs : clock[g] <= ScheduleTO[g]
  BY SMT, GangLifecycleAssumption DEF GangInit, NoClock
<1>5. GangTypeOK
  BY <1>2, <1>3, <1>4, TicksMade DEF GangInit, GangTypeOK
<1>6. Informed
  BY <1>2 DEF GangInit, Informed, Newest, None
<1> QED  BY <1>5, <1>6

LEMMA GangStep ==
  ASSUME GangTypeOK, [GangNext]_gangVars
  PROVE  GangTypeOK' /\ (Informed => Informed')
<1>1. ASSUME NEW p \in Pods,
             \/ CreateMember(p) \/ PreEnqueue(p) \/ Permit(p) \/ Unassume(p) \/ Succeed(p) \/ DeleteMember(p)
      PROVE  GangTypeOK' /\ (Informed => Informed')
  <2>1. GangTypeOK' /\ UNCHANGED <<pg, events, replicaVars>>  BY <1>1, MemberStep
  <2>2. UNCHANGED <<pg, events, store, registry>>  BY <2>1 DEF replicaVars
  <2> QED  BY SMT, <2>1, <2>2 DEF Informed, Newest
<1>2. ASSUME NEW p \in Pods, Admit(p) PROVE GangTypeOK' /\ (Informed => Informed')
  <2>1. UNCHANGED <<pg, events, store, registry>>  BY <1>2 DEF Admit
  <2> QED  BY <1>2, <2>1, AdmitStep DEF Informed, Newest
<1>3. CASE UNCHANGED gangVars  BY <1>3 DEF gangVars, GangTypeOK, Informed, Newest
<1> QED
  BY <1>1, <1>2, <1>3, OwnerStep, InformerStep, RebuildStep, ReclaimStep, ElapseStep, RestartStep
     DEF GangNext

-----------------------------------------------------------------------------
\* The state of the four parties has its type, and a replica recovers gangs only
\* with a tree.
THEOREM GangTypeCorrect == GangSpec => []GangTypeOK
<1>1. GangInit => GangTypeOK  BY GangInitially
<1>2. GangTypeOK /\ [GangNext]_gangVars => GangTypeOK'  BY GangStep
<1> QED  BY <1>1, <1>2, PTL DEF GangSpec

\* A replica whose informer has caught up knows the PodGroups that exist, and has
\* every Failed one latched.
THEOREM RegistryFollowsHolds == GangSpec => []RegistryFollows
<1>1. GangInit => Informed  BY GangInitially
<1>2. GangTypeOK /\ Informed /\ [GangNext]_gangVars => Informed'  BY GangStep
<1>3. Informed => RegistryFollows  BY SMT DEF Informed, Newest, RegistryFollows, Exists
<1> QED  BY <1>1, <1>2, <1>3, GangTypeCorrect, PTL DEF GangSpec
=============================================================================
