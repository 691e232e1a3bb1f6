---------------------------- MODULE Provisioning ----------------------------
(***************************************************************************)
(* Publishing the demand of gangs that were admitted and find no node      *)
(* (syncProvisioningRequests): one PodTemplate and one ProvisioningRequest *)
(* a gang, both named after it, kept in step with the cluster by the       *)
(* reconciler's tick.                                                      *)
(*                                                                         *)
(* Between two calls of the API server anything may happen to the pods and *)
(* the PodGroups.  A call may fail; the process may restart, or lose the   *)
(* lease, in the middle of a tick.  Templates are told apart by the gang   *)
(* only, their content follows the member they were made from.             *)
(***************************************************************************)
EXTENDS PodGroups

VARIABLES
  group,      \* Coordinator.gangs: "gone", "present" or "failed"
  phase,      \* the pods: "absent", "unschedulable" or "bound"
  consume,    \* the pods that carry the consume-provisioning-request annotation
  templates,  \* the gangs with a PodTemplate
  request,    \* gang -> count of its ProvisioningRequest, 0 when there is none
  pass,       \* where the reconciler is, see NoPass and Visit
  steady      \* history: the gangs that wanted nodes all through this tick

vars == <<group, phase, consume, templates, request, pass, steady>>
world == <<group, phase>>
objects == <<consume, templates, request>>

NoPass == [at |-> "idle", todo |-> {}, desired |-> {}, gang |-> "", count |-> 0, members |-> {}]

Placed(g) == Cardinality({p \in Pods : GangOf[p] = g /\ phase[p] = "bound"})
pendingGangMembers(g) == {p \in Pods : GangOf[p] = g /\ phase[p] = "unschedulable"}

\* What a visit of the gang would ask for now.
Want(g) ==
  IF group[g] = "present" /\ pendingGangMembers(g) # {} /\ Placed(g) < MinMember[g]
  THEN MinMember[g] - Placed(g) ELSE 0

StillWanting(S) == {g \in S : Want(g) > 0}

ProvisioningInit ==
  /\ group = [g \in Gangs |-> "gone"]
  /\ phase = [p \in Pods |-> "absent"]
  /\ consume = {} /\ templates = {} /\ request = [g \in Gangs |-> 0]
  /\ pass = NoPass /\ steady = {}

-----------------------------------------------------------------------------
(* The cluster: every change may end a gang's demand.  A pod that was not  *)
(* tried yet is as good as absent.                                         *)

Changes(newGroup, newPhase) ==
  /\ group' = newGroup /\ phase' = newPhase
  /\ steady' = steady \cap {g \in Gangs : Want(g)' > 0}
  /\ consume' = {p \in consume : phase'[p] # "absent"}
  /\ UNCHANGED <<templates, request, pass>>

PodMoves(p) ==
  \E to \in CASE phase[p] = "absent"        -> {"unschedulable", "bound"}
              [] phase[p] = "unschedulable" -> {"bound", "absent"}
              [] phase[p] = "bound"         -> {"absent"} :
    Changes(group, [phase EXCEPT ![p] = to])

GroupMoves(g) ==
  \E to \in CASE group[g] = "gone"    -> {"present"}
              [] group[g] = "present" -> {"failed", "gone"}
              [] group[g] = "failed"  -> {"gone"} :
    Changes([group EXCEPT ![g] = to], phase)

-----------------------------------------------------------------------------
(* The tick.                                                               *)

StartTick ==
  /\ pass = NoPass
  /\ pass' = [NoPass EXCEPT !.at = "visit", !.todo = {g \in Gangs : group[g] = "present"}]
  /\ steady' = StillWanting(Gangs)
  /\ UNCHANGED <<world, objects>>

\* Mutant: a gang is kept only once its objects are written.
VisitLate(g) ==
  /\ pass.at = "visit" /\ g \in pass.todo
  /\ LET left == [pass EXCEPT !.todo = @ \ {g}]
         ok   == group[g] # "gone" /\ Placed(g) < MinMember[g] /\ pendingGangMembers(g) # {}
     IN  pass' = IF ~ok THEN left
                 ELSE [left EXCEPT !.at = "template", !.gang = g,
                                   !.count = MinMember[g] - Placed(g),
                                   !.members = pendingGangMembers(g)]
  /\ UNCHANGED <<world, objects, steady>>

\* Mutant: every waiting member is asked for, also above minMember.
VisitPending(g) ==
  /\ pass.at = "visit" /\ g \in pass.todo
  /\ LET left == [pass EXCEPT !.todo = @ \ {g}]
         ok   == group[g] # "gone" /\ Placed(g) < MinMember[g] /\ pendingGangMembers(g) # {}
     IN  pass' = IF ~ok THEN left
                 ELSE [left EXCEPT !.at = "template", !.gang = g, !.desired = @ \cup {g},
                                   !.count = Cardinality(pendingGangMembers(g)),
                                   !.members = pendingGangMembers(g)]
  /\ UNCHANGED <<world, objects, steady>>

\* The gang's progress and its members are read afresh; whether it had failed is
\* what the snapshot said.
Visit(g) ==
  /\ pass.at = "visit" /\ g \in pass.todo
  /\ LET left == [pass EXCEPT !.todo = @ \ {g}]
         ok   == group[g] # "gone" /\ Placed(g) < MinMember[g] /\ pendingGangMembers(g) # {}
     IN  pass' = IF ~ok THEN left
                 ELSE [left EXCEPT !.at = "template", !.gang = g, !.desired = @ \cup {g},
                                   !.count = MinMember[g] - Placed(g),
                                   !.members = pendingGangMembers(g)]
  /\ UNCHANGED <<world, objects, steady>>

\* On to the next gang.
NextGang == [pass EXCEPT !.at = "visit", !.gang = "", !.count = 0, !.members = {}]

ensurePodTemplate(ok) ==
  /\ pass.at = "template"
  /\ templates' = IF ok THEN templates \cup {pass.gang} ELSE templates
  /\ pass' = IF ok THEN [pass EXCEPT !.at = "request"] ELSE NextGang
  /\ UNCHANGED <<world, consume, request, steady>>

\* Mutant: an existing request is left as it is.
EnsureRequestOnce(ok) ==
  /\ pass.at = "request"
  /\ request' = IF ok /\ request[pass.gang] = 0
                THEN [request EXCEPT ![pass.gang] = pass.count] ELSE request
  /\ pass' = IF ok THEN [pass EXCEPT !.at = "mark"] ELSE NextGang
  /\ UNCHANGED <<world, consume, templates, steady>>

ensureProvisioningRequest(ok) ==
  /\ pass.at = "request"
  /\ request' = IF ok THEN [request EXCEPT ![pass.gang] = pass.count] ELSE request
  /\ pass' = IF ok THEN [pass EXCEPT !.at = "mark"] ELSE NextGang
  /\ UNCHANGED <<world, consume, templates, steady>>

\* Every patch may fail on its own; a pod that is gone cannot be patched.
markMembersConsumeProvReq ==
  /\ pass.at = "mark"
  /\ \E done \in SUBSET {p \in pass.members : phase[p] # "absent"} : consume' = consume \cup done
  /\ pass' = NextGang
  /\ UNCHANGED <<world, templates, request, steady>>

\* The requests go first, then the templates; what cannot be listed or deleted
\* stays until the next tick.
gcRequests(gone) ==
  /\ pass.at = "visit" /\ pass.todo = {}
  /\ request' = [g \in Gangs |-> IF g \in gone THEN 0 ELSE request[g]]
  /\ pass' = [pass EXCEPT !.at = "gc"]
  /\ UNCHANGED <<world, consume, templates, steady>>

gcTemplates(gone) ==
  /\ pass.at = "gc"
  /\ templates' = templates \ gone
  /\ pass' = NoPass
  /\ steady' = {}
  /\ UNCHANGED <<world, consume, request>>

Stale == Gangs \ pass.desired

\* A restart, or another leader.  In the last step it is as if no call went through.
Crash ==
  /\ pass.at \notin {"idle", "gc"}
  /\ pass' = NoPass /\ steady' = {}
  /\ UNCHANGED <<world, objects>>

Reconcile ==
  \/ StartTick
  \/ \E g \in pass.todo : Visit(g)
  \/ \E ok \in BOOLEAN : ensurePodTemplate(ok) \/ ensureProvisioningRequest(ok)
  \/ markMembersConsumeProvReq
  \/ \E gone \in SUBSET Stale : gcRequests(gone) \/ gcTemplates(gone)

ProvisioningNext ==
  \/ \E p \in Pods : PodMoves(p)
  \/ \E g \in Gangs : GroupMoves(g)
  \/ Reconcile
  \/ Crash

ProvisioningSpec == ProvisioningInit /\ [][ProvisioningNext]_vars

\* The reconciler keeps ticking, some leader stays, and a call that is repeated
\* succeeds in the end.
FairProvisioningSpec ==
  /\ ProvisioningSpec
  /\ []<><<pass' # pass>>_vars
  /\ <>[][~Crash]_vars
  /\ \A g \in Gangs :
       /\ []<><<ensurePodTemplate(TRUE) /\ pass.gang = g>>_vars
            \/ <>[](pass.at # "template" \/ pass.gang # g)
       /\ []<><<ensureProvisioningRequest(TRUE) /\ pass.gang = g>>_vars
            \/ <>[](pass.at # "request" \/ pass.gang # g)
       /\ []<><<pass.at = "mark" /\ pass.gang = g /\ pass'.at = "visit"
                /\ {p \in pass.members : phase[p] # "absent"} \subseteq consume'>>_vars
            \/ <>[](pass.at # "mark" \/ pass.gang # g)
       /\ []<><<pass.at = "visit" /\ pass'.at = "gc" /\ request'[g] = 0>>_vars
            \/ <>[](pass.at # "visit" \/ pass.todo # {} \/ g \in pass.desired)
       /\ []<><<pass.at = "gc" /\ pass'.at = "idle" /\ g \notin templates'>>_vars
            \/ <>[](pass.at # "gc" \/ g \in pass.desired)

-----------------------------------------------------------------------------
(* Properties.                                                             *)

\* The shape of the state; a published object never asks for more than minMember
\* members.
ProvisioningTypeOK ==
  /\ group \in [Gangs -> {"gone", "present", "failed"}]
  /\ phase \in [Pods -> {"absent", "unschedulable", "bound"}]
  /\ consume \subseteq {p \in Pods : phase[p] # "absent"}
  /\ templates \subseteq Gangs /\ steady \subseteq Gangs
  /\ pass.todo \cup pass.desired \subseteq Gangs
  /\ request \in [Gangs -> Nat] /\ \A g \in Gangs : request[g] <= MinMember[g]

\* provreq.go:89-90: "Keep the objects through a transient API error: the gang
\* still wants them, so GC must not delete and re-create them".  An object is
\* deleted only when the gang did without for a moment of the same tick.
KeptWhileWanted ==
  [][\A g \in steady : /\ request[g] > 0 => request'[g] > 0
                       /\ g \in templates => g \in templates']_vars

\* provreq.go:42-52: a gang whose PodGroup stays as it is and that goes on wanting n
\* nodes has a request for n and its template in the end, and one that goes on
\* wanting none has neither, whatever failed or was read too early before; and a
\* member that waits all along is marked for the request (provreq.go:126-128).
DemandSettles ==
  \A g \in Gangs :
    /\ \A n \in 0 .. MinMember[g] :
         <>[](group[g] = "present" /\ Want(g) = n)
           => <>[](request[g] = n /\ (g \in templates <=> n > 0))
    /\ \A s \in {"gone", "failed"} :
         <>[](group[g] = s) => <>[](request[g] = 0 /\ g \notin templates)
    /\ \A p \in Pods : <>[](Want(g) > 0 /\ p \in pendingGangMembers(g)) => <>[](p \in consume)
=============================================================================
