--------------------------- MODULE GangAdmission ---------------------------
(***************************************************************************)
(* The gang plugin's PreEnqueue against the engine's wound-wait admission: *)
(* PodGroups come and go, members of the waiting ones are retried, the     *)
(* collector sweeps, and the head-of-line bids of the leaves age.  The     *)
(* tree does not change.                                                   *)
(*                                                                         *)
(* PreEnqueue reads the registry and admits the gang under two locks; the  *)
(* PodGroup may be deleted in between, and its gang admitted all the same. *)
(* The sweep lists the PodGroups and releases under two locks as well.     *)
(*                                                                         *)
(* A release activates all members that wait, one by one in the order of a *)
(* Go map.  Apart from that, when a gang is retried is up to the           *)
(* scheduler's queue and to what else happens in the cluster; at most      *)
(* RetryWithin ticks pass between two attempts.                            *)
(***************************************************************************)
EXTENDS Engine

CONSTANTS
  LeafOf,       \* gang -> the leaf its members resolve to
  Recurring,    \* the gangs that are created again after their PodGroup is gone
  Vanishing,    \* the gangs that may be deleted while they wait
  RetryWithin   \* bound: ticks between two attempts of a waiting gang

ASSUME AdmissionAssumption ==
  /\ Recurring \subseteq Gangs /\ Vanishing \subseteq Gangs
  /\ \A g \in Gangs : LeafOf[g] \in Paths
  /\ RetryWithin \in Nat

VARIABLES
  group,      \* the gangs whose PodGroup is in the registry
  admitting,  \* the gangs a member of which is between the registry and the engine
  groupSweep, \* the PodGroups gcStaleLedgers has listed, or NoGroupSweep
  due         \* gang -> the ticks that may pass before its next attempt

admissionVars == <<engineVars, group, admitting, groupSweep, due>>

NoGroupSweep == {"none"}

Waiting(g) == g \in group /\ ~Admitted(g)

AdmissionInit ==
  /\ tree \in Trees
  /\ allocated = [q \in Paths |-> Zero]
  /\ allocating = [q \in Paths |-> Zero]
  /\ held = {}
  /\ book = [p \in Pods |-> NoBook]
  /\ gangBook = [g \in Gangs |-> NoLeaf]
  /\ holBids = [q \in Paths |-> NoBid]
  /\ group = Gangs /\ admitting = {}
  /\ groupSweep = NoGroupSweep
  /\ due = [g \in Gangs |-> RetryWithin]

-----------------------------------------------------------------------------
\* PreEnqueue of a member, up to the registry and the ledger: the gang is known and
\* not admitted.
PreEnqueue(g) ==
  /\ Waiting(g) /\ g \notin admitting
  /\ admitting' = admitting \cup {g}
  /\ UNCHANGED <<engineVars, group, groupSweep, due>>

\* The rest of PreEnqueue.  The PodGroup is not looked at again.
Admit(g) ==
  /\ g \in admitting
  /\ \E prio \in Priorities : AdmitGangWW(g, LeafOf[g], prio)
  /\ admitting' = admitting \ {g}
  /\ due' = [due EXCEPT ![g] = RetryWithin]
  /\ UNCHANGED <<group, groupSweep>>

\* activatePending: every gang that waits is tried before time goes on.
ActivatePending == due' = [g \in Gangs |-> IF Waiting(g) THEN 0 ELSE due[g]]

\* onPodGroupDelete, whether the gang has done its work or is given up.
OnPodGroupDelete(g) ==
  /\ g \in group /\ (Admitted(g) \/ g \in Vanishing)
  /\ ReleaseGang(g)
  /\ group' = group \ {g}
  /\ ActivatePending
  /\ UNCHANGED <<admitting, groupSweep>>

OnPodGroupUpsert(g) ==
  /\ g \in Recurring \ group
  /\ group' = group \cup {g}
  /\ due' = [due EXCEPT ![g] = RetryWithin]
  /\ UNCHANGED <<engineVars, admitting, groupSweep>>

\* gcStaleLedgers, its gang half.  A sweep that lists every PodGroup releases
\* nothing, and is left out.
GCListGroups ==
  /\ groupSweep = NoGroupSweep /\ group # Gangs
  /\ groupSweep' = group
  /\ UNCHANGED <<engineVars, group, admitting, due>>

GCGroupSweep ==
  /\ groupSweep # NoGroupSweep
  /\ GCGangs(groupSweep)
  /\ groupSweep' = NoGroupSweep
  /\ IF AdmittedGangs \subseteq groupSweep THEN UNCHANGED due ELSE ActivatePending
  /\ UNCHANGED <<group, admitting>>

TimePasses ==
  /\ \A g \in Gangs : Waiting(g) => due[g] > 0
  /\ Tick
  /\ due' = [g \in Gangs |-> IF Waiting(g) THEN due[g] - 1 ELSE due[g]]
  /\ UNCHANGED <<group, admitting, groupSweep>>

AdmissionNext ==
  \/ \E g \in Gangs : PreEnqueue(g) \/ Admit(g) \/ OnPodGroupDelete(g) \/ OnPodGroupUpsert(g)
  \/ GCListGroups \/ GCGroupSweep
  \/ TimePasses

AdmissionSpec == AdmissionInit /\ [][AdmissionNext]_admissionVars

\* Members of a waiting gang are retried and get an answer, an admitted gang ends,
\* the collector runs.  Time goes on, strongly: it does not wait for a moment at
\* which no member is due.
FairAdmissionSpec ==
  /\ AdmissionSpec
  /\ SF_admissionVars(TimePasses)
  /\ WF_admissionVars(GCListGroups) /\ WF_admissionVars(GCGroupSweep)
  /\ \A g \in Gangs : /\ WF_admissionVars(PreEnqueue(g)) /\ WF_admissionVars(Admit(g))
                      /\ WF_admissionVars(Admitted(g) /\ OnPodGroupDelete(g))

-----------------------------------------------------------------------------
(* Properties.                                                             *)

\* The shape of the admission state.
AdmissionTypeOK ==
  /\ group \subseteq Gangs /\ admitting \subseteq Gangs
  /\ groupSweep \in {NoGroupSweep} \cup SUBSET Gangs
  /\ due \in [Gangs -> 0 .. RetryWithin]

\* As long as the tree stays, the gangs in the ledger are those the tree has room
\* for (engine.go:222-241, 251-291, 294-305, 498-517): a member that passes because
\* its gang is in the ledger (gang.go:99-105) is covered, and a gang that is
\* admitted after its PodGroup was deleted, or swept while it is admitted again,
\* leaves no room behind that no release would find.
LedgerHoldsRoom == held = AdmittedGangs

\* No starvation (engine.go:246: "a stream of small/young gangs cannot starve
\* it").  A gang that waits is eventually admitted although smaller and younger
\* gangs keep coming, each of which fits whenever it is tried.
NoStarvation ==
  \A g \in Gangs \ Recurring : Waiting(g) ~> ~Waiting(g)

\* engine.go:89-90 says that a bid "expires after GangScheduleTimeout so a
\* vanished gang can never deadlock the leaf": a waiting gang gets in once it is
\* the only gang left.
VanishedNeverDeadlocks ==
  \A g \in Gangs : []<>(~Waiting(g) \/ group # {g})
=============================================================================
