--------------------------- MODULE GangLifecycle ---------------------------
(***************************************************************************)
(* The life of a gang's reservation between four parties: the members that *)
(* go through PreEnqueue and Permit (pkg/plugins/gang), the engine's gang  *)
(* ledger, PodGroup.status, where the reservation is recorded so that it   *)
(* survives a restart (pkg/framework/gangstatus.go), and the informer that *)
(* brings the PodGroup back to every replica with a delay.                 *)
(*                                                                         *)
(* The scheduler runs on the replica Sched.  The reclaim loop, which syncs *)
(* the statuses and enforces the timeouts, runs on Recon, the holder of    *)
(* another lease; every replica has a ledger and a registry of its own.    *)
(*                                                                         *)
(* Whether the engine has room for a gang depends on what else its tree is *)
(* charged with at that moment, which after a restart is not yet all that  *)
(* runs; here it may give either answer at any time.  Engine says when it  *)
(* has room, and GangAdmission who gets it.                                *)
(***************************************************************************)
EXTENDS PodGroups, Integers, Sequences

CONSTANTS
  Replicas, Sched, Recon,
  ScheduleTO,   \* gang -> its Hard timeout, in ticks
  ReadyTO,      \* gang -> membersReadyTimeoutSeconds in ticks, 0 for none
  MaxLag,       \* bound: events an informer is behind
  Faults        \* of "patchFails", "watchGap", "crash"

ASSUME GangLifecycleAssumption ==
  /\ Sched \in Replicas /\ Recon \in Replicas
  /\ ReadyTO \in [Gangs -> Nat] /\ ScheduleTO \in [Gangs -> Nat \ {0}]
  /\ MaxLag \in Nat \ {0}

VARIABLES
  pg,        \* gang -> its PodGroup as the API server has it, or None
  store,     \* replica -> gang -> the PodGroup in the informer's store, or None
  events,    \* replica -> gang -> the versions the informer has still to deliver
  registry,  \* replica -> gang -> Coordinator.gangs: "unknown", "live" or "failed"
  ledger,    \* replica -> Engine.gangBook
  ready,     \* the replicas that have built their queue tree
  recovering,\* the replicas that have swapped trees and not yet run recoverGangs
  sweep,     \* replica -> the PodGroups gcStaleLedgers has listed, or NoSweep
  clock,     \* gang -> ticks since Recon stamped gangAdmittedAt, or NoClock
  tick,      \* what the reclaim loop is in the middle of
  member     \* pod -> where it is on its way to a node

gangVars == <<pg, store, events, registry, ledger, ready, recovering, sweep, clock,
              tick, member>>

\* What the steps of a member and of the PodGroup's owner leave alone.
replicaVars == <<store, registry, ledger, ready, recovering, sweep, clock, tick>>

None == [phase |-> "none", admitted |-> FALSE]
NewPodGroup == [phase |-> "", admitted |-> FALSE]
NoClock == -1
NoSweep == {"none"}
Idle == [op |-> "idle"]

Of(g) == {p \in Pods : GangOf[p] = g}
Exists(g) == pg[g] # None

boundGangMembers(g) == Cardinality({p \in Of(g) : member[p] \in {"bound", "succeeded"}})
createdGangMembers(g) == Cardinality({p \in Of(g) : member[p] # "absent"})
succeededGangMembers(g) == Cardinality({p \in Of(g) : member[p] = "succeeded"})

\* The API server has a new version of the PodGroup, and tells the informers.  One
\* whose watch broke lists anew, and does not see what lies between.
Seen(queue, obj) ==
  IF Len(queue) < MaxLag THEN Append(queue, obj) ELSE [queue EXCEPT ![MaxLag] = obj]

Write(g, obj) ==
  /\ pg' = [pg EXCEPT ![g] = obj]
  /\ events' = IF obj = pg[g] THEN events
               ELSE [r \in Replicas |-> [events[r] EXCEPT ![g] = Seen(@, obj)]]

MayWrite(g) == "watchGap" \in Faults \/ \A r \in Replicas : Len(events[r][g]) < MaxLag

\* A merge patch of the status; it does nothing to a PodGroup that is gone, and
\* an error is only logged.
Patch(g, obj) ==
  /\ MayWrite(g)
  /\ \/ Exists(g) /\ Write(g, obj)
     \/ ~Exists(g) /\ UNCHANGED <<pg, events>>
     \/ "patchFails" \in Faults /\ UNCHANGED <<pg, events>>

-----------------------------------------------------------------------------
(* The members: PreEnqueue, Permit and what becomes of a pod.              *)

Becomes(p, s) == member' = [member EXCEPT ![p] = s]

CreateMember(p) ==
  /\ member[p] = "absent"
  /\ Becomes(p, "gated")
  /\ UNCHANGED <<pg, events, replicaVars>>

\* PreEnqueue up to the admission: the registry is read, and a member of a gang
\* in the ledger passes.
PreEnqueue(p) ==
  LET g == GangOf[p]
      info == registry[Sched][g]
  IN  /\ member[p] = "gated"
      /\ \/ info = "unknown" /\ g \in ledger[Sched] /\ Becomes(p, "active")
         \/ info = "live" /\ Sched \in ready /\ g \in ledger[Sched] /\ Becomes(p, "active")
         \/ info = "live" /\ Sched \in ready /\ g \notin ledger[Sched] /\ Becomes(p, "admitting")
      /\ UNCHANGED <<pg, events, replicaVars>>

\* AdmitGangWW, under the engine's lock: unless the gang is in already, it gets in
\* or is turned away.
Admit(p) ==
  LET g == GangOf[p]
  IN  /\ member[p] = "admitting"
      /\ \/ /\ Becomes(p, "active")
            /\ ledger' = [ledger EXCEPT ![Sched] = @ \cup {g}]
         \/ /\ g \notin ledger[Sched]
            /\ Becomes(p, "gated")
            /\ UNCHANGED ledger
      /\ UNCHANGED <<pg, store, events, registry, ready, recovering, sweep, clock, tick>>

\* The barrier counts the members that wait now, and lets all of them go.
Permit(p) ==
  LET g == GangOf[p]
      waiting == {q \in Of(g) : member[q] = "waiting"}
      met == \/ registry[Sched][g] = "unknown" \/ MinMember[g] <= 1
             \/ Cardinality(waiting) + 1 >= MinMember[g]
  IN  /\ member[p] = "active"
      /\ member' = [q \in Pods |->
                      IF q = p THEN IF met THEN "bound" ELSE "waiting"
                      ELSE IF q \in waiting /\ met /\ registry[Sched][g] # "unknown" THEN "bound"
                      ELSE member[q]]
      /\ UNCHANGED <<pg, events, replicaVars>>

\* No node fits, or the Permit timeout is over: the pod is queued again.
Unassume(p) ==
  /\ member[p] \in {"active", "waiting"}
  /\ Becomes(p, "gated")
  /\ UNCHANGED <<pg, events, replicaVars>>

Succeed(p) ==
  /\ member[p] = "bound"
  /\ Becomes(p, "succeeded")
  /\ UNCHANGED <<pg, events, replicaVars>>

DeleteMember(p) ==
  /\ member[p] # "absent"
  /\ Becomes(p, "absent")
  /\ UNCHANGED <<pg, events, replicaVars>>

-----------------------------------------------------------------------------
(* PodGroups, and the informer of a replica.                               *)

CreatePodGroup(g) ==
  /\ ~Exists(g) /\ MayWrite(g)
  /\ Write(g, NewPodGroup)
  /\ UNCHANGED <<replicaVars, member>>

DeletePodGroup(g) ==
  /\ Exists(g) /\ MayWrite(g)
  /\ Write(g, None)
  /\ UNCHANGED <<replicaVars, member>>

\* Mutant: an upsert takes the phase for the reconciler's business.
OnPodGroupUnlatched(r, g) ==
  /\ events[r][g] # <<>>
  /\ LET obj == Head(events[r][g])
     IN  /\ store' = [store EXCEPT ![r][g] = obj]
         /\ registry' = [registry EXCEPT ![r][g] = IF obj = None THEN "unknown" ELSE "live"]
         /\ ledger' = IF obj = None THEN [ledger EXCEPT ![r] = @ \ {g}] ELSE ledger
  /\ events' = [events EXCEPT ![r][g] = Tail(@)]
  /\ UNCHANGED <<pg, ready, recovering, sweep, clock, tick, member>>

\* onPodGroupUpsert overwrites the entry of the registry, onPodGroupDelete drops
\* it and releases the reservation.
OnPodGroup(r, g) ==
  /\ events[r][g] # <<>>
  /\ LET obj == Head(events[r][g])
     IN  /\ store' = [store EXCEPT ![r][g] = obj]
         /\ registry' = [registry EXCEPT ![r][g] = IF obj = None THEN "unknown"
                                                   ELSE IF obj.phase = "Failed" THEN "failed"
                                                   ELSE "live"]
         /\ ledger' = IF obj = None THEN [ledger EXCEPT ![r] = @ \ {g}] ELSE ledger
  /\ events' = [events EXCEPT ![r][g] = Tail(@)]
  /\ UNCHANGED <<pg, ready, recovering, sweep, clock, tick, member>>

-----------------------------------------------------------------------------
(* rebuild: the tree is swapped in, and then recoverGangs restores what    *)
(* the store records and the ledger does not have, as far as it fits.      *)

\* Mutant: admission is opened only after the recovery.
SwapTreeUnready(r) ==
  /\ r \notin recovering
  /\ recovering' = recovering \cup {r}
  /\ UNCHANGED <<pg, store, events, registry, ledger, ready, sweep, clock, tick, member>>

SwapTree(r) ==
  /\ r \notin recovering
  /\ ready' = ready \cup {r}
  /\ recovering' = recovering \cup {r}
  /\ UNCHANGED <<pg, store, events, registry, ledger, sweep, clock, tick, member>>

RecoverGangs(r) ==
  LET recorded == {g \in Gangs \ ledger[r] : store[r][g].admitted /\ store[r][g].phase # "Failed"}
  IN  /\ r \in recovering
      /\ recovering' = recovering \ {r}
      /\ \E R \in SUBSET recorded : ledger' = [ledger EXCEPT ![r] = @ \cup R]
      /\ UNCHANGED <<pg, store, events, registry, ready, sweep, clock, tick, member>>

-----------------------------------------------------------------------------
(* gcStaleLedgers, its gang half.                                          *)

\* A sweep that lists every PodGroup releases nothing, and is left out.
GCList(r) ==
  LET live == {g \in Gangs : store[r][g] # None}
  IN  /\ sweep[r] = NoSweep /\ live # Gangs
      /\ sweep' = [sweep EXCEPT ![r] = live]
      /\ UNCHANGED <<pg, store, events, registry, ledger, ready, recovering, clock, tick, member>>

\* Mutant: bookings are swept, gangs are not.
GCGangsSkipped(r) ==
  /\ sweep[r] # NoSweep
  /\ sweep' = [sweep EXCEPT ![r] = NoSweep]
  /\ UNCHANGED <<pg, store, events, registry, ledger, ready, recovering, clock, tick, member>>

GCGangs(r) ==
  /\ sweep[r] # NoSweep
  /\ ledger' = [ledger EXCEPT ![r] = @ \cap sweep[r]]
  /\ sweep' = [sweep EXCEPT ![r] = NoSweep]
  /\ UNCHANGED <<pg, store, events, registry, ready, recovering, clock, tick, member>>

-----------------------------------------------------------------------------
(* A tick of the reclaim loop: syncGangStatuses, checkGangTimeouts,        *)
(* syncPodGroupPhases, one PodGroup at a time.                             *)

podGroups == {g \in Gangs : store[Recon][g] # None}

\* Mutant: only what is admitted is written, a record is never cleared.
SyncStartStampOnly ==
  /\ tick = Idle
  /\ clock' = [g \in Gangs |-> IF g \notin ledger[Recon] THEN NoClock
                               ELSE IF clock[g] = NoClock THEN 0 ELSE clock[g]]
  /\ tick' = [op |-> "sync", todo |-> {<<g, TRUE>> : g \in {h \in podGroups \cap ledger[Recon] :
                                                            ~store[Recon][h].admitted}}]
  /\ UNCHANGED <<pg, store, events, registry, ledger, ready, recovering, sweep, member>>

\* The admission clocks are stamped, and dropped for gangs that hold nothing;
\* what is to be patched is decided on the ledger and the store of this moment.
SyncStart ==
  /\ tick = Idle
  /\ clock' = [g \in Gangs |-> IF g \notin ledger[Recon] THEN NoClock
                               ELSE IF clock[g] = NoClock THEN 0 ELSE clock[g]]
  /\ tick' = [op |-> "sync", todo |-> {<<g, g \in ledger[Recon]>> : g \in
                 {h \in podGroups : store[Recon][h].admitted # (h \in ledger[Recon])}}]
  /\ UNCHANGED <<pg, store, events, registry, ledger, ready, recovering, sweep, member>>

SyncGangStatus(g, admitted) ==
  /\ tick.op = "sync" /\ <<g, admitted>> \in tick.todo
  /\ tick' = [tick EXCEPT !.todo = @ \ {<<g, admitted>>}]
  /\ Patch(g, [pg[g] EXCEPT !.admitted = admitted])
  /\ UNCHANGED <<store, registry, ledger, ready, recovering, sweep, clock, member>>

\* A deadline of these gangs is over.  (One that the registry does not know has
\* minMember 0, and no verdict.)
Overdue(g) ==
  /\ g \in ledger[Recon] /\ clock[g] # NoClock /\ registry[Recon][g] = "live"
  /\ clock[g] >= ScheduleTO[g] \/ (ReadyTO[g] > 0 /\ clock[g] >= ReadyTO[g])

CheckStart ==
  /\ tick.op = "sync" /\ tick.todo = {}
  /\ tick' = [op |-> "check", todo |-> {<<g, clock[g]>> : g \in {h \in Gangs : Overdue(h)}}]
  /\ UNCHANGED <<pg, store, events, registry, ledger, ready, recovering, sweep, clock, member>>

gangTimeoutVerdict(g, elapsed) ==
  \/ ReadyTO[g] > 0 /\ elapsed >= ReadyTO[g] /\ createdGangMembers(g) < MinMember[g]
  \/ elapsed >= ScheduleTO[g] /\ boundGangMembers(g) < MinMember[g]

\* The latch, the clock and the reservation; the status follows.
CheckGang(g, elapsed) ==
  /\ tick.op = "check" /\ <<g, elapsed>> \in tick.todo
  /\ IF gangTimeoutVerdict(g, elapsed)
     THEN /\ registry' = [registry EXCEPT ![Recon][g] = IF @ = "unknown" THEN @ ELSE "failed"]
          /\ clock' = [clock EXCEPT ![g] = NoClock]
          /\ ledger' = [ledger EXCEPT ![Recon] = @ \ {g}]
          /\ tick' = [op |-> "failing", gang |-> g, todo |-> tick.todo \ {<<g, elapsed>>}]
     ELSE /\ tick' = [tick EXCEPT !.todo = @ \ {<<g, elapsed>>}]
          /\ UNCHANGED <<registry, clock, ledger>>
  /\ UNCHANGED <<pg, store, events, ready, recovering, sweep, member>>

PatchGangFailed ==
  /\ tick.op = "failing"
  /\ Patch(tick.gang, [phase |-> "Failed", admitted |-> FALSE])
  /\ tick' = [op |-> "check", todo |-> tick.todo]
  /\ UNCHANGED <<store, registry, ledger, ready, recovering, sweep, clock, member>>

\* The rest of the third pass; with none left the tick is over.
Phases(todo) == IF todo = {} THEN Idle ELSE [op |-> "phases", todo |-> todo]

\* Mutant: a gang that is latched Failed is left to the timeout's own patch.
PhasesStartNotFailed ==
  /\ tick.op = "check" /\ tick.todo = {}
  /\ tick' = Phases({<<g, store[Recon][g].phase, g \in ledger[Recon]>> : g \in
                 {h \in podGroups : store[Recon][h].phase # "Failed" /\ registry[Recon][h] # "failed"}})
  /\ UNCHANGED <<pg, store, events, registry, ledger, ready, recovering, sweep, clock, member>>

PhasesStart ==
  /\ tick.op = "check" /\ tick.todo = {}
  /\ tick' = Phases({<<g, store[Recon][g].phase, g \in ledger[Recon]>> : g \in
                 {h \in podGroups : store[Recon][h].phase # "Failed"}})
  /\ UNCHANGED <<pg, store, events, registry, ledger, ready, recovering, sweep, clock, member>>

\* Observed.Phase.
Phase(g, admitted) ==
  IF registry[Recon][g] = "failed" THEN "Failed"
  ELSE IF MinMember[g] > 0 /\ succeededGangMembers(g) >= MinMember[g] THEN "Completed"
  ELSE IF MinMember[g] > 0 /\ boundGangMembers(g) >= MinMember[g] THEN "Running"
  ELSE IF admitted THEN "Scheduling" ELSE "Pending"

SyncPodGroupPhase(g, cur, admitted) ==
  LET phase == Phase(g, admitted)
  IN  /\ tick.op = "phases" /\ <<g, cur, admitted>> \in tick.todo
      /\ tick' = Phases(tick.todo \ {<<g, cur, admitted>>})
      /\ IF registry[Recon][g] = "unknown" \/ cur = phase THEN UNCHANGED <<pg, events>>
         ELSE Patch(g, [pg[g] EXCEPT !.phase = phase])
      /\ UNCHANGED <<store, registry, ledger, ready, recovering, sweep, clock, member>>

ReclaimTick ==
  \/ SyncStart \/ CheckStart \/ PatchGangFailed \/ PhasesStart
  \/ tick.op = "sync" /\ \E t \in tick.todo : SyncGangStatus(t[1], t[2])
  \/ tick.op = "check" /\ \E t \in tick.todo : CheckGang(t[1], t[2])
  \/ tick.op = "phases" /\ \E t \in tick.todo : SyncPodGroupPhase(t[1], t[2], t[3])

\* Time passes for the gangs whose clock runs and is not yet past its deadlines.
Runs(g) == clock[g] # NoClock /\ clock[g] < ScheduleTO[g]

Elapse ==
  /\ \E g \in Gangs : Runs(g)
  /\ clock' = [g \in Gangs |-> IF Runs(g) THEN clock[g] + 1 ELSE clock[g]]
  /\ UNCHANGED <<pg, store, events, registry, ledger, ready, recovering, sweep, tick, member>>

-----------------------------------------------------------------------------
(* The restart of a replica.                                               *)

\* Everything in memory is lost.  The informer lists the PodGroups anew, and its
\* handler has yet to see them; pods that were on their way are queued again.
Restart(r) ==
  /\ "crash" \in Faults
  /\ store' = [store EXCEPT ![r] = pg]
  /\ events' = [events EXCEPT ![r] = [g \in Gangs |-> IF Exists(g) THEN <<pg[g]>> ELSE <<>>]]
  /\ registry' = [registry EXCEPT ![r] = [g \in Gangs |-> "unknown"]]
  /\ ledger' = [ledger EXCEPT ![r] = {}]
  /\ ready' = ready \ {r}
  /\ recovering' = recovering \ {r}
  /\ sweep' = [sweep EXCEPT ![r] = NoSweep]
  /\ IF r = Recon THEN clock' = [g \in Gangs |-> NoClock] /\ tick' = Idle
     ELSE UNCHANGED <<clock, tick>>
  /\ member' = [p \in Pods |-> IF r = Sched /\ member[p] \in {"admitting", "active", "waiting"}
                               THEN "gated" ELSE member[p]]
  /\ UNCHANGED pg

-----------------------------------------------------------------------------
GangInit ==
  /\ pg = [g \in Gangs |-> None]
  /\ store = [r \in Replicas |-> [g \in Gangs |-> None]]
  /\ events = [r \in Replicas |-> [g \in Gangs |-> <<>>]]
  /\ registry = [r \in Replicas |-> [g \in Gangs |-> "unknown"]]
  /\ ledger = [r \in Replicas |-> {}]
  /\ ready = {} /\ recovering = {}
  /\ sweep = [r \in Replicas |-> NoSweep]
  /\ clock = [g \in Gangs |-> NoClock]
  /\ tick = Idle
  /\ member = [p \in Pods |-> "absent"]

GangNext ==
  \/ \E p \in Pods : \/ CreateMember(p) \/ PreEnqueue(p) \/ Admit(p) \/ Permit(p)
                     \/ Unassume(p) \/ Succeed(p) \/ DeleteMember(p)
  \/ \E g \in Gangs : CreatePodGroup(g) \/ DeletePodGroup(g)
  \/ \E r \in Replicas : \/ SwapTree(r) \/ RecoverGangs(r) \/ GCList(r) \/ GCGangs(r) \/ Restart(r)
                         \/ \E g \in Gangs : OnPodGroup(r, g)
  \/ ReclaimTick \/ Elapse

GangSpec == GangInit /\ [][GangNext]_gangVars

-----------------------------------------------------------------------------
(* Fairness.  The informers deliver, the loops run, and a patch that is     *)
(* tried again and again succeeds some day.  Members, owners of PodGroups   *)
(* and crashes are under no obligation.                                     *)

Due(g, op) == tick.op = op /\ Exists(g) /\ MayWrite(g) /\ \E t \in tick.todo : t[1] = g

AdmittedPatched(g) ==
  /\ tick.op = "sync"
  /\ \E t \in tick.todo : t[1] = g /\ SyncGangStatus(g, t[2]) /\ pg'[g].admitted = t[2]

PhasePatched(g) ==
  /\ tick.op = "phases"
  /\ \E t \in tick.todo : /\ t[1] = g /\ SyncPodGroupPhase(g, t[2], t[3])
                         /\ \/ t[2] = Phase(g, t[3]) \/ registry[Recon][g] = "unknown"
                            \/ pg'[g].phase = Phase(g, t[3])

\* What syncPodGroupPhases would write at this moment.
Observed(g) == Phase(g, g \in ledger[Recon])

GangFairness ==
  /\ \A r \in Replicas :
       /\ WF_gangVars(r \notin ready /\ SwapTree(r))
       /\ WF_gangVars(RecoverGangs(r))
       /\ WF_gangVars(GCList(r)) /\ WF_gangVars(GCGangs(r))
       /\ \A g \in Gangs : WF_gangVars(OnPodGroup(r, g))
  /\ WF_gangVars(ReclaimTick) /\ WF_gangVars(Elapse)
  /\ \A g \in Gangs : <>[]~Due(g, "sync") \/ []<><<AdmittedPatched(g)>>_gangVars
  /\ \A g \in Gangs : <>[]~Due(g, "phases") \/ []<><<PhasePatched(g)>>_gangVars

FairGangSpec == GangSpec /\ GangFairness

-----------------------------------------------------------------------------
(* Properties.                                                             *)

PhaseNames == {"", "Pending", "Scheduling", "Running", "Completed", "Failed"}
Versions == {None} \cup [phase : PhaseNames, admitted : BOOLEAN]

Ticks ==
  {Idle} \cup [op : {"sync"}, todo : SUBSET (Gangs \X BOOLEAN)]
         \cup [op : {"check"}, todo : SUBSET (Gangs \X Nat)]
         \cup [op : {"failing"}, gang : Gangs, todo : SUBSET (Gangs \X Nat)]
         \cup [op : {"phases"}, todo : SUBSET (Gangs \X PhaseNames \X BOOLEAN)]

\* The variables have their types, and a replica recovers gangs only with a tree.
GangTypeOK ==
  /\ pg \in [Gangs -> Versions]
  /\ store \in [Replicas -> [Gangs -> Versions]]
  /\ events \in [Replicas -> [Gangs -> Seq(Versions)]]
  /\ \A r \in Replicas : \A g \in Gangs : Len(events[r][g]) <= MaxLag
  /\ registry \in [Replicas -> [Gangs -> {"unknown", "live", "failed"}]]
  /\ ledger \in [Replicas -> SUBSET Gangs]
  /\ ready \subseteq Replicas /\ recovering \subseteq ready
  /\ sweep \in [Replicas -> {NoSweep} \cup SUBSET Gangs]
  /\ clock \in [Gangs -> Nat \cup {NoClock}] /\ \A g \in Gangs : clock[g] <= ScheduleTO[g]
  /\ tick \in Ticks
  /\ member \in [Pods -> {"absent", "gated", "admitting", "active", "waiting", "bound", "succeeded"}]

\* The registry is rebuilt from events only (coordinator.go:708-745): on a replica
\* that has taken in every version of a PodGroup the registry knows it just when it
\* exists, and has it latched when its phase is Failed, after gaps in the watch,
\* restarts and timeouts of its own; so PreEnqueue there holds a Failed gang back.
RegistryFollows ==
  \A r \in Replicas : \A g \in Gangs : events[r][g] = <<>> =>
    /\ registry[r][g] = "unknown" <=> ~Exists(g)
    /\ pg[g].phase = "Failed" => registry[r][g] = "failed"

\* syncGangStatuses (gangstatus.go:78-82) makes the ledger durable: a reservation
\* that is held from some time on comes to be recorded in the PodGroup for good,
\* and the record of one that is gone for good is cleared, whatever order the
\* informer's versions, failed patches, timeouts and restarts come in.  And
\* syncPodGroupPhases (gangstatus.go:296-302): the phase that goes on being the
\* observed one comes to be the one in the status, and stays it, unless the replica
\* restarts again and again.  For Failed this says that a latch whose own patch
\* was lost is made durable after all.
StatusSettles ==
  \A g \in Gangs :
    /\ <>[](Exists(g) /\ g \in ledger[Sched]) => <>[](pg[g].admitted)
    /\ <>[](Exists(g) /\ g \notin ledger[Sched]) => <>[](~pg[g].admitted)
    /\ \A ph \in {"Running", "Failed"} :
         <>[](Recon \in ready /\ Exists(g) /\ pg[g].phase # "Failed" /\ Observed(g) = ph)
           => <>[](pg[g].phase = ph)

\* "A deleted PodGroup never leaks headroom" (coordinator.go:733): once the
\* PodGroup is gone for good so is the reservation, also when a member read the
\* registry before the delete and admits the gang after it, or the delete event
\* falls into a gap of the watch.
AbandonedIsReleased ==
  \A g \in Gangs : <>[]~Exists(g) => <>[](g \notin ledger[Sched])

\* checkGangTimeouts (gangstatus.go:163-166): a gang that gives up has "its
\* reservation ... released and the PodGroup is marked Failed so PreEnqueue stops
\* re-admitting it": one that stays Failed comes to hold nothing.
FailedHoldsNothing ==
  \A g \in Gangs : <>[](pg[g].phase = "Failed") => <>[](g \notin ledger[Sched])
=============================================================================
