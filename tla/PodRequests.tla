---------------------------- MODULE PodRequests ----------------------------
(***************************************************************************)
(* What a pod costs (pkg/resource), as PreFilter works it out: first the   *)
(* effective request over its containers, then the devices that its claims *)
(* ask for.  A step is one iteration of one of the loops.                  *)
(*                                                                         *)
(* A vector maps every dimension to a number; the code prunes a dimension  *)
(* that is 0, which is the same vector.                                    *)
(***************************************************************************)
EXTENDS Totals, Sequences

CONSTANTS
  Dims,      \* the resources containers ask for
  Classes,   \* the device classes
  PodSpecs,  \* the pods that are worked out
  Most       \* bound: devices of a class that are free on a node

\* A device request offers alternatives in the order of preference (first), or is
\* exact and has one.  A claim's kind is "spec", "missing" when it cannot be
\* resolved, or "none" when the entry names no claim.
Amounts == [Dims -> Nat]
Unnamed == "unnamed"   \* the empty class name
ExactRequest == [class : Classes \cup {Unnamed}, mode : {"ExactCount", "All"}, count : Int]
DeviceRequest == [first : BOOLEAN, alts : Seq(ExactRequest)]
ResourceClaim == [kind : {"spec", "missing", "none"}, requests : Seq(DeviceRequest)]
PodSpec == [containers : Seq(Amounts), overhead : Amounts, claims : Seq(ResourceClaim),
            inits : Seq([req : Amounts, always : BOOLEAN])]

ASSUME RequestsAssumption ==
  PodSpecs \subseteq PodSpec /\ Unnamed \notin Classes /\ Most \in Nat

VARIABLES
  pod, failClosed,  \* the arguments
  pc,               \* the loop: "containers", "inits", "claims"; then "counted" or "refused"
  at, sub,          \* the entry the loop is at, the device request of that claim
  acc,              \* EffectiveRequest's reqs, restartableInit, initPeak and eff
  out               \* the vector of PodDeviceRequests

args == <<pod, failClosed>>
vars == <<args, pc, at, sub, acc, out>>

None(S) == [d \in S |-> 0]
Plus(a, b) == [d \in DOMAIN a |-> a[d] + b[d]]
MaxVec(a, b) == [d \in DOMAIN a |-> IF b[d] > a[d] THEN b[d] ELSE a[d]]

-----------------------------------------------------------------------------
(* EffectiveRequest.                                                       *)

SumContainer ==
  /\ pc = "containers" /\ at \in DOMAIN pod.containers
  /\ acc' = [acc EXCEPT !.reqs = Plus(@, pod.containers[at])]
  /\ at' = at + 1
  /\ UNCHANGED <<args, pc, sub, out>>

ContainersEnd ==
  /\ pc = "containers" /\ at > Len(pod.containers)
  /\ pc' = "inits" /\ at' = 1
  /\ UNCHANGED <<args, sub, acc, out>>

\* Mutant: an ordinary init container is taken to run alone.
InitStepAlone(c) ==
  LET side == Plus(acc.restartableInit, c.req)
  IN  IF c.always THEN [acc EXCEPT !.reqs = Plus(@, c.req), !.restartableInit = side,
                                   !.initPeak = MaxVec(@, side)]
      ELSE [acc EXCEPT !.initPeak = MaxVec(@, c.req)]

\* One init container: a native sidecar stays, an ordinary one peaks on top of
\* the sidecars before it.
InitStep(c) ==
  LET side == Plus(acc.restartableInit, c.req)
  IN  IF c.always THEN [acc EXCEPT !.reqs = Plus(@, c.req), !.restartableInit = side,
                                   !.initPeak = MaxVec(@, side)]
      ELSE [acc EXCEPT !.initPeak = MaxVec(@, side)]

PeakInit ==
  /\ pc = "inits" /\ at \in DOMAIN pod.inits
  /\ acc' = InitStep(pod.inits[at])
  /\ at' = at + 1
  /\ UNCHANGED <<args, pc, sub, out>>

InitsEnd ==
  /\ pc = "inits" /\ at > Len(pod.inits)
  /\ acc' = [acc EXCEPT !.eff = Plus(MaxVec(acc.reqs, acc.initPeak), pod.overhead)]
  /\ pc' = "claims" /\ at' = 1
  /\ UNCHANGED <<args, sub, out>>

-----------------------------------------------------------------------------
(* PodDeviceRequests.                                                      *)

\* A device request that a fail-closed caller cannot count.
Uncountable(r) ==
  r.alts # <<>> /\ (r.first \/ (r.alts[1].class # Unnamed /\ r.alts[1].mode = "All"))

\* Mutant: a count that is left out is taken as it stands.
AddExactAsWritten(x) ==
  IF x.class = Unnamed \/ x.mode = "All" THEN out
  ELSE [out EXCEPT ![x.class] = @ + x.count]

addExact(x) ==
  IF x.class = Unnamed \/ x.mode = "All" THEN out
  ELSE [out EXCEPT ![x.class] = @ + (IF x.count <= 0 THEN 1 ELSE x.count)]

\* The device request the loops are at.
AtRequest == /\ pc = "claims" /\ at \in DOMAIN pod.claims /\ pod.claims[at].kind = "spec"
             /\ sub \in DOMAIN pod.claims[at].requests

addDeviceRequest ==
  LET r == pod.claims[at].requests[sub]
  IN  /\ AtRequest /\ ~(failClosed /\ Uncountable(r))
      /\ out' = IF r.alts = <<>> THEN out ELSE addExact(r.alts[1])
      /\ sub' = sub + 1
      /\ UNCHANGED <<args, pc, at, acc>>

\* A claim is done with: none was named, it could not be read, or it has no more
\* requests.
NextClaim ==
  /\ pc = "claims" /\ at \in DOMAIN pod.claims
  /\ LET c == pod.claims[at]
     IN  \/ c.kind = "none"
         \/ c.kind = "missing" /\ ~failClosed
         \/ c.kind = "spec" /\ sub > Len(c.requests)
  /\ at' = at + 1 /\ sub' = 1
  /\ UNCHANGED <<args, pc, acc, out>>

\* The error returns, to a fail-closed caller.
Refuse ==
  /\ failClosed
  /\ \/ AtRequest /\ Uncountable(pod.claims[at].requests[sub])
     \/ pc = "claims" /\ at \in DOMAIN pod.claims /\ pod.claims[at].kind = "missing"
  /\ pc' = "refused"
  /\ UNCHANGED <<args, at, sub, acc, out>>

ClaimsEnd ==
  /\ pc = "claims" /\ at > Len(pod.claims)
  /\ pc' = "counted"
  /\ UNCHANGED <<args, at, sub, acc, out>>

RequestsInit ==
  /\ pod \in PodSpecs /\ failClosed \in BOOLEAN
  /\ pc = "containers" /\ at = 1 /\ sub = 1
  /\ acc = [reqs |-> None(Dims), restartableInit |-> None(Dims),
            initPeak |-> None(Dims), eff |-> None(Dims)]
  /\ out = None(Classes)

RequestsNext ==
  \/ SumContainer \/ ContainersEnd \/ PeakInit \/ InitsEnd
  \/ addDeviceRequest \/ NextClaim \/ Refuse \/ ClaimsEnd

RequestsSpec == RequestsInit /\ [][RequestsNext]_vars

-----------------------------------------------------------------------------
(* Properties.                                                             *)

\* The requests of the first n containers, and of the sidecars among the first n
\* init containers.
Containers(n, d) == Total([i \in 1 .. n |-> pod.containers[i][d]])
Sidecars(n, d) == Total([i \in 1 .. n |-> IF pod.inits[i].always THEN pod.inits[i].req[d] ELSE 0])

\* What runs while init container n does: it, and the sidecars before it.
InitDemand(n, d) ==
  Total([i \in 1 .. n |-> IF pod.inits[i].always \/ i = n THEN pod.inits[i].req[d] ELSE 0])

\* The demand at every moment of a pod's life: during its start, and afterwards.
Demands(d) ==
  {InitDemand(n, d) : n \in DOMAIN pod.inits}
    \cup {Containers(Len(pod.containers), d) + Sidecars(Len(pod.inits), d)}

\* request.go:60-62: the effective request is "what the node must actually hold",
\* in every dimension the most that runs at any moment of the pod's life.
EffectiveIsPeak ==
  pc \in {"claims", "counted", "refused"} =>
    \A d \in Dims : \E m \in Demands(d) :
      (\A x \in Demands(d) : x <= m) /\ acc.eff[d] = m + pod.overhead[d]

\* The most devices of a class that the allocator may hand out for one
\* alternative, for a request, and for the first n requests of a claim.
MostOf(x, k) == CASE x.class # k -> 0
                  [] x.class = k /\ x.mode = "All" -> Most
                  [] x.class = k /\ x.mode # "All" -> IF x.count <= 0 THEN 1 ELSE x.count

MostHanded(r, k) ==
  LET may == {MostOf(r.alts[i], k) : i \in 1 .. (IF r.first THEN Len(r.alts) ELSE 1)}
  IN  IF r.alts = <<>> THEN 0 ELSE CHOOSE m \in may : \A x \in may : x <= m

MostClaimed(c, n, k) ==
  IF c.kind = "spec" THEN Total([j \in 1 .. n |-> MostHanded(c.requests[j], k)]) ELSE 0

\* The most devices of a class for the first n claims of the pod.
MostDevices(n, k) ==
  Total([i \in 1 .. n |-> MostClaimed(pod.claims[i], Len(pod.claims[i].requests), k)])

\* dra.go:29-30: a fail-closed caller "rejects the pod rather than under-count its
\* quota".  A pod it counts gets no more devices than counted, whichever
\* alternative the allocator picks and however many are free, and no claim of it
\* was unreadable; no caller counts devices the pod cannot get.
DevicesAreCovered ==
  pc = "counted" =>
    /\ \A k \in Classes : out[k] <= MostDevices(Len(pod.claims), k)
    /\ failClosed =>
         /\ \A i \in DOMAIN pod.claims : pod.claims[i].kind # "missing"
         /\ \A k \in Classes : out[k] = MostDevices(Len(pod.claims), k)
=============================================================================
