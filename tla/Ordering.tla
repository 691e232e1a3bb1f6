------------------------------ MODULE Ordering ------------------------------
(***************************************************************************)
(* Who goes first and where: the comparator of the scheduling queue        *)
(* (queue.Less), dominant shares, and the score of a node.                 *)
(*                                                                         *)
(* UIDs are numbers, ordered as the strings are.  The utilisation of a     *)
(* node is a fraction <<n, d>>, with +Inf as <<1, 0>>; the code computes   *)
(* it in float64.  The state is a set of entities that wait, and two       *)
(* nodes.                                                                  *)
(***************************************************************************)
EXTENDS Integers, FiniteSets

CONSTANTS
  Uids,        \* the entities that may wait
  Keys,        \* enqueue times and priorities
  MaxWaiting,  \* bound: entities that wait at once
  Resources,   \* the dimensions of nodes and requests
  Asks,        \* the requests to be placed
  NodeShapes   \* the nodes: [alloc, used]

ASSUME OrderingAssumption ==
  /\ Uids \subseteq Nat /\ Keys \subseteq Int
  /\ IsFiniteSet(Resources)
  /\ \A n \in NodeShapes : /\ DOMAIN n.alloc \subseteq Resources
                           /\ n.alloc \in [DOMAIN n.alloc -> Nat]
                           /\ n.used \in [DOMAIN n.used -> Nat]
  /\ \A req \in Asks : req \in [DOMAIN req -> Nat]

VARIABLES
  waiting,  \* the entities in the scheduling queue
  nodes     \* the nodes a pod is scored on

-----------------------------------------------------------------------------
(* pkg/queue/sort.go.  Less is written for units of gangs and for leaves   *)
(* with a fair policy as well; its one caller, the queue sort, hands it    *)
(* neither.  A unit without a gang has GangID 0.                           *)

blockID(a) == IF a.GangID # 0 THEN <<0, a.GangID>> ELSE <<1, a.UID>>

\* Mutant: two blocks of a kind tie.
BlockBeforeByKind(x, y) == x[1] < y[1]

BlockBefore(x, y) == x[1] < y[1] \/ (x[1] = y[1] /\ x[2] < y[2])

repr(a) == IF a.GangID # 0 THEN [prio |-> a.GangPriority, submit |-> a.GangSubmitNanos]
           ELSE [prio |-> a.Priority, submit |-> a.SubmitNanos]

PolicyKey(policy, a) == IF policy = "fair" THEN a.DominantShare ELSE repr(a).submit

\* Blocks go by the policy's key, then by priority, by age and by name; the members
\* of a block by age and UID.
Less(policy, a, b) ==
  LET ka == PolicyKey(policy, a)
      kb == PolicyKey(policy, b)
      ra == repr(a)
      rb == repr(b)
  IN  IF blockID(a) = blockID(b)
      THEN \/ a.SubmitNanos < b.SubmitNanos
           \/ a.SubmitNanos = b.SubmitNanos /\ a.UID < b.UID
      ELSE \/ ka < kb
           \/ ka = kb /\ ra.prio > rb.prio
           \/ ka = kb /\ ra.prio = rb.prio /\ ra.submit < rb.submit
           \/ ka = kb /\ ra = rb /\ BlockBefore(blockID(a), blockID(b))

\* queuesort.go: of a queued entity its priority, time and identity are known; the
\* keys of a gang, and the share, are left at their zero values.
toOrder(e) ==
  [UID |-> e.UID, Priority |-> e.Priority, SubmitNanos |-> e.SubmitNanos,
   DominantShare |-> 0, GangID |-> 0, GangPriority |-> 0, GangSubmitNanos |-> 0]

QueueSortLess(a, b) == Less("fifo", toOrder(a), toOrder(b))

-----------------------------------------------------------------------------
(* pkg/resource/drf.go, pkg/queue/nodesort.go, plugins/capacity/score.go   *)

\* The order of two fractions.
Below(s, t) == s[1] * t[2] < t[1] * s[2]

Amount(v, d) == IF d \in DOMAIN v THEN v[d] ELSE 0

DominantShare(usage, capacity) ==
  LET asked  == {d \in DOMAIN usage : usage[d] > 0}
      shares == {<<usage[d], Amount(capacity, d)>> : d \in asked}
  IN  CASE asked = {}                                  -> <<0, 1>>
        [] \E d \in asked : Amount(capacity, d) = 0    -> <<1, 0>>
        [] OTHER -> CHOOSE s \in shares : \A t \in shares : ~Below(s, t)

\* int64(util * MaxNodeScore), with util clamped to [0, 1].
NodeScore(policy, used, request, capacity) ==
  LET total == [d \in Resources |-> Amount(used, d) + Amount(request, d)]
      util  == DominantShare(total, capacity)
      capped == IF util[1] >= util[2] THEN <<1, 1>> ELSE util
  IN  IF policy = "binpack" THEN (100 * capped[1]) \div capped[2]
      ELSE (100 * (capped[2] - capped[1])) \div capped[2]

\* The engine's vector has no entry for what is zero.
fwkResource(v) == [d \in {e \in DOMAIN v : v[e] # 0} |-> v[d]]

\* Mutant: the whole request is scored.
ScoreAll(policy, req, node) ==
  NodeScore(policy, fwkResource(node.used), req, fwkResource(node.alloc))

\* Only the dimensions the node advertises are scored.
Score(policy, req, node) ==
  LET capacity == fwkResource(node.alloc)
  IN  NodeScore(policy, fwkResource(node.used),
                [d \in DOMAIN req \cap DOMAIN capacity |-> req[d]], capacity)

-----------------------------------------------------------------------------
(* The queue fills up, a pod meets two nodes.                              *)

Enqueue(e) ==
  /\ nodes = <<>> /\ Cardinality(waiting) < MaxWaiting
  /\ \A w \in waiting : e.UID # w.UID
  /\ waiting' = waiting \cup {e}
  /\ UNCHANGED nodes

Place(x, y) ==
  /\ waiting = {} /\ nodes = <<>>
  /\ nodes' = <<x, y>>
  /\ UNCHANGED waiting

OrderingInit == waiting = {} /\ nodes = <<>>

OrderingNext ==
  \/ \E u \in Uids, p \in Keys, t \in Keys :
       Enqueue([UID |-> u, Priority |-> p, SubmitNanos |-> t])
  \/ \E x, y \in NodeShapes : Place(x, y)

OrderingSpec == OrderingInit /\ [][OrderingNext]_<<waiting, nodes>>

-----------------------------------------------------------------------------
(* Properties.                                                             *)

\* sort.go:67-68: Less "is a strict weak ordering", as the scheduling queue uses it,
\* and no two entities tie: of two exactly one goes first, and the order has no
\* cycle, so that the heap always has one entity to go next.
LessIsTotal ==
  /\ \A a \in waiting : ~QueueSortLess(a, a)
  /\ \A a, b \in waiting : a # b => (QueueSortLess(a, b) <=> ~QueueSortLess(b, a))
  /\ \A a, b, c \in waiting : QueueSortLess(a, b) /\ QueueSortLess(b, c) => QueueSortLess(a, c)

\* What the node advertises, and how much of it is taken with the pod on it.
Advertised(node) == {d \in DOMAIN node.alloc : node.alloc[d] > 0}

Utilisation(req, node) ==
  DominantShare([d \in Advertised(node) |-> Amount(node.used, d) + Amount(req, d)], node.alloc)

\* score.go:24-26: dimensions the node does not advertise must not "flatten the
\* ranking".  Of two nodes that hold the pod and whose utilisation differs by two
\* hundredths, spread prefers the emptier and binpack the fuller one, be the
\* dimension missing from the node or there with no capacity.  The code filters the
\* request and not what runs on the node already, so this is about nodes that have
\* nothing running on a dimension they do not advertise.
ScoreTellsNodesApart ==
  nodes # <<>> =>
    \A req \in Asks, i, j \in {1, 2} :
      LET u == Utilisation(req, nodes[i])
          v == Utilisation(req, nodes[j])
      IN  /\ \A n \in {i, j} : \A d \in DOMAIN nodes[n].used :
               nodes[n].used[d] > 0 => d \in Advertised(nodes[n])
          /\ v[1] <= v[2]
          /\ Below(<<100 * u[1] + 2 * u[2], 100 * u[2]>>, v)
          => /\ Score("spread", req, nodes[i]) > Score("spread", req, nodes[j])
             /\ Score("binpack", req, nodes[i]) < Score("binpack", req, nodes[j])
=============================================================================
