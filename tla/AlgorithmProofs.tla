-------------------------- MODULE AlgorithmProofs --------------------------
(***************************************************************************)
(* Proofs about the pure algorithms, for inputs of any size: the           *)
(* comparator is a total order of the waiting entities; the score tells    *)
(* nodes apart; a pod's request is the peak of its demand, and its devices *)
(* are covered by their count.                                             *)
(*                                                                         *)
(* The comparator rests on one invariant: the entities have keys of the    *)
(* right types and different UIDs.  The request and the count rest on the  *)
(* invariants of their loops.                                              *)
(***************************************************************************)
EXTENDS Ordering, PodRequests, TotalTheorems

\* A leaf is for Zenon unless it names another prover: arithmetic is for SMT.
USE ZenonT(30)

-----------------------------------------------------------------------------
(* The entities that wait.                                                 *)

\* A queued entity, and an AppOrder.
Entity == [UID : Nat, Priority : Int, SubmitNanos : Int]
Unit == [UID : Nat, Priority : Int, SubmitNanos : Int, DominantShare : Nat,
         GangID : Nat, GangPriority : Int, GangSubmitNanos : Int]

\* What Less expects of two units: the members of a gang agree on its keys.
Agree(a, b) == a.GangID # 0 /\ a.GangID = b.GangID =>
  /\ a.GangPriority = b.GangPriority /\ a.GangSubmitNanos = b.GangSubmitNanos
  /\ a.DominantShare = b.DominantShare

\* The inductive invariant.
WellFormed ==
  /\ waiting \subseteq Entity
  /\ \A a, b \in waiting : a.UID = b.UID => a = b

\* The entities are well formed at all times.
THEOREM EntitiesAreWellFormed == OrderingSpec => []WellFormed
<1>1. OrderingInit => WellFormed
  BY DEF OrderingInit, WellFormed
<1>2. WellFormed /\ [OrderingNext]_<<waiting, nodes>> => WellFormed'
  <2> SUFFICES ASSUME WellFormed, [OrderingNext]_<<waiting, nodes>>
               PROVE  WellFormed'
    OBVIOUS
  <2>1. ASSUME NEW u \in Uids, NEW p \in Keys, NEW t \in Keys,
               Enqueue([UID |-> u, Priority |-> p, SubmitNanos |-> t])
        PROVE  WellFormed'
    <3> DEFINE e == [UID |-> u, Priority |-> p, SubmitNanos |-> t]
    <3>1. e \in Entity
      BY OrderingAssumption DEF Entity
    <3>2. waiting' = waiting \cup {e} /\ \A w \in waiting : e.UID # w.UID
      BY <2>1 DEF Enqueue
    <3> HIDE DEF e
    <3> QED
      BY <3>1, <3>2 DEF WellFormed
  <2>2. CASE UNCHANGED waiting
    BY <2>2 DEF WellFormed
  <2> QED
    BY <2>1, <2>2 DEF OrderingNext, Place
<1> QED
  BY <1>1, <1>2, PTL DEF OrderingSpec

-----------------------------------------------------------------------------
(* The comparator.                                                         *)

\* The keys Less compares are numbers, and the block of a unit is its gang's or
\* its own.
LEMMA Keyed ==
  ASSUME NEW a \in Unit, NEW o
  PROVE  /\ PolicyKey(o, a) \in Int /\ repr(a) \in [prio : Int, submit : Int]
         /\ blockID(a) \in Int \X Int
  BY SMT DEF Unit, PolicyKey, repr, blockID

\* Units of one block are the same unit, or members of one gang.
LEMMA SameBlock ==
  ASSUME NEW a \in Unit, NEW b \in Unit, Agree(a, b), NEW o,
         a.UID = b.UID => a = b, blockID(a) = blockID(b)
  PROVE  repr(a) = repr(b) /\ PolicyKey(o, a) = PolicyKey(o, b)
<1>1. CASE a.GangID # 0 /\ b.GangID # 0
  BY <1>1 DEF Agree, Unit, blockID, repr, PolicyKey
<1>2. CASE a.GangID = 0 /\ b.GangID = 0
  <2>1. a = b
    BY <1>2 DEF Unit, blockID
  <2> QED
    BY <2>1
<1>3. ~(a.GangID = 0 /\ b.GangID # 0) /\ ~(a.GangID # 0 /\ b.GangID = 0)
  BY SMT DEF Unit, blockID
<1> QED
  BY <1>1, <1>2, <1>3

\* Less never puts a unit before itself, and puts one of two units before the other.
LEMMA LessIsConnex ==
  ASSUME NEW a \in Unit, NEW b \in Unit, a.UID = b.UID => a = b, NEW o
  PROVE  ~Less(o, a, a) /\ (a # b => (Less(o, a, b) <=> ~Less(o, b, a)))
<1> DEFINE ka == PolicyKey(o, a)
           kb == PolicyKey(o, b)
           ra == repr(a)
           rb == repr(b)
           ia == blockID(a)
           ib == blockID(b)
<1>1. /\ ka \in Int /\ kb \in Int /\ ra \in [prio : Int, submit : Int]
      /\ rb \in [prio : Int, submit : Int] /\ ia \in Int \X Int /\ ib \in Int \X Int
  BY Keyed
<1>2. /\ a.SubmitNanos \in Int /\ b.SubmitNanos \in Int /\ a.UID \in Nat /\ b.UID \in Nat
  BY DEF Unit
<1>3. ~Less(o, a, a)
  BY SMT, <1>2 DEF Less
<1>4. ASSUME a # b, ia = ib
      PROVE  Less(o, a, b) <=> ~Less(o, b, a)
  BY SMT, <1>2, <1>4 DEF Less
<1>5. ASSUME ia # ib
      PROVE  Less(o, a, b) <=> ~Less(o, b, a)
  <2>1. BlockBefore(ia, ib) <=> ~BlockBefore(ib, ia)
    BY SMT, <1>1, <1>5 DEF BlockBefore
  <2>2. ra = rb <=> ra.prio = rb.prio /\ ra.submit = rb.submit
    BY SMT, <1>1
  <2> QED
    BY SMT, <1>1, <1>5, <2>1, <2>2 DEF Less
<1> QED
  BY <1>3, <1>4, <1>5

\* Less is transitive.
LEMMA LessIsTransitive ==
  ASSUME NEW a \in Unit, NEW b \in Unit, NEW c \in Unit, NEW o,
         a.UID = b.UID => a = b, b.UID = c.UID => b = c, a.UID = c.UID => a = c,
         Agree(a, b), Agree(b, c), Agree(a, c),
         Less(o, a, b), Less(o, b, c)
  PROVE  Less(o, a, c)
<1> DEFINE ka == PolicyKey(o, a)
           kb == PolicyKey(o, b)
           kc == PolicyKey(o, c)
           ra == repr(a)
           rb == repr(b)
           rc == repr(c)
           ia == blockID(a)
           ib == blockID(b)
           ic == blockID(c)
<1>1. /\ ka \in Int /\ kb \in Int /\ kc \in Int
      /\ ra \in [prio : Int, submit : Int] /\ rb \in [prio : Int, submit : Int]
      /\ rc \in [prio : Int, submit : Int]
      /\ ia \in Int \X Int /\ ib \in Int \X Int /\ ic \in Int \X Int
  BY Keyed
<1>2. CASE ia = ib /\ ib = ic
  <2>1. /\ a.SubmitNanos \in Int /\ b.SubmitNanos \in Int /\ c.SubmitNanos \in Int
        /\ a.UID \in Nat /\ b.UID \in Nat /\ c.UID \in Nat
    BY DEF Unit
  <2> QED
    BY SMT, <1>2, <2>1 DEF Less
<1>3. CASE ia = ib /\ ib # ic
  <2>1. ra = rb /\ ka = kb
    BY <1>3, SameBlock
  <2> QED
    BY <1>3, <2>1 DEF Less
<1>4. CASE ia # ib /\ ib = ic
  <2>1. rb = rc /\ kb = kc
    BY <1>4, SameBlock
  <2> QED
    BY <1>4, <2>1 DEF Less
<1>5. CASE ia # ib /\ ib # ic
  <2>1. BlockBefore(ia, ib) /\ BlockBefore(ib, ic) => BlockBefore(ia, ic) /\ ia # ic
    BY SMT, <1>1 DEF BlockBefore
  <2>2. CASE ia = ic
    <3>1. ra = rc /\ ka = kc
      BY <2>2, SameBlock
    <3>2. Less(o, c, b)
      BY <3>1, <2>2, <1>5 DEF Less
    <3>3. b # c
      BY <1>5
    <3> QED
      BY <3>2, <3>3, LessIsConnex
  <2>3. CASE ia # ic
    <3>1. /\ ra = rb <=> ra.prio = rb.prio /\ ra.submit = rb.submit
          /\ rb = rc <=> rb.prio = rc.prio /\ rb.submit = rc.submit
          /\ ra = rc <=> ra.prio = rc.prio /\ ra.submit = rc.submit
      BY SMT, <1>1
    <3>2. /\ \/ ka < kb
             \/ ka = kb /\ ra.prio > rb.prio
             \/ ka = kb /\ ra.prio = rb.prio /\ ra.submit < rb.submit
             \/ ka = kb /\ ra = rb /\ BlockBefore(ia, ib)
          /\ \/ kb < kc
             \/ kb = kc /\ rb.prio > rc.prio
             \/ kb = kc /\ rb.prio = rc.prio /\ rb.submit < rc.submit
             \/ kb = kc /\ rb = rc /\ BlockBefore(ib, ic)
      BY <1>5 DEF Less
    <3>3. \/ ka < kc
          \/ ka = kc /\ ra.prio > rc.prio
          \/ ka = kc /\ ra.prio = rc.prio /\ ra.submit < rc.submit
          \/ ka = kc /\ ra = rc /\ BlockBefore(ia, ic)
      <4> HIDE DEF ka, kb, kc, ra, rb, rc, ia, ib, ic
      <4> QED
        BY SMT, <1>1, <2>1, <3>1, <3>2
    <3> QED
      BY <2>3, <3>3 DEF Less
  <2> QED
    BY <2>2, <2>3
<1> QED
  BY <1>2, <1>3, <1>4, <1>5

\* What the scheduling queue compares is an AppOrder with the UID of the entity and
\* without a gang (toOrder).
LEMMA Projected ==
  ASSUME NEW a \in Entity
  PROVE  toOrder(a) \in Unit /\ toOrder(a).UID = a.UID /\ toOrder(a).GangID = 0
  BY SMT DEF toOrder, Entity, Unit

\* In the scheduling queue an entity never goes before itself, and of two one goes
\* first.
LEMMA QueueIsConnex ==
  ASSUME NEW a \in Entity, NEW b \in Entity, a.UID = b.UID => a = b
  PROVE  ~QueueSortLess(a, a) /\ (a # b => (QueueSortLess(a, b) <=> ~QueueSortLess(b, a)))
<1> DEFINE x == toOrder(a)
           y == toOrder(b)
<1>1. x \in Unit /\ y \in Unit /\ x.UID = a.UID /\ y.UID = b.UID
  BY Projected
<1>2. x.UID = y.UID => x = y
  BY <1>1
<1>3. ~Less("fifo", x, x) /\ (x # y => (Less("fifo", x, y) <=> ~Less("fifo", y, x)))
  <2> HIDE DEF x, y
  <2> QED
    BY <1>1, <1>2, LessIsConnex
<1> QED
  BY <1>1, <1>3 DEF QueueSortLess

\* The order of the scheduling queue is transitive.
LEMMA QueueIsTransitive ==
  ASSUME NEW a \in Entity, NEW b \in Entity, NEW c \in Entity,
         a.UID = b.UID => a = b, b.UID = c.UID => b = c, a.UID = c.UID => a = c,
         QueueSortLess(a, b), QueueSortLess(b, c)
  PROVE  QueueSortLess(a, c)
<1> DEFINE x == toOrder(a)
           y == toOrder(b)
           z == toOrder(c)
<1>1. /\ x \in Unit /\ y \in Unit /\ z \in Unit
      /\ x.UID = a.UID /\ y.UID = b.UID /\ z.UID = c.UID
      /\ x.GangID = 0 /\ y.GangID = 0 /\ z.GangID = 0
  BY Projected
<1>2. (x.UID = y.UID => x = y) /\ (y.UID = z.UID => y = z) /\ (x.UID = z.UID => x = z)
  BY <1>1
<1>3. Less("fifo", x, y) /\ Less("fifo", y, z)
  BY DEF QueueSortLess
<1>4. Less("fifo", x, z)
  <2> HIDE DEF x, y, z
  <2>1. Agree(x, y) /\ Agree(y, z) /\ Agree(x, z)
    BY <1>1 DEF Agree
  <2> QED
    BY <1>1, <1>2, <1>3, <2>1, LessIsTransitive
<1> QED
  BY <1>4 DEF QueueSortLess

\* LessIsTotal for any number of waiting entities: the scheduling queue orders them
\* strictly, without ties and without cycles.
THEOREM LessIsTotalHolds == OrderingSpec => []LessIsTotal
<1>1. WellFormed => LessIsTotal
  <2> SUFFICES ASSUME WellFormed
               PROVE  LessIsTotal
    OBVIOUS
  <2>1. ASSUME NEW a \in waiting, NEW b \in waiting
        PROVE  ~QueueSortLess(a, a) /\ (a # b => (QueueSortLess(a, b) <=> ~QueueSortLess(b, a)))
    BY QueueIsConnex DEF WellFormed
  <2>2. ASSUME NEW a \in waiting, NEW b \in waiting, NEW c \in waiting,
               QueueSortLess(a, b), QueueSortLess(b, c)
        PROVE  QueueSortLess(a, c)
    BY <2>2, QueueIsTransitive DEF WellFormed
  <2> QED
    BY <2>1, <2>2 DEF LessIsTotal
<1> QED
  BY <1>1, EntitiesAreWellFormed, PTL

-----------------------------------------------------------------------------
(* The request of a pod.                                                   *)

\* The total of a function that gets one element more.
LEMMA TotalInsert ==
  ASSUME NEW T, IsFiniteSet(T), NEW S \in SUBSET T, NEW x \in T, T = S \cup {x}, x \notin S,
         NEW w \in [T -> Nat], NEW v \in [S -> Nat], \A y \in S : v[y] = w[y]
  PROVE  Total(w) = Total(v) + w[x]
<1> DEFINE u == [y \in T |-> IF y = x THEN 0 ELSE w[y]]
<1>1. u \in [T -> Nat] /\ (\A y \in S : u[y] = v[y]) /\ \A y \in T \ S : u[y] = 0
  OBVIOUS
<1>2. (\A y \in T \ {x} : w[y] = u[y]) /\ u[x] = 0
  OBVIOUS
<1> HIDE DEF u
<1>3. Total(u) = Total(v)
  BY SMT, <1>1, TotalRestrict
<1>4. Total(w) = Total(u) - u[x] + w[x] /\ Total(u) \in Nat
  BY SMT, <1>1, <1>2, TotalUpdate, TotalType
<1> QED
  BY SMT, <1>2, <1>3, <1>4

\* The indices of a sequence that gets one element more.
LEMMA Indices ==
  ASSUME NEW n \in Nat
  PROVE  /\ IsFiniteSet(1 .. n + 1) /\ IsFiniteSet(1 .. n)
         /\ 1 .. n \in SUBSET (1 .. n + 1) /\ n + 1 \in 1 .. n + 1
         /\ 1 .. n + 1 = (1 .. n) \cup {n + 1} /\ n + 1 \notin 1 .. n
<1>1. IsFiniteSet(1 .. n + 1) /\ IsFiniteSet(1 .. n)
  BY SMT, FS_Interval
<1>2. /\ 1 .. n \in SUBSET (1 .. n + 1) /\ n + 1 \in 1 .. n + 1 /\ n + 1 \notin 1 .. n
  BY SMT
<1>3. 1 .. n + 1 = (1 .. n) \cup {n + 1}
  BY SMT
<1> QED
  BY <1>1, <1>2, <1>3

\* The state's types, and how far the loops have come.
RequestsTypeOK ==
  /\ pod \in PodSpec /\ failClosed \in BOOLEAN
  /\ pc \in {"containers", "inits", "claims", "counted", "refused"}
  /\ at \in Nat \ {0} /\ sub \in Nat \ {0}
  /\ acc \in [reqs : Amounts, restartableInit : Amounts, initPeak : Amounts, eff : Amounts]
  /\ out \in [Classes -> Nat]

\* The invariant of the loop over the containers.
ContainersInv ==
  pc = "containers" =>
    /\ at <= Len(pod.containers) + 1
    /\ \A d \in Dims : /\ acc.reqs[d] = Containers(at - 1, d)
                       /\ acc.restartableInit[d] = 0 /\ acc.initPeak[d] = 0

\* The invariant of the loop over the init containers: initPeak is the largest
\* demand so far.
InitsInv ==
  pc = "inits" =>
    /\ at <= Len(pod.inits) + 1
    /\ \A d \in Dims :
         /\ acc.reqs[d] = Containers(Len(pod.containers), d) + Sidecars(at - 1, d)
         /\ acc.restartableInit[d] = Sidecars(at - 1, d)
         /\ \A n \in 1 .. at - 1 : InitDemand(n, d) <= acc.initPeak[d]
         /\ \/ acc.initPeak[d] = 0
            \/ \E n \in 1 .. at - 1 : acc.initPeak[d] = InitDemand(n, d)

RequestInv == RequestsTypeOK /\ ContainersInv /\ InitsInv /\ EffectiveIsPeak

\* An element of a sequence has the type of the sequence.
LEMMA ElementOfSeq ==
  ASSUME NEW R, NEW s \in Seq(R), NEW i \in DOMAIN s
  PROVE  s[i] \in R /\ i \in 1 .. Len(s)
  BY SMT

\* The parts of a pod, with their types.
LEMMA PodParts ==
  ASSUME pod \in PodSpec
  PROVE  /\ Len(pod.containers) \in Nat /\ Len(pod.inits) \in Nat
         /\ DOMAIN pod.containers = 1 .. Len(pod.containers)
         /\ DOMAIN pod.inits = 1 .. Len(pod.inits)
         /\ \A i \in DOMAIN pod.containers : pod.containers[i] \in Amounts
         /\ \A i \in DOMAIN pod.inits : /\ pod.inits[i].req \in Amounts
                                        /\ pod.inits[i].always \in BOOLEAN
         /\ pod.overhead \in Amounts
<1>1. /\ pod.containers \in Seq(Amounts) /\ pod.overhead \in Amounts
      /\ pod.inits \in Seq([req : Amounts, always : BOOLEAN])
  BY DEF PodSpec
<1>2. ASSUME NEW i \in DOMAIN pod.inits
      PROVE  pod.inits[i] \in [req : Amounts, always : BOOLEAN]
  BY <1>1, ElementOfSeq
<1>3. ASSUME NEW i \in DOMAIN pod.containers
      PROVE  pod.containers[i] \in Amounts
  BY <1>1, ElementOfSeq
<1> QED
  BY SMT, <1>1, <1>2, <1>3

\* The sums the loops build are numbers, and grow by one entry.
LEMMA SumsGrow ==
  ASSUME pod \in PodSpec, NEW n \in Nat, NEW d \in Dims
  PROVE  /\ n < Len(pod.containers) =>
              /\ Containers(n, d) \in Nat
              /\ Containers(n + 1, d) = Containers(n, d) + pod.containers[n + 1][d]
         /\ n < Len(pod.inits) =>
              /\ Sidecars(n, d) \in Nat
              /\ Sidecars(n + 1, d) = Sidecars(n, d)
                   + (IF pod.inits[n + 1].always THEN pod.inits[n + 1].req[d] ELSE 0)
              /\ InitDemand(n + 1, d) = Sidecars(n, d) + pod.inits[n + 1].req[d]
<1> DEFINE S == 1 .. n
           T == 1 .. n + 1
           x == n + 1
<1>1. /\ IsFiniteSet(T) /\ IsFiniteSet(S) /\ S \in SUBSET T /\ x \in T
      /\ T = S \cup {x} /\ x \notin S
  BY Indices
<1>2. ASSUME n < Len(pod.containers)
      PROVE  /\ Containers(n, d) \in Nat
             /\ Containers(n + 1, d) = Containers(n, d) + pod.containers[n + 1][d]
  <2> DEFINE w == [i \in T |-> pod.containers[i][d]]
             v == [i \in S |-> pod.containers[i][d]]
  <2>1. \A i \in T : pod.containers[i][d] \in Nat
    BY SMT, <1>2, PodParts DEF Amounts
  <2> HIDE DEF S, T, x
  <2>2. w \in [T -> Nat] /\ v \in [S -> Nat] /\ (\A y \in S : v[y] = w[y])
        /\ w[x] = pod.containers[x][d]
    BY <1>1, <2>1
  <2>3. Total(v) \in Nat /\ Total(w) = Total(v) + w[x]
    <3> HIDE DEF w, v
    <3> QED
      BY SMT, <1>1, <2>2, TotalInsert, TotalType
  <2> QED
    BY <2>2, <2>3 DEF Containers, S, T, x
<1>3. ASSUME n < Len(pod.inits)
      PROVE  /\ Sidecars(n, d) \in Nat
             /\ Sidecars(n + 1, d) = Sidecars(n, d)
                  + (IF pod.inits[n + 1].always THEN pod.inits[n + 1].req[d] ELSE 0)
             /\ InitDemand(n + 1, d) = Sidecars(n, d) + pod.inits[n + 1].req[d]
  <2> DEFINE w == [i \in T |-> IF pod.inits[i].always THEN pod.inits[i].req[d] ELSE 0]
             u == [i \in T |-> IF pod.inits[i].always \/ i = x THEN pod.inits[i].req[d] ELSE 0]
             v == [i \in S |-> IF pod.inits[i].always THEN pod.inits[i].req[d] ELSE 0]
  <2>1. \A i \in T : pod.inits[i].req[d] \in Nat
    BY SMT, <1>3, PodParts DEF Amounts
  <2> HIDE DEF S, T, x
  <2>2. /\ w \in [T -> Nat] /\ v \in [S -> Nat] /\ u \in [T -> Nat]
        /\ (\A y \in S : v[y] = w[y]) /\ (\A y \in S : v[y] = u[y])
        /\ w[x] = (IF pod.inits[x].always THEN pod.inits[x].req[d] ELSE 0)
        /\ u[x] = pod.inits[x].req[d]
    BY <1>1, <2>1
  <2>3. /\ Total(v) \in Nat /\ Total(w) = Total(v) + w[x] /\ Total(u) = Total(v) + u[x]
    <3> HIDE DEF w, u, v
    <3> QED
      BY SMT, <1>1, <2>2, TotalInsert, TotalType
  <2>4. Sidecars(n, d) = Total(v) /\ Sidecars(n + 1, d) = Total(w)
    BY DEF Sidecars, S, T, x
  <2>5. InitDemand(n + 1, d) = Total(u)
    BY DEF InitDemand, S, T, x
  <2> QED
    BY <2>2, <2>3, <2>4, <2>5 DEF x
<1> QED
  BY <1>2, <1>3

\* The sums of a pod are numbers.
LEMMA ContainersType ==
  ASSUME pod \in PodSpec, NEW d \in Dims
  PROVE  Containers(Len(pod.containers), d) \in Nat
<1> DEFINE S == 1 .. Len(pod.containers)
           w == [i \in S |-> pod.containers[i][d]]
<1>1. IsFiniteSet(S)
  BY SMTT(30), PodParts, FS_Interval
<1>2. \A i \in S : pod.containers[i][d] \in Nat
  BY PodParts DEF Amounts
<1> HIDE DEF S
<1>3. w \in [S -> Nat]
  BY <1>2
<1>4. Total(w) \in Nat
  <2> HIDE DEF w
  <2> QED
    BY <1>1, <1>3, TotalType
<1> QED
  BY <1>4 DEF Containers, S

LEMMA InitDemandType ==
  ASSUME pod \in PodSpec, NEW d \in Dims, NEW n \in DOMAIN pod.inits
  PROVE  InitDemand(n, d) \in Nat
<1>1. n - 1 \in Nat /\ n - 1 < Len(pod.inits) /\ n - 1 + 1 = n
  BY SMT, PodParts
<1>2. pod.inits[n].req[d] \in Nat
  BY PodParts DEF Amounts
<1>3. Sidecars(n - 1, d) \in Nat /\ InitDemand(n, d) = Sidecars(n - 1, d) + pod.inits[n].req[d]
  BY <1>1, SumsGrow
<1> QED
  BY SMT, <1>2, <1>3

\* While the arguments stay, so do the sums over them.
LEMMA SameSums ==
  ASSUME UNCHANGED pod
  PROVE  /\ \A n, d : /\ Containers(n, d)' = Containers(n, d) /\ Sidecars(n, d)' = Sidecars(n, d)
                      /\ InitDemand(n, d)' = InitDemand(n, d)
         /\ \A d : Demands(d)' = Demands(d)
  BY SMT DEF Containers, Sidecars, InitDemand, Demands

\* The types are kept by every step.
LEMMA RequestsTypesKept ==
  ASSUME RequestsTypeOK, [RequestsNext]_vars
  PROVE  RequestsTypeOK'
<1> USE DEF RequestsTypeOK
<1>1. CASE SumContainer
  <2>1. pod.containers[at] \in Amounts
    BY <1>1, PodParts DEF SumContainer
  <2>2. Plus(acc.reqs, pod.containers[at]) \in Amounts
    BY SMT, <2>1 DEF Plus, Amounts
  <2> QED
    BY SMT, <1>1, <2>2 DEF SumContainer, args
<1>2. CASE ContainersEnd
  BY SMT, <1>2 DEF ContainersEnd, args
<1>3. CASE PeakInit
  <2>1. pod.inits[at].req \in Amounts
    BY <1>3, PodParts DEF PeakInit
  <2>2. ASSUME NEW a \in Amounts, NEW b \in Amounts
        PROVE  Plus(a, b) \in Amounts /\ MaxVec(a, b) \in Amounts
    BY SMT DEF Plus, MaxVec, Amounts
  <2>3. acc' \in [reqs : Amounts, restartableInit : Amounts, initPeak : Amounts, eff : Amounts]
    BY <1>3, <2>1, <2>2 DEF PeakInit, InitStep
  <2> QED
    BY SMT, <1>3, <2>3 DEF PeakInit, args
<1>4. CASE InitsEnd
  <2>1. MaxVec(acc.reqs, acc.initPeak) \in Amounts
    BY DEF MaxVec, Amounts
  <2>2. Plus(MaxVec(acc.reqs, acc.initPeak), pod.overhead) \in Amounts
    BY SMT, <2>1, PodParts DEF Plus, Amounts
  <2> QED
    BY SMT, <1>4, <2>2 DEF InitsEnd, args
<1>5. CASE addDeviceRequest
  <2> DEFINE r == pod.claims[at].requests[sub]
  <2>1. r \in DeviceRequest
    <3>1. pod.claims \in Seq(ResourceClaim) /\ at \in DOMAIN pod.claims
          /\ sub \in DOMAIN pod.claims[at].requests
      BY <1>5 DEF addDeviceRequest, AtRequest, PodSpec
    <3>2. pod.claims[at] \in ResourceClaim
      BY SMT, <3>1
    <3>3. pod.claims[at].requests \in Seq(DeviceRequest)
      BY <3>2 DEF ResourceClaim
    <3> QED
      BY SMT, <3>1, <3>3
  <2>2. r.alts # <<>> => r.alts[1] \in ExactRequest
    BY SMT, <2>1 DEF DeviceRequest
  <2>3. ASSUME NEW x \in ExactRequest
        PROVE  addExact(x) \in [Classes -> Nat]
    <3>1. x.class \in Classes \cup {Unnamed} /\ x.count \in Int
      BY DEF ExactRequest
    <3>2. (IF x.count <= 0 THEN 1 ELSE x.count) \in Nat
      BY SMT, <3>1
    <3> QED
      BY SMT, <3>1, <3>2 DEF addExact
  <2>4. out' \in [Classes -> Nat]
    <3> HIDE DEF r
    <3> QED
      BY <1>5, <2>2, <2>3 DEF addDeviceRequest, r
  <2> QED
    BY SMTT(30), <1>5, <2>4 DEF addDeviceRequest, args
<1>6. CASE NextClaim
  BY SMT, <1>6 DEF NextClaim, args
<1>7. CASE Refuse
  BY <1>7 DEF Refuse, args
<1>8. CASE ClaimsEnd
  BY <1>8 DEF ClaimsEnd, args
<1>9. CASE UNCHANGED vars
  BY <1>9 DEF vars, args
<1> QED
  BY <1>1, <1>2, <1>3, <1>4, <1>5, <1>6, <1>7, <1>8, <1>9 DEF RequestsNext

\* SumContainer adds the container the loop is at.
LEMMA SumContainerKeeps ==
  ASSUME RequestInv, SumContainer
  PROVE  ContainersInv'
<1>1. /\ pod \in PodSpec /\ at \in Nat \ {0} /\ at <= Len(pod.containers) /\ UNCHANGED pod
      /\ Len(pod.containers) \in Nat /\ acc.reqs \in Amounts /\ pod.containers[at] \in Amounts
  BY SMT, PodParts DEF RequestInv, RequestsTypeOK, SumContainer, args
<1>2. /\ acc'.reqs = Plus(acc.reqs, pod.containers[at])
      /\ acc'.restartableInit = acc.restartableInit /\ acc'.initPeak = acc.initPeak
      /\ at' = at + 1
  BY DEF SumContainer, RequestInv, RequestsTypeOK
<1>3. ASSUME NEW d \in Dims
      PROVE  /\ acc'.reqs[d] = Containers(at, d)
             /\ acc'.restartableInit[d] = 0 /\ acc'.initPeak[d] = 0
  <2>1. /\ acc.reqs[d] = Containers(at - 1, d)
        /\ acc.restartableInit[d] = 0 /\ acc.initPeak[d] = 0
    BY DEF RequestInv, ContainersInv, SumContainer
  <2>2. acc'.reqs[d] = acc.reqs[d] + pod.containers[at][d]
    BY <1>1, <1>2 DEF Plus, Amounts
  <2>3. Containers(at - 1 + 1, d) = Containers(at - 1, d) + pod.containers[at - 1 + 1][d]
    BY SMT, <1>1, SumsGrow
  <2>4. at - 1 + 1 = at
    BY SMT, <1>1
  <2> QED
    BY <1>2, <2>1, <2>2, <2>3, <2>4
<1>4. \A d : Containers(at - 1, d)' = Containers(at, d)
  <2>1. at' - 1 = at
    BY SMT, <1>1, <1>2
  <2> QED
    BY <1>1, <2>1 DEF Containers
<1>5. at' <= Len(pod'.containers) + 1
  BY SMT, <1>1, <1>2
<1> QED
  BY <1>2, <1>3, <1>4, <1>5 DEF ContainersInv

\* ContainersEnd leaves the sum of the containers, before any init container.
LEMMA ContainersEndKeeps ==
  ASSUME RequestInv, ContainersEnd
  PROVE  InitsInv'
<1>1. /\ pod \in PodSpec /\ at = Len(pod.containers) + 1 /\ UNCHANGED <<pod, acc>>
      /\ Len(pod.containers) \in Nat /\ Len(pod.inits) \in Nat /\ at' = 1
  BY SMT, PodParts DEF RequestInv, RequestsTypeOK, ContainersInv, ContainersEnd, args
<1>2. ASSUME NEW d \in Dims
      PROVE  /\ acc.reqs[d] = Containers(Len(pod.containers), d) /\ acc.reqs[d] \in Nat
             /\ acc.restartableInit[d] = 0 /\ acc.initPeak[d] = 0
  <2>1. at - 1 = Len(pod.containers)
    BY SMT, <1>1
  <2> QED
    BY <2>1 DEF RequestInv, ContainersInv, ContainersEnd, RequestsTypeOK, Amounts
<1>3. ASSUME NEW d \in Dims
      PROVE  Sidecars(0, d) = 0
  <2> DEFINE w == [i \in 1 .. 0 |-> IF pod.inits[i].always THEN pod.inits[i].req[d] ELSE 0]
  <2>1. w \in [1 .. 0 -> Nat] /\ IsFiniteSet(1 .. 0) /\ \A i \in 1 .. 0 : w[i] = 0
    BY SMT, FS_Interval
  <2>2. Total(w) = 0
    <3> HIDE DEF w
    <3> QED
      BY <2>1, TotalZero
  <2> QED
    BY <2>2 DEF Sidecars
<1>4. \A d : Sidecars(at - 1, d)' = Sidecars(0, d)
  <2>1. at' - 1 = 0
    BY SMT, <1>1
  <2> QED
    BY <1>1, <2>1 DEF Sidecars
<1>5. \A d : Containers(Len(pod.containers), d)' = Containers(Len(pod.containers), d)
  BY <1>1 DEF Containers
<1>6. (1 .. at - 1)' = {}
  BY SMT, <1>1
<1> QED
  BY SMT, <1>1, <1>2, <1>3, <1>4, <1>5, <1>6 DEF InitsInv

\* PeakInit keeps the largest demand so far: the side of InitStep is the demand while
\* the init container runs.
LEMMA PeakInitKeeps ==
  ASSUME RequestInv, PeakInit
  PROVE  InitsInv'
<1> DEFINE c == pod.inits[at]
           side == Plus(acc.restartableInit, c.req)
<1>1. /\ pod \in PodSpec /\ at \in Nat \ {0} /\ at <= Len(pod.inits) /\ UNCHANGED pod
      /\ Len(pod.inits) \in Nat /\ at' = at + 1 /\ c.req \in Amounts /\ c.always \in BOOLEAN
      /\ acc.reqs \in Amounts /\ acc.restartableInit \in Amounts /\ acc.initPeak \in Amounts
  BY SMT, PodParts DEF RequestInv, RequestsTypeOK, PeakInit, args
<1>2. /\ acc'.reqs = IF c.always THEN Plus(acc.reqs, c.req) ELSE acc.reqs
      /\ acc'.restartableInit = IF c.always THEN side ELSE acc.restartableInit
      /\ acc'.initPeak = MaxVec(acc.initPeak, side)
  BY DEF PeakInit, InitStep, RequestInv, RequestsTypeOK
<1>3. ASSUME NEW d \in Dims
      PROVE  /\ acc'.reqs[d] = Containers(Len(pod.containers), d) + Sidecars(at, d)
             /\ acc'.restartableInit[d] = Sidecars(at, d)
             /\ \A n \in 1 .. at : InitDemand(n, d) <= acc'.initPeak[d]
             /\ \/ acc'.initPeak[d] = 0
                \/ \E n \in 1 .. at : acc'.initPeak[d] = InitDemand(n, d)
  <2>1. /\ acc.reqs[d] = Containers(Len(pod.containers), d) + Sidecars(at - 1, d)
        /\ acc.restartableInit[d] = Sidecars(at - 1, d)
        /\ \A n \in 1 .. at - 1 : InitDemand(n, d) <= acc.initPeak[d]
        /\ \/ acc.initPeak[d] = 0
           \/ \E n \in 1 .. at - 1 : acc.initPeak[d] = InitDemand(n, d)
    BY DEF RequestInv, InitsInv, PeakInit
  <2>2. /\ Sidecars(at - 1, d) \in Nat /\ c.req[d] \in Nat
        /\ Sidecars(at, d) = Sidecars(at - 1, d) + (IF c.always THEN c.req[d] ELSE 0)
        /\ InitDemand(at, d) = Sidecars(at - 1, d) + c.req[d]
    <3>1. at - 1 \in Nat /\ at - 1 < Len(pod.inits) /\ at - 1 + 1 = at
      BY SMT, <1>1
    <3> QED
      BY <1>1, <3>1, SumsGrow DEF Amounts
  <2>3. /\ side[d] = acc.restartableInit[d] + c.req[d]
        /\ Plus(acc.reqs, c.req)[d] = acc.reqs[d] + c.req[d]
        /\ MaxVec(acc.initPeak, side)[d] = IF side[d] > acc.initPeak[d] THEN side[d]
                                           ELSE acc.initPeak[d]
    BY <1>1 DEF Plus, MaxVec, Amounts
  <2>4. Containers(Len(pod.containers), d) \in Int /\ acc.initPeak[d] \in Nat
    <3>1. acc.reqs[d] \in Nat /\ acc.initPeak[d] \in Nat
      BY <1>1 DEF Amounts
    <3>2. Containers(Len(pod.containers), d) \in Nat
      BY <1>1, ContainersType
    <3> QED
      BY SMT, <3>1, <3>2
  <2>5. /\ acc'.reqs[d] = Containers(Len(pod.containers), d) + Sidecars(at, d)
        /\ acc'.restartableInit[d] = Sidecars(at, d)
    <3>1. CASE c.always
      <4>1. /\ acc'.reqs[d] = Containers(Len(pod.containers), d) + Sidecars(at - 1, d) + c.req[d]
            /\ acc'.restartableInit[d] = Sidecars(at - 1, d) + c.req[d]
            /\ Sidecars(at, d) = Sidecars(at - 1, d) + c.req[d]
        BY <1>2, <2>1, <2>2, <2>3, <3>1
      <4> QED BY SMT, <2>2, <2>4, <4>1
    <3>2. CASE ~c.always
      <4>1. /\ acc'.reqs[d] = Containers(Len(pod.containers), d) + Sidecars(at - 1, d)
            /\ acc'.restartableInit[d] = Sidecars(at - 1, d)
            /\ Sidecars(at, d) = Sidecars(at - 1, d) + 0
        BY <1>2, <2>1, <2>2, <3>2
      <4> QED BY SMT, <2>2, <4>1
    <3> QED BY <3>1, <3>2
  <2>6. acc'.initPeak[d] = IF InitDemand(at, d) > acc.initPeak[d] THEN InitDemand(at, d)
                           ELSE acc.initPeak[d]
    BY <1>2, <2>1, <2>2, <2>3
  <2>7. 1 .. at = (1 .. at - 1) \cup {at}
    BY SMT, <1>1
  <2>8. ASSUME NEW n \in 1 .. at
        PROVE  InitDemand(n, d) <= acc'.initPeak[d]
    <3>1. CASE n = at
      BY SMT, <2>2, <2>4, <2>6, <3>1
    <3>2. CASE n \in 1 .. at - 1
      <4>1. InitDemand(n, d) \in Nat
        BY SMT, <1>1, <3>2, InitDemandType, PodParts
      <4>2. InitDemand(n, d) <= acc.initPeak[d]
        BY <2>1, <3>2
      <4>3. InitDemand(at, d) \in Nat
        BY SMT, <2>2
      <4> QED
        BY SMT, <2>4, <2>6, <4>1, <4>2, <4>3
    <3> QED
      BY <2>7, <3>1, <3>2
  <2>9. \/ acc'.initPeak[d] = 0
        \/ \E n \in 1 .. at : acc'.initPeak[d] = InitDemand(n, d)
    BY <2>1, <2>6, <2>7
  <2> QED
    BY <2>5, <2>8, <2>9
<1>4. at' - 1 = at /\ at' <= Len(pod'.inits) + 1
  BY SMT, <1>1
<1>5. \A d : /\ Sidecars(at - 1, d)' = Sidecars(at, d)
             /\ Containers(Len(pod.containers), d)' = Containers(Len(pod.containers), d)
  BY <1>1, <1>4 DEF Sidecars, Containers
<1>6. \A n, d : InitDemand(n, d)' = InitDemand(n, d)
  BY <1>1, SameSums
<1> QED
  BY <1>3, <1>4, <1>5, <1>6 DEF InitsInv

\* InitsEnd takes the larger of the two peaks, which is the largest demand of all.
LEMMA InitsEndKeeps ==
  ASSUME RequestInv, InitsEnd
  PROVE  EffectiveIsPeak'
<1>1. /\ pod \in PodSpec /\ at = Len(pod.inits) + 1 /\ UNCHANGED pod
      /\ Len(pod.inits) \in Nat /\ pod.overhead \in Amounts
      /\ acc.reqs \in Amounts /\ acc.initPeak \in Amounts
      /\ DOMAIN pod.inits = 1 .. Len(pod.inits)
  BY SMT, PodParts DEF RequestInv, RequestsTypeOK, InitsInv, InitsEnd, args
<1>2. acc'.eff = Plus(MaxVec(acc.reqs, acc.initPeak), pod.overhead)
  BY DEF InitsEnd, RequestInv, RequestsTypeOK
<1>3. ASSUME NEW d \in Dims
      PROVE  \E m \in Demands(d) :
               (\A y \in Demands(d) : y <= m) /\ acc'.eff[d] = m + pod.overhead[d]
  <2> DEFINE main == Containers(Len(pod.containers), d) + Sidecars(Len(pod.inits), d)
             peak == acc.initPeak[d]
  <2>1. at - 1 = Len(pod.inits)
    BY SMT, <1>1
  <2>2. /\ acc.reqs[d] = main
        /\ \A n \in DOMAIN pod.inits : InitDemand(n, d) <= peak
        /\ peak = 0 \/ \E n \in DOMAIN pod.inits : peak = InitDemand(n, d)
    BY <1>1, <2>1 DEF RequestInv, InitsInv, InitsEnd
  <2>3. main \in Nat /\ peak \in Nat
    BY <1>1, <2>2 DEF Amounts
  <2>4. acc'.eff[d] = (IF peak > main THEN peak ELSE main) + pod.overhead[d]
    BY <1>1, <1>2, <2>2 DEF Plus, MaxVec, Amounts
  <2>5. \A y \in Demands(d) : y = main \/ \E n \in DOMAIN pod.inits : y = InitDemand(n, d)
    BY DEF Demands
  <2>6. main \in Demands(d) /\ \A n \in DOMAIN pod.inits : InitDemand(n, d) \in Demands(d)
    BY DEF Demands
  <2> HIDE DEF main, peak
  <2>7. \A n \in DOMAIN pod.inits : InitDemand(n, d) \in Nat
    BY <1>1, InitDemandType
  <2>8. CASE peak > main
    <3>1. peak \in Demands(d)
      BY SMT, <2>2, <2>3, <2>6, <2>8
    <3>2. \A y \in Demands(d) : y <= peak
      BY SMT, <2>2, <2>3, <2>5, <2>8
    <3> QED
      BY <2>4, <2>8, <3>1, <3>2
  <2>9. CASE ~(peak > main)
    <3>1. \A y \in Demands(d) : y <= main
      BY SMT, <2>2, <2>3, <2>5, <2>7, <2>9
    <3> QED
      BY <2>4, <2>6, <2>9, <3>1
  <2> QED
    BY <2>8, <2>9
<1>4. \A d : Demands(d)' = Demands(d)
  BY <1>1, SameSums
<1> QED
  BY <1>1, <1>3, <1>4 DEF EffectiveIsPeak

\* The four steps of the second loop leave the effective request alone.
LEMMA ClaimStepsKeep ==
  ASSUME RequestInv, addDeviceRequest \/ NextClaim \/ Refuse \/ ClaimsEnd
  PROVE  EffectiveIsPeak' /\ pc' \notin {"containers", "inits"}
<1>1. pc = "claims" /\ UNCHANGED <<pod, acc>> /\ pc' \notin {"containers", "inits"}
  BY DEF addDeviceRequest, NextClaim, Refuse, ClaimsEnd, AtRequest, args
<1>2. \A d : Demands(d)' = Demands(d)
  BY <1>1, SameSums
<1> QED
  BY <1>1, <1>2 DEF RequestInv, EffectiveIsPeak

\* EffectiveIsPeak for pods with any number of containers, init containers and
\* sidecars: the invariants of the two loops of EffectiveRequest.
THEOREM EffectiveIsPeakHolds == RequestsSpec => []EffectiveIsPeak
<1>1. RequestsInit => RequestInv
  <2> SUFFICES ASSUME RequestsInit
               PROVE  RequestInv
    OBVIOUS
  <2>1. RequestsTypeOK
    BY SMT, RequestsAssumption DEF RequestsInit, RequestsTypeOK, None, Amounts
  <2>2. ASSUME NEW d \in Dims PROVE Containers(0, d) = 0
    <3> DEFINE w == [i \in 1 .. 0 |-> pod.containers[i][d]]
    <3>1. w \in [1 .. 0 -> Nat] /\ IsFiniteSet(1 .. 0) /\ \A i \in 1 .. 0 : w[i] = 0
      BY SMT, FS_Interval
    <3>2. Total(w) = 0
      <4> HIDE DEF w
      <4> QED
        BY <3>1, TotalZero
    <3> QED
      BY <3>2 DEF Containers
  <2>3. ContainersInv
    <3>1. at = 1 /\ at - 1 = 0 /\ Len(pod.containers) \in Nat
      BY SMT, <2>1, PodParts DEF RequestsInit, RequestsTypeOK
    <3> QED
      BY SMT, <2>2, <3>1 DEF ContainersInv, RequestsInit, None
  <2> QED
    BY <2>1, <2>3 DEF RequestInv, InitsInv, EffectiveIsPeak, RequestsInit
<1>2. RequestInv /\ [RequestsNext]_vars => RequestInv'
  <2> SUFFICES ASSUME RequestInv, [RequestsNext]_vars
               PROVE  ContainersInv' /\ InitsInv' /\ EffectiveIsPeak'
    BY RequestsTypesKept DEF RequestInv
  <2>1. CASE SumContainer
    <3>1. pc' = "containers"
      BY <2>1 DEF SumContainer
    <3> QED
      BY <2>1, <3>1, SumContainerKeeps DEF InitsInv, EffectiveIsPeak
  <2>2. CASE ContainersEnd
    <3>1. pc' = "inits"
      BY <2>2 DEF ContainersEnd
    <3> QED
      BY <2>2, <3>1, ContainersEndKeeps DEF ContainersInv, EffectiveIsPeak
  <2>3. CASE PeakInit
    <3>1. pc' = "inits"
      BY <2>3 DEF PeakInit
    <3> QED
      BY <2>3, <3>1, PeakInitKeeps DEF ContainersInv, EffectiveIsPeak
  <2>4. CASE InitsEnd
    <3>1. pc' = "claims"
      BY <2>4 DEF InitsEnd
    <3> QED
      BY <2>4, <3>1, InitsEndKeeps DEF ContainersInv, InitsInv
  <2>5. CASE addDeviceRequest \/ NextClaim \/ Refuse \/ ClaimsEnd
    BY <2>5, ClaimStepsKeep DEF ContainersInv, InitsInv
  <2>6. CASE UNCHANGED vars
    <3>1. UNCHANGED <<pod, pc, at, acc>>
      BY <2>6 DEF vars, args
    <3>2. ContainersInv'
      BY <3>1 DEF RequestInv, ContainersInv, Containers
    <3>3. InitsInv'
      BY <3>1 DEF RequestInv, InitsInv, Containers, Sidecars, InitDemand
    <3>4. \A d : Demands(d)' = Demands(d)
      BY <3>1, SameSums
    <3> QED
      BY <3>1, <3>2, <3>3, <3>4 DEF RequestInv, EffectiveIsPeak
  <2> QED
    BY <2>1, <2>2, <2>3, <2>4, <2>5, <2>6 DEF RequestsNext
<1>3. RequestInv => EffectiveIsPeak
  BY DEF RequestInv
<1> QED
  BY <1>1, <1>2, <1>3, PTL DEF RequestsSpec

-----------------------------------------------------------------------------
(* The devices of a pod.                                                   *)

\* A function from a finite set to Nat has a greatest value.
LEMMA GreatestValue ==
  ASSUME NEW D, IsFiniteSet(D), D # {}, NEW f \in [D -> Nat]
  PROVE  \E i \in D : \A j \in D : f[j] <= f[i]
<1> DEFINE R == {ss \in D \X D : f[ss[1]] > f[ss[2]]}
<1>1. \A i, j \in D : <<i, j>> \in R <=> f[i] > f[j]
  OBVIOUS
<1> HIDE DEF R
<1>2. \A i \in D : <<i, i>> \notin R
  BY SMT, <1>1
<1>3. \A i, j, n \in D : <<i, j>> \in R /\ <<j, n>> \in R => <<i, n>> \in R
  BY SMT, <1>1
<1>4. PICK i \in D : \A j \in D : <<j, i>> \notin R
  BY <1>2, <1>3, MinimalExists
<1>5. \A j \in D : ~(f[j] > f[i]) /\ f[j] \in Nat /\ f[i] \in Nat
  BY <1>1, <1>4
<1>6. \A j \in D : f[j] <= f[i]
  BY SMT, <1>5
<1> QED
  BY <1>6

\* What addDeviceRequest counts of a class for a request.
Counts(r, k) ==
  IF r.alts # <<>> /\ r.alts[1].class = k /\ r.alts[1].mode # "All"
  THEN IF r.alts[1].count <= 0 THEN 1 ELSE r.alts[1].count
  ELSE 0

\* It counts no more than may be handed out, and all of it if the request is countable.
LEMMA HandedIsCounted ==
  ASSUME NEW r \in DeviceRequest, NEW k \in Classes
  PROVE  /\ Counts(r, k) \in Nat /\ MostHanded(r, k) \in Nat
         /\ Counts(r, k) <= MostHanded(r, k)
         /\ ~Uncountable(r) => Counts(r, k) = MostHanded(r, k)
<1> DEFINE last == IF r.first THEN Len(r.alts) ELSE 1
           may == {MostOf(r.alts[i], k) : i \in 1 .. last}
<1>1. CASE r.alts = <<>>
  BY SMT, <1>1 DEF Counts, MostHanded
<1>2. CASE r.alts # <<>>
  <2>1. r.alts \in Seq(ExactRequest) /\ r.first \in BOOLEAN
    BY DEF DeviceRequest
  <2>2. Len(r.alts) \in Nat \ {0} /\ DOMAIN r.alts = 1 .. Len(r.alts)
    BY SMT, <1>2, <2>1
  <2>3. last \in Nat \ {0} /\ 1 .. last \in SUBSET DOMAIN r.alts /\ 1 \in 1 .. last
    BY SMT, <2>1, <2>2
  <2>4. \A i \in DOMAIN r.alts : r.alts[i] \in ExactRequest
    BY <2>1, ElementOfSeq
  <2>5. ASSUME NEW e \in ExactRequest
        PROVE  MostOf(e, k) \in Nat
    <3>1. e.count \in Int /\ Most \in Nat
      BY RequestsAssumption DEF ExactRequest
    <3> QED
      BY SMT, <3>1 DEF MostOf
  <2>6. may \in SUBSET Nat
    BY <2>3, <2>4, <2>5
  <2>7. MostOf(r.alts[1], k) \in may /\ (~r.first => may = {MostOf(r.alts[1], k)})
    BY SMTT(30), <2>3
  <2> DEFINE most == MostHanded(r, k)
             m1 == MostOf(r.alts[1], k)
  <2>8. most = CHOOSE m \in may : \A y \in may : y <= m
    BY <1>2 DEF MostHanded
  <2>9. \E m \in may : \A y \in may : y <= m
    <3> DEFINE D == 1 .. last
               f == [i \in D |-> MostOf(r.alts[i], k)]
    <3> HIDE DEF last
    <3>1. IsFiniteSet(D) /\ D # {}
      <4>1. IsFiniteSet(1 .. last)
        BY SMT, <2>3, FS_Interval
      <4> QED
        BY <2>3, <4>1
    <3> HIDE DEF D
    <3>2. f \in [D -> Nat]
      BY <2>3, <2>4, <2>5 DEF D
    <3>3. may = {f[i] : i \in D}
      BY DEF D
    <3>4. \E i \in D : \A j \in D : f[j] <= f[i]
      <4> HIDE DEF f
      <4> QED
        BY <3>1, <3>2, GreatestValue
    <3> HIDE DEF may
    <3> QED
      BY <3>3, <3>4
  <2> HIDE DEF may, last
  <2>10. most \in may /\ \A y \in may : y <= most
    BY <2>8, <2>9
  <2>11. most \in Nat /\ m1 \in Nat /\ m1 <= most /\ (~r.first => most = m1)
    BY <2>6, <2>7, <2>10
  <2>12. /\ Counts(r, k) \in Nat /\ Counts(r, k) <= m1
         /\ ~Uncountable(r) => Counts(r, k) = m1
    <3>1. r.alts[1] \in ExactRequest
      BY SMT, <2>2, <2>4
    <3>2. /\ r.alts[1].class \in Classes \cup {Unnamed} /\ r.alts[1].count \in Int
          /\ Most \in Nat /\ Unnamed \notin Classes
      BY <3>1, RequestsAssumption DEF ExactRequest
    <3> QED
      BY SMT, <1>2, <3>2 DEF Counts, MostOf, Uncountable
  <2>13. ~Uncountable(r) => ~r.first
    BY <1>2 DEF Uncountable
  <2> HIDE DEF most, m1
  <2>14. /\ Counts(r, k) <= most
         /\ ~Uncountable(r) => Counts(r, k) = most
    BY SMT, <2>11, <2>12, <2>13
  <2> QED
    BY <2>11, <2>12, <2>14 DEF most
<1> QED
  BY <1>1, <1>2

\* The claims of a pod, with their types.
LEMMA PodClaims ==
  ASSUME pod \in PodSpec
  PROVE  /\ Len(pod.claims) \in Nat /\ DOMAIN pod.claims = 1 .. Len(pod.claims)
         /\ \A i \in DOMAIN pod.claims : pod.claims[i] \in ResourceClaim
<1>1. pod.claims \in Seq(ResourceClaim)
  BY DEF PodSpec
<1>2. \A i \in DOMAIN pod.claims : pod.claims[i] \in ResourceClaim
  BY <1>1, ElementOfSeq
<1> QED
  BY SMT, <1>1, <1>2

\* The requests of a claim, with their types.
LEMMA ClaimRequests ==
  ASSUME NEW c \in ResourceClaim
  PROVE  /\ Len(c.requests) \in Nat /\ DOMAIN c.requests = 1 .. Len(c.requests)
         /\ \A j \in DOMAIN c.requests : c.requests[j] \in DeviceRequest
<1>1. c.requests \in Seq(DeviceRequest)
  BY DEF ResourceClaim
<1>2. \A j \in DOMAIN c.requests : c.requests[j] \in DeviceRequest
  BY <1>1, ElementOfSeq
<1> QED
  BY SMT, <1>1, <1>2

\* What a claim may get grows by what its next request may get.
LEMMA MostClaimedGrows ==
  ASSUME NEW c \in ResourceClaim, NEW k \in Classes, NEW n \in Nat, n <= Len(c.requests)
  PROVE  /\ MostClaimed(c, n, k) \in Nat
         /\ n = 0 => MostClaimed(c, n, k) = 0
         /\ n < Len(c.requests) /\ c.kind = "spec" =>
              MostClaimed(c, n + 1, k) = MostClaimed(c, n, k) + MostHanded(c.requests[n + 1], k)
<1> DEFINE S == 1 .. n
           T == 1 .. n + 1
           x == n + 1
           v == [j \in S |-> MostHanded(c.requests[j], k)]
           w == [j \in T |-> MostHanded(c.requests[j], k)]
<1>1. /\ IsFiniteSet(T) /\ IsFiniteSet(S) /\ S \in SUBSET T /\ x \in T
      /\ T = S \cup {x} /\ x \notin S
  BY Indices
<1>2. S \in SUBSET DOMAIN c.requests /\ (n = 0 => S = {})
      /\ (n < Len(c.requests) => T \in SUBSET DOMAIN c.requests)
  BY SMT, ClaimRequests
<1> HIDE DEF S, T, x
<1>3. \A j \in DOMAIN c.requests : MostHanded(c.requests[j], k) \in Nat
  BY ClaimRequests, HandedIsCounted
<1>4. v \in [S -> Nat]
  BY <1>2, <1>3
<1>5. Total(v) \in Nat /\ (n = 0 => Total(v) = 0)
  <2>1. n = 0 => \A j \in S : v[j] = 0
    BY <1>2
  <2> HIDE DEF v
  <2> QED
    BY <1>1, <1>4, <2>1, TotalType, TotalZero
<1>6. ASSUME n < Len(c.requests)
      PROVE  Total(w) = Total(v) + MostHanded(c.requests[x], k)
  <2>1. w \in [T -> Nat] /\ (\A y \in S : v[y] = w[y]) /\ w[x] = MostHanded(c.requests[x], k)
    BY <1>1, <1>2, <1>3, <1>6
  <2>2. Total(w) = Total(v) + w[x]
    <3> HIDE DEF w, v
    <3> QED
      BY SMT, <1>1, <1>4, <2>1, TotalInsert
  <2> QED
    BY <2>1, <2>2
<1>7. c.kind = "spec" => MostClaimed(c, n, k) = Total(v) /\ MostClaimed(c, n + 1, k) = Total(w)
  BY DEF MostClaimed, S, T
<1>8. c.kind # "spec" => MostClaimed(c, n, k) = 0
  BY DEF MostClaimed
<1> QED
  BY SMT, <1>5, <1>6, <1>7, <1>8 DEF x

\* What the claims of a pod may get grows by what the next one may get.
LEMMA MostDevicesGrows ==
  ASSUME pod \in PodSpec, NEW k \in Classes, NEW n \in Nat, n <= Len(pod.claims)
  PROVE  /\ MostDevices(n, k) \in Nat
         /\ n = 0 => MostDevices(n, k) = 0
         /\ n < Len(pod.claims) =>
              MostDevices(n + 1, k) = MostDevices(n, k)
                + MostClaimed(pod.claims[n + 1], Len(pod.claims[n + 1].requests), k)
<1> DEFINE S == 1 .. n
           T == 1 .. n + 1
           x == n + 1
           m(i) == MostClaimed(pod.claims[i], Len(pod.claims[i].requests), k)
           v == [i \in S |-> m(i)]
           w == [i \in T |-> m(i)]
<1>1. /\ IsFiniteSet(T) /\ IsFiniteSet(S) /\ S \in SUBSET T /\ x \in T
      /\ T = S \cup {x} /\ x \notin S
  BY Indices
<1>2. S \in SUBSET DOMAIN pod.claims /\ (n = 0 => S = {})
      /\ (n < Len(pod.claims) => T \in SUBSET DOMAIN pod.claims)
  BY SMT, PodClaims
<1>3. ASSUME NEW i \in DOMAIN pod.claims PROVE m(i) \in Nat
  <2>1. pod.claims[i] \in ResourceClaim
    BY PodClaims
  <2>2. Len(pod.claims[i].requests) \in Nat
    BY <2>1, ClaimRequests
  <2> QED
    BY SMT, <2>1, <2>2, MostClaimedGrows
<1>4. MostDevices(n, k) = Total(v) /\ MostDevices(n + 1, k) = Total(w)
  BY DEF MostDevices
<1> HIDE DEF S, T, x, m
<1>5. v \in [S -> Nat]
  BY <1>2, <1>3
<1>6. Total(v) \in Nat /\ (n = 0 => Total(v) = 0)
  <2>1. n = 0 => \A i \in S : v[i] = 0
    BY <1>2
  <2> HIDE DEF v
  <2> QED
    BY <1>1, <1>5, <2>1, TotalType, TotalZero
<1>7. ASSUME n < Len(pod.claims)
      PROVE  Total(w) = Total(v) + m(x)
  <2>1. w \in [T -> Nat] /\ (\A y \in S : v[y] = w[y]) /\ w[x] = m(x)
    BY <1>1, <1>2, <1>3, <1>7
  <2>2. Total(w) = Total(v) + w[x]
    <3> HIDE DEF w, v
    <3> QED
      BY SMT, <1>1, <1>5, <2>1, TotalInsert
  <2> QED
    BY <2>1, <2>2
<1> QED
  BY <1>4, <1>6, <1>7 DEF x, m

\* What the claim the loop is at may get for the requests that are counted.
Part(k) == IF sub = 1 THEN 0 ELSE MostClaimed(pod.claims[at], sub - 1, k)

\* The count of a class is at most n, and n for a fail-closed caller.
CountedUpTo(n, k) == out[k] <= n /\ (failClosed => out[k] = n)

\* The invariant of the loops over the claims and their requests.
ClaimsInv ==
  /\ pc \in {"containers", "inits"} => sub = 1 /\ out = None(Classes)
  /\ pc = "claims" =>
       /\ at <= Len(pod.claims) + 1
       /\ sub # 1 => /\ at \in DOMAIN pod.claims /\ pod.claims[at].kind = "spec"
                     /\ sub <= Len(pod.claims[at].requests) + 1
       /\ failClosed => \A i \in 1 .. at - 1 : pod.claims[i].kind # "missing"
       /\ \A k \in Classes : CountedUpTo(MostDevices(at - 1, k) + Part(k), k)
  /\ DevicesAreCovered

DeviceInv == RequestsTypeOK /\ ClaimsInv

\* While the arguments stay, so do the devices they may get.
LEMMA SameDevices ==
  ASSUME UNCHANGED pod
  PROVE  \A n, k : MostDevices(n, k)' = MostDevices(n, k)
  BY DEF MostDevices

\* addDeviceRequest counts the request the loop is at.
LEMMA AddRequestKeeps ==
  ASSUME DeviceInv, addDeviceRequest
  PROVE  ClaimsInv'
<1> DEFINE c == pod.claims[at]
           r == c.requests[sub]
<1>1. /\ pod \in PodSpec /\ failClosed \in BOOLEAN /\ at \in Nat \ {0} /\ sub \in Nat \ {0}
      /\ out \in [Classes -> Nat] /\ pc = "claims" /\ at \in DOMAIN pod.claims
      /\ c.kind = "spec" /\ sub \in DOMAIN c.requests
      /\ UNCHANGED <<pod, failClosed, pc, at>> /\ sub' = sub + 1
      /\ failClosed => ~Uncountable(r)
      /\ out' = IF r.alts = <<>> THEN out ELSE addExact(r.alts[1])
  BY DEF DeviceInv, RequestsTypeOK, addDeviceRequest, AtRequest, args
<1>2. c \in ResourceClaim
  BY <1>1, PodClaims
<1>3. /\ Len(c.requests) \in Nat /\ sub <= Len(c.requests) /\ r \in DeviceRequest
  BY SMT, <1>1, <1>2, ClaimRequests
<1>4. ASSUME NEW k \in Classes
      PROVE  out'[k] = out[k] + Counts(r, k)
  <2>1. CASE r.alts = <<>>
    BY SMT, <1>1, <2>1 DEF Counts
  <2>2. CASE r.alts # <<>>
    <3>1. r.alts[1] \in ExactRequest
      BY SMT, <1>3, <2>2 DEF DeviceRequest
    <3>2. r.alts[1].class \in Classes \cup {Unnamed} /\ r.alts[1].count \in Int
          /\ Unnamed \notin Classes
      BY <3>1, RequestsAssumption DEF ExactRequest
    <3> HIDE DEF r
    <3> QED
      BY SMT, <1>1, <2>2, <3>2 DEF addExact, Counts
  <2> QED
    BY <2>1, <2>2
<1>5. ASSUME NEW k \in Classes
      PROVE  CountedUpTo(MostDevices(at - 1, k) + Part(k), k)'
  <2>1. CountedUpTo(MostDevices(at - 1, k) + Part(k), k)
    BY <1>1 DEF DeviceInv, ClaimsInv
  <2>2. sub - 1 \in Nat /\ sub - 1 < Len(c.requests) /\ sub - 1 + 1 = sub
    BY SMTT(30), <1>1, <1>3
  <2>3. /\ MostClaimed(c, sub - 1, k) \in Nat
        /\ sub - 1 = 0 => MostClaimed(c, sub - 1, k) = 0
        /\ MostClaimed(c, sub, k) = MostClaimed(c, sub - 1, k) + MostHanded(r, k)
    BY SMTT(30), <1>1, <1>2, <1>3, <2>2, MostClaimedGrows
  <2>4. Part(k) = MostClaimed(c, sub - 1, k)
    BY SMT, <1>1, <2>3 DEF Part
  <2>5. Part(k)' = MostClaimed(c, sub, k)
    <3>1. sub' # 1 /\ sub' - 1 = sub
      BY SMT, <1>1
    <3> QED
      BY <1>1, <3>1 DEF Part
  <2>6. MostDevices(at - 1, k)' = MostDevices(at - 1, k)
    BY <1>1 DEF MostDevices
  <2>7. MostDevices(at - 1, k) \in Nat
    <3>1. at - 1 \in Nat /\ at - 1 <= Len(pod.claims)
      BY SMT, <1>1, PodClaims
    <3> QED
      BY <1>1, <3>1, MostDevicesGrows
  <2>8. /\ Counts(r, k) \in Nat /\ MostHanded(r, k) \in Nat
        /\ Counts(r, k) <= MostHanded(r, k)
        /\ failClosed => Counts(r, k) = MostHanded(r, k)
    BY <1>1, <1>3, HandedIsCounted
  <2>9. out[k] \in Nat /\ out'[k] = out[k] + Counts(r, k)
    BY <1>1, <1>4
  <2>10. MostDevices(at - 1, k)' + Part(k)'
           = MostDevices(at - 1, k) + Part(k) + MostHanded(r, k)
    BY SMT, <2>3, <2>4, <2>5, <2>6, <2>7, <2>8
  <2> HIDE DEF c, r
  <2> QED
    BY SMTT(30), <1>1, <2>1, <2>3, <2>4, <2>7, <2>8, <2>9, <2>10 DEF CountedUpTo
<1>6. sub' <= Len(pod'.claims[at'].requests) + 1
  BY SMT, <1>1, <1>3
<1> QED
  BY <1>1, <1>5, <1>6 DEF DeviceInv, ClaimsInv, DevicesAreCovered

\* NextClaim moves on when the requests of a claim are all counted, or it has none.
LEMMA NextClaimKeeps ==
  ASSUME DeviceInv, NextClaim
  PROVE  ClaimsInv'
<1> DEFINE c == pod.claims[at]
<1>1. /\ pod \in PodSpec /\ failClosed \in BOOLEAN /\ at \in Nat \ {0} /\ sub \in Nat \ {0}
      /\ out \in [Classes -> Nat] /\ pc = "claims" /\ at \in DOMAIN pod.claims
      /\ UNCHANGED <<pod, failClosed, pc, out>> /\ sub' = 1 /\ at' = at + 1
      /\ \/ c.kind = "none"
         \/ c.kind = "missing" /\ ~failClosed
         \/ c.kind = "spec" /\ sub > Len(c.requests)
  BY DEF DeviceInv, RequestsTypeOK, NextClaim, args
<1>2. c \in ResourceClaim
  BY <1>1, PodClaims
<1>3. Len(c.requests) \in Nat /\ Len(pod.claims) \in Nat /\ at <= Len(pod.claims)
  BY SMT, <1>1, <1>2, ClaimRequests, PodClaims
<1>4. ASSUME NEW k \in Classes
      PROVE  CountedUpTo(MostDevices(at - 1, k) + Part(k), k)'
  <2>1. CountedUpTo(MostDevices(at - 1, k) + Part(k), k)
    BY <1>1 DEF DeviceInv, ClaimsInv
  <2>2. Part(k) = MostClaimed(c, Len(c.requests), k)
    <3>1. CASE c.kind # "spec"
      <4>1. sub = 1
        BY <1>1, <3>1 DEF DeviceInv, ClaimsInv
      <4> QED
        BY <3>1, <4>1 DEF Part, MostClaimed
    <3>2. CASE c.kind = "spec" /\ sub = 1
      <4>1. Len(c.requests) = 0
        BY SMT, <1>1, <1>3, <3>2
      <4>2. MostClaimed(c, Len(c.requests), k) = 0
        BY SMT, <1>2, <4>1, MostClaimedGrows
      <4> QED
        BY <3>2, <4>2 DEF Part
    <3>3. CASE c.kind = "spec" /\ sub # 1
      <4>1. sub <= Len(c.requests) + 1
        BY <1>1, <3>3 DEF DeviceInv, ClaimsInv
      <4>2. sub - 1 = Len(c.requests)
        BY SMT, <1>1, <1>3, <3>3, <4>1
      <4> QED
        BY <3>3, <4>2 DEF Part
    <3> QED
      BY <3>1, <3>2, <3>3
  <2>3. Part(k)' = 0
    BY <1>1 DEF Part
  <2>4. at - 1 \in Nat /\ at - 1 < Len(pod.claims) /\ at - 1 + 1 = at
    BY SMT, <1>1, <1>3
  <2>5. /\ MostDevices(at, k) = MostDevices(at - 1, k) + MostClaimed(c, Len(c.requests), k)
        /\ MostDevices(at - 1, k) \in Nat
    BY SMT, <1>1, <1>3, <2>4, MostDevicesGrows
  <2>6. MostDevices(at - 1, k)' = MostDevices(at, k)
    <3>1. at' - 1 = at
      BY SMT, <1>1
    <3> QED
      BY <1>1, <3>1 DEF MostDevices
  <2>7. MostClaimed(c, Len(c.requests), k) \in Nat
    BY SMT, <1>2, <1>3, MostClaimedGrows
  <2>8. MostDevices(at - 1, k)' + Part(k)' = MostDevices(at - 1, k) + Part(k)
    BY SMT, <2>2, <2>3, <2>5, <2>6, <2>7
  <2> HIDE DEF c
  <2> QED
    BY <1>1, <2>1, <2>8 DEF CountedUpTo
<1>5. failClosed => \A i \in 1 .. at : pod.claims[i].kind # "missing"
  <2>1. 1 .. at = (1 .. at - 1) \cup {at}
    BY SMT, <1>1
  <2> QED
    BY <1>1, <2>1 DEF DeviceInv, ClaimsInv
<1>6. at' <= Len(pod'.claims) + 1 /\ at' - 1 = at
  BY SMT, <1>1, <1>3
<1> QED
  BY <1>1, <1>4, <1>5, <1>6 DEF DeviceInv, ClaimsInv, DevicesAreCovered

\* DevicesAreCovered for pods with any number of claims and requests: the invariant of
\* the two loops of PodDeviceRequests.
THEOREM DevicesAreCoveredHolds == RequestsSpec => []DevicesAreCovered
<1>1. RequestsInit => DeviceInv
  BY SMT, RequestsAssumption
     DEF RequestsInit, DeviceInv, ClaimsInv, RequestsTypeOK, DevicesAreCovered, None, Amounts
<1>2. DeviceInv /\ [RequestsNext]_vars => DeviceInv'
  <2> SUFFICES ASSUME DeviceInv, [RequestsNext]_vars
               PROVE  ClaimsInv'
    BY RequestsTypesKept DEF DeviceInv
  <2>1. CASE SumContainer \/ ContainersEnd \/ PeakInit
    <3>1. /\ pc \in {"containers", "inits"} /\ pc' \in {"containers", "inits"}
          /\ UNCHANGED <<sub, out>>
      BY <2>1 DEF SumContainer, ContainersEnd, PeakInit
    <3> QED
      BY <3>1 DEF DeviceInv, ClaimsInv, DevicesAreCovered
  <2>2. CASE InitsEnd
    <3>1. /\ pod \in PodSpec /\ pc' = "claims" /\ at' = 1 /\ sub' = 1 /\ UNCHANGED <<pod, failClosed>>
          /\ out' = None(Classes) /\ Len(pod.claims) \in Nat
      BY <2>2, PodClaims DEF InitsEnd, DeviceInv, ClaimsInv, RequestsTypeOK, args
    <3>2. ASSUME NEW k \in Classes
          PROVE  CountedUpTo(MostDevices(at - 1, k) + Part(k), k)'
      <4>1. MostDevices(0, k) = 0
        BY SMT, <3>1, MostDevicesGrows
      <4>2. MostDevices(at - 1, k)' = MostDevices(0, k)
        <5>1. at' - 1 = 0
          BY SMT, <3>1
        <5> QED
          BY <3>1, <5>1 DEF MostDevices
      <4>3. Part(k)' = 0 /\ out'[k] = 0
        BY <3>1 DEF Part, None
      <4> QED
        BY SMT, <4>1, <4>2, <4>3 DEF CountedUpTo
    <3>3. (1 .. at - 1)' = {}
      BY SMT, <3>1
    <3> QED
      BY SMT, <3>1, <3>2, <3>3 DEF ClaimsInv, DevicesAreCovered
  <2>3. CASE addDeviceRequest
    BY <2>3, AddRequestKeeps
  <2>4. CASE NextClaim
    BY <2>4, NextClaimKeeps
  <2>5. CASE Refuse
    BY <2>5 DEF Refuse, ClaimsInv, DevicesAreCovered
  <2>6. CASE ClaimsEnd
    <3>1. /\ pc = "claims" /\ pc' = "counted" /\ pod \in PodSpec /\ at \in Nat
          /\ at > Len(pod.claims) /\ UNCHANGED <<pod, failClosed, out>>
          /\ Len(pod.claims) \in Nat /\ DOMAIN pod.claims = 1 .. Len(pod.claims)
          /\ out \in [Classes -> Nat]
      BY <2>6, PodClaims DEF ClaimsEnd, DeviceInv, RequestsTypeOK, args
    <3>2. at - 1 = Len(pod.claims) /\ sub = 1
      BY SMT, <3>1 DEF DeviceInv, ClaimsInv
    <3>3. ASSUME NEW k \in Classes
          PROVE  CountedUpTo(MostDevices(Len(pod.claims), k), k)
      <4>1. CountedUpTo(MostDevices(at - 1, k) + Part(k), k) /\ Part(k) = 0
        BY <3>1, <3>2 DEF DeviceInv, ClaimsInv, Part
      <4>2. MostDevices(Len(pod.claims), k) \in Nat
        BY SMT, <3>1, MostDevicesGrows
      <4> QED
        BY SMT, <3>2, <4>1, <4>2
    <3>4. failClosed => \A i \in DOMAIN pod.claims : pod.claims[i].kind # "missing"
      BY <3>1, <3>2 DEF DeviceInv, ClaimsInv
    <3>5. \A n, k : MostDevices(n, k)' = MostDevices(n, k)
      BY <3>1, SameDevices
    <3>6. DevicesAreCovered'
      BY <3>1, <3>3, <3>4, <3>5 DEF DevicesAreCovered, CountedUpTo
    <3> QED
      BY <3>1, <3>6 DEF ClaimsInv
  <2>7. CASE UNCHANGED vars
    <3>1. UNCHANGED <<pod, failClosed, pc, at, sub, out>>
      BY <2>7 DEF vars, args
    <3>2. DevicesAreCovered'
      BY <3>1, SameDevices DEF DeviceInv, ClaimsInv, DevicesAreCovered
    <3>3. \A k \in Classes : CountedUpTo(MostDevices(at - 1, k) + Part(k), k)'
                               <=> CountedUpTo(MostDevices(at - 1, k) + Part(k), k)
      BY <3>1 DEF CountedUpTo, MostDevices, Part
    <3> QED
      BY <3>1, <3>2, <3>3 DEF DeviceInv, ClaimsInv
  <2> QED
    BY <2>1, <2>2, <2>3, <2>4, <2>5, <2>6, <2>7 DEF RequestsNext
<1>3. DeviceInv => DevicesAreCovered
  BY DEF DeviceInv, ClaimsInv
<1> QED
  BY <1>1, <1>2, <1>3, PTL DEF RequestsSpec

-----------------------------------------------------------------------------
(* The score of a node.                                                    *)

\* The fractions of numbers, and those that are not +Inf.
Fraction == Nat \X Nat
Finite == Nat \X (Nat \ {0})

\* Multiplying by a positive number keeps the order.
LEMMA Scaled ==
  ASSUME NEW a \in Int, NEW b \in Int, NEW m \in Nat \ {0}
  PROVE  (a < b <=> m * a < m * b) /\ (a <= b <=> m * a <= m * b)
  BY SMT

\* Below is transitive.
LEMMA BelowIsTransitive ==
  ASSUME NEW s \in Finite, NEW t \in Finite, NEW r \in Finite, Below(s, t), Below(t, r)
  PROVE  Below(s, r)
<1> DEFINE s1 == s[1]
           s2 == s[2]
           t1 == t[1]
           t2 == t[2]
           r1 == r[1]
           r2 == r[2]
<1>1. /\ s1 \in Nat /\ t1 \in Nat /\ r1 \in Nat
      /\ s2 \in Nat \ {0} /\ t2 \in Nat \ {0} /\ r2 \in Nat \ {0}
  BY DEF Finite
<1>2. s1 * t2 < t1 * s2 /\ t1 * r2 < r1 * t2
  BY DEF Below
<1> SUFFICES s1 * r2 < r1 * s2
  BY DEF Below
<1> HIDE DEF s1, s2, t1, t2, r1, r2
<1>3. r2 * (s1 * t2) < r2 * (t1 * s2)
  BY SMT, <1>1, <1>2, Scaled
<1>4. s2 * (t1 * r2) < s2 * (r1 * t2)
  BY SMT, <1>1, <1>2, Scaled
<1>5. /\ r2 * (s1 * t2) = t2 * (s1 * r2) /\ r2 * (t1 * s2) = s2 * (t1 * r2)
      /\ s2 * (r1 * t2) = t2 * (r1 * s2)
  BY SMT, <1>1
<1>6. t2 * (s1 * r2) < t2 * (r1 * s2)
  BY SMT, <1>1, <1>3, <1>4, <1>5
<1> QED
  BY SMT, <1>1, <1>6, Scaled

\* DominantShare is a fraction: of finitely many shares one is the largest.
LEMMA DominantIsFraction ==
  ASSUME NEW usage, IsFiniteSet(DOMAIN usage), \A d \in DOMAIN usage : usage[d] \in Nat,
         NEW capacity, \A d \in DOMAIN capacity : capacity[d] \in Nat
  PROVE  DominantShare(usage, capacity) \in Fraction
<1> DEFINE asked == {d \in DOMAIN usage : usage[d] > 0}
           shares == {<<usage[d], Amount(capacity, d)>> : d \in asked}
           f(d) == <<usage[d], Amount(capacity, d)>>
           R == {ss \in asked \X asked : Below(f(ss[2]), f(ss[1]))}
<1>1. CASE asked = {}
  BY <1>1 DEF DominantShare, Fraction
<1>2. CASE \E d \in asked : Amount(capacity, d) = 0
  <2>1. DominantShare(usage, capacity) = <<1, 0>>
    BY <1>2 DEF DominantShare
  <2> QED
    BY SMT, <2>1 DEF Fraction
<1>3. CASE asked # {} /\ ~\E d \in asked : Amount(capacity, d) = 0
  <2>1. DominantShare(usage, capacity) = CHOOSE s \in shares : \A t \in shares : ~Below(s, t)
    BY <1>3 DEF DominantShare
  <2>2. IsFiniteSet(asked)
    <3>1. asked \in SUBSET DOMAIN usage
      OBVIOUS
    <3> QED
      BY <3>1, FS_Subset
  <2>3. \A d \in asked : f(d) \in Finite
    BY <1>3 DEF Amount, Finite
  <2>4. shares = {f(d) : d \in asked}
    OBVIOUS
  <2>5. \A d, e \in asked : <<d, e>> \in R <=> Below(f(e), f(d))
    OBVIOUS
  <2> HIDE DEF shares, asked, f, R
  <2>6. \A d \in asked : <<d, d>> \notin R
    <3>1. \A s \in Finite : ~Below(s, s)
      BY SMT DEF Below, Finite
    <3> QED
      BY <2>3, <2>5, <3>1
  <2>7. \A d, e, g \in asked : <<d, e>> \in R /\ <<e, g>> \in R => <<d, g>> \in R
    BY <2>3, <2>5, BelowIsTransitive
  <2>8. PICK d \in asked : \A e \in asked : <<e, d>> \notin R
    BY <1>3, <2>2, <2>6, <2>7, MinimalExists
  <2>9. f(d) \in shares /\ \A t \in shares : ~Below(f(d), t)
    BY <2>4, <2>5, <2>8
  <2>10. DominantShare(usage, capacity) \in shares
    BY <2>1, <2>9
  <2> QED
    BY <2>3, <2>4, <2>10 DEF Fraction, Finite
<1> QED
  BY <1>1, <1>2, <1>3

\* The points NodeScore gives for a utilisation.
Points(policy, u) ==
  LET capped == IF u[1] >= u[2] THEN <<1, 1>> ELSE u
  IN  IF policy = "binpack" THEN (100 * capped[1]) \div capped[2]
      ELSE (100 * (capped[2] - capped[1])) \div capped[2]

\* On a node that runs pods only on what it advertises, Score ranks by Utilisation.
LEMMA ScoreIsPoints ==
  ASSUME NEW n \in NodeShapes, NEW req \in Asks, NEW policy,
         \A d \in DOMAIN n.used : n.used[d] > 0 => d \in Advertised(n)
  PROVE  /\ Utilisation(req, n) \in Fraction
         /\ Score(policy, req, n) = Points(policy, Utilisation(req, n))
<1> DEFINE A == Advertised(n)
           capacity == fwkResource(n.alloc)
           used == fwkResource(n.used)
           asks == [d \in DOMAIN req \cap DOMAIN capacity |-> req[d]]
           total == [d \in Resources |-> Amount(used, d) + Amount(asks, d)]
           own == [d \in A |-> Amount(n.used, d) + Amount(req, d)]
<1>1. /\ IsFiniteSet(Resources) /\ DOMAIN n.alloc \subseteq Resources
      /\ n.alloc \in [DOMAIN n.alloc -> Nat] /\ n.used \in [DOMAIN n.used -> Nat]
      /\ req \in [DOMAIN req -> Nat]
  BY OrderingAssumption
<1>2. /\ DOMAIN capacity = A /\ A \subseteq Resources
      /\ \A d \in A : Amount(capacity, d) = Amount(n.alloc, d)
  <2>1. A = {d \in DOMAIN n.alloc : n.alloc[d] # 0}
    BY SMT, <1>1 DEF Advertised
  <2> HIDE DEF A
  <2> QED
    BY <1>1, <2>1 DEF fwkResource, Amount
<1>3. \A d : Amount(used, d) = Amount(n.used, d) /\ Amount(n.used, d) \in Nat
  BY <1>1 DEF fwkResource, Amount
<1>4. \A d \in Resources \ A : Amount(n.used, d) = 0
  BY SMT, <1>1 DEF Amount
<1>5. \A d \in A : total[d] = own[d] /\ own[d] \in Nat
  <2>1. \A d \in A : Amount(asks, d) = Amount(req, d) /\ Amount(req, d) \in Nat
    BY <1>1, <1>2 DEF Amount
  <2> HIDE DEF A, asks, used
  <2> QED
    BY SMT, <1>2, <1>3, <2>1
<1>6. \A d \in Resources \ A : total[d] = 0
  <2>1. \A d \in Resources \ A : Amount(asks, d) = 0
    BY <1>2 DEF Amount
  <2> HIDE DEF A, asks, used
  <2> QED
    BY SMT, <1>3, <1>4, <2>1
<1>7. DOMAIN own = A /\ DOMAIN total = Resources
  OBVIOUS
<1> HIDE DEF total, own, asks, A, capacity, used
<1>8. {d \in DOMAIN total : total[d] > 0} = {d \in DOMAIN own : own[d] > 0}
  BY SMT, <1>2, <1>5, <1>6, <1>7
<1>9. \A d \in {e \in DOMAIN own : own[e] > 0} :
        total[d] = own[d] /\ Amount(capacity, d) = Amount(n.alloc, d)
  BY <1>2, <1>5, <1>7
<1>10. {<<total[d], Amount(capacity, d)>> : d \in {e \in DOMAIN total : total[e] > 0}}
        = {<<own[d], Amount(n.alloc, d)>> : d \in {e \in DOMAIN own : own[e] > 0}}
  BY <1>8, <1>9
<1>11. DominantShare(total, capacity) = DominantShare(own, n.alloc)
  BY <1>8, <1>9, <1>10 DEF DominantShare
<1>12. Utilisation(req, n) = DominantShare(own, n.alloc)
  BY DEF Utilisation, own, A
<1>13. Score(policy, req, n) = Points(policy, DominantShare(total, capacity))
  BY DEF Score, NodeScore, Points, total, asks, capacity, used
<1>14. DominantShare(own, n.alloc) \in Fraction
  <2>1. IsFiniteSet(DOMAIN own)
    BY <1>1, <1>2, <1>7, FS_Subset
  <2> QED
    BY <1>1, <1>5, <1>7, <2>1, DominantIsFraction
<1> QED
  BY <1>11, <1>12, <1>13, <1>14

\* What integer division yields.
LEMMA Quotient ==
  ASSUME NEW a \in Nat, NEW b \in Nat \ {0}
  PROVE  /\ a \div b \in Nat /\ b * (a \div b) <= a /\ a < b * ((a \div b) + 1)
  BY SMT

\* Two utilisations that are two hundredths apart get different points: the points
\* are within one of a hundred times the utilisation.
LEMMA PointsTellApart ==
  ASSUME NEW u \in Fraction, NEW v \in Fraction, v[1] <= v[2],
         Below(<<100 * u[1] + 2 * u[2], 100 * u[2]>>, v)
  PROVE  /\ Points("spread", u) > Points("spread", v)
         /\ Points("binpack", u) < Points("binpack", v)
<1> DEFINE u1 == u[1]
           u2 == u[2]
           v1 == v[1]
           v2 == v[2]
           A == u1 * v2
           B == u2 * v1
           P == u2 * v2
<1>1. u1 \in Nat /\ u2 \in Nat /\ v1 \in Nat /\ v2 \in Nat /\ v1 <= v2
  BY DEF Fraction
<1>2. (100 * u1 + 2 * u2) * v2 < v1 * (100 * u2)
  BY DEF Below
<1> DEFINE su == Points("spread", u)
           sv == Points("spread", v)
           bu == Points("binpack", u)
           bv == Points("binpack", v)
<1>3. A \in Nat /\ B \in Nat /\ P \in Nat /\ 100 * A + 2 * P < 100 * B
  <2> HIDE DEF u1, u2, v1, v2
  <2>1. (100 * u1 + 2 * u2) * v2 = 100 * A + 2 * P /\ v1 * (100 * u2) = 100 * B
    BY SMT, <1>1
  <2> QED
    BY SMT, <1>1, <1>2, <2>1
<1>4. u2 \in Nat \ {0} /\ v2 \in Nat \ {0}
  <2> HIDE DEF u1, u2, v1, v2
  <2>1. ASSUME u2 = 0 PROVE FALSE
    BY SMT, <1>1, <1>3, <2>1
  <2>2. ASSUME v2 = 0 PROVE FALSE
    <3>1. v1 = 0
      BY SMT, <1>1, <2>2
    <3> QED
      BY SMT, <1>1, <1>3, <3>1
  <2> QED
    BY <1>1, <2>1, <2>2
<1>5. u1 < u2
  <2> HIDE DEF u1, u2, v1, v2
  <2>1. B <= P
    BY SMT, <1>1, <1>4, Scaled
  <2>2. v2 * u1 < v2 * u2
    BY SMT, <1>1, <1>3, <2>1
  <2> QED
    BY SMT, <1>1, <1>4, <2>2, Scaled
<1>6. /\ su \in Nat /\ bu \in Nat /\ u2 * bu <= 100 * u1 /\ 100 * (u2 - u1) < u2 * (su + 1)
  <2>1. bu = (100 * u1) \div u2 /\ su = (100 * (u2 - u1)) \div u2
    BY SMT, <1>1, <1>5 DEF Points
  <2>2. 100 * u1 \in Nat /\ 100 * (u2 - u1) \in Nat
    BY SMT, <1>1, <1>5
  <2> HIDE DEF u1, u2, su, bu
  <2> QED
    BY <1>4, <2>1, <2>2, Quotient
<1>7. /\ sv \in Nat /\ bv \in Nat /\ 100 * v1 < v2 * (bv + 1) /\ v2 * sv <= 100 * (v2 - v1)
  <2>1. CASE v1 < v2
    <3>1. bv = (100 * v1) \div v2 /\ sv = (100 * (v2 - v1)) \div v2
      BY SMT, <1>1, <2>1 DEF Points
    <3>2. 100 * v1 \in Nat /\ 100 * (v2 - v1) \in Nat
      BY SMT, <1>1
    <3> HIDE DEF v1, v2, sv, bv
    <3> QED
      BY <1>4, <3>1, <3>2, Quotient
  <2>2. CASE v1 = v2
    <3>1. bv = (100 * 1) \div 1 /\ sv = (100 * (1 - 1)) \div 1
      BY <1>1, <2>2 DEF Points
    <3>2. bv = 100 /\ sv = 0
      BY SMT, <3>1
    <3> HIDE DEF v1, v2, sv, bv
    <3> QED
      BY SMT, <1>1, <1>4, <2>2, <3>2
  <2> QED
    BY SMT, <1>1, <2>1, <2>2
<1> SUFFICES ASSUME su <= sv \/ bv <= bu
             PROVE  FALSE
  BY SMT, <1>6, <1>7
<1> HIDE DEF u1, u2, v1, v2, su, sv, bu, bv
<1>8. ASSUME bv <= bu PROVE FALSE
  <2>1. v2 * (u2 * bu) <= v2 * (100 * u1)
    BY SMT, <1>1, <1>4, <1>6, Scaled
  <2>2. u2 * (100 * v1) < u2 * (v2 * (bv + 1))
    BY SMT, <1>1, <1>4, <1>7, Scaled
  <2>3. v2 * (u2 * bu) = P * bu /\ v2 * (100 * u1) = 100 * A
    BY SMT, <1>1, <1>6
  <2>4. u2 * (100 * v1) = 100 * B /\ u2 * (v2 * (bv + 1)) = P * bv + P
    BY SMT, <1>1, <1>7
  <2>5. P * bv <= P * bu
    <3>1. P # 0
      BY SMT, <1>4
    <3> QED
      BY SMT, <1>3, <1>6, <1>7, <1>8, <3>1, Scaled
  <2>6. P * bu \in Int /\ P * bv \in Int
    BY SMT, <1>3, <1>6, <1>7
  <2> HIDE DEF A, B, P
  <2> QED
    BY SMT, <1>3, <2>1, <2>2, <2>3, <2>4, <2>5, <2>6
<1>9. ASSUME su <= sv PROVE FALSE
  <2>1. v2 * (100 * (u2 - u1)) < v2 * (u2 * (su + 1))
    BY SMT, <1>1, <1>4, <1>6, Scaled
  <2>2. u2 * (v2 * sv) <= u2 * (100 * (v2 - v1))
    BY SMT, <1>1, <1>4, <1>7, Scaled
  <2>3. v2 * (100 * (u2 - u1)) = 100 * P - 100 * A /\ v2 * (u2 * (su + 1)) = P * su + P
    BY SMT, <1>1, <1>6
  <2>4. u2 * (v2 * sv) = P * sv /\ u2 * (100 * (v2 - v1)) = 100 * P - 100 * B
    BY SMT, <1>1, <1>7
  <2>5. P * su <= P * sv
    <3>1. P # 0
      BY SMT, <1>4
    <3> QED
      BY SMT, <1>3, <1>6, <1>7, <1>9, <3>1, Scaled
  <2>6. P * su \in Int /\ P * sv \in Int
    BY SMT, <1>3, <1>6, <1>7
  <2> HIDE DEF A, B, P
  <2> QED
    BY SMT, <1>3, <2>1, <2>2, <2>3, <2>4, <2>5, <2>6
<1> QED
  BY <1>8, <1>9

\* ScoreTellsNodesApart for nodes of any size, whatever runs on them: the score of
\* either policy is the points of the node's utilisation.
THEOREM ScoreTellsNodesApartHolds == OrderingSpec => []ScoreTellsNodesApart
<1> DEFINE Inv == nodes = <<>> \/ \E a, b \in NodeShapes : nodes = <<a, b>>
<1>1. OrderingInit => Inv
  BY DEF OrderingInit
<1>2. Inv /\ [OrderingNext]_<<waiting, nodes>> => Inv'
  BY SMT DEF OrderingNext, Enqueue, Place
<1>3. Inv => ScoreTellsNodesApart
  <2> SUFFICES ASSUME Inv, nodes # <<>>, NEW req \in Asks, NEW i \in {1, 2}, NEW j \in {1, 2}
               PROVE  LET u == Utilisation(req, nodes[i])
                          v == Utilisation(req, nodes[j])
                      IN  /\ \A n \in {i, j} : \A d \in DOMAIN nodes[n].used :
                               nodes[n].used[d] > 0 => d \in Advertised(nodes[n])
                          /\ v[1] <= v[2]
                          /\ Below(<<100 * u[1] + 2 * u[2], 100 * u[2]>>, v)
                          => /\ Score("spread", req, nodes[i]) > Score("spread", req, nodes[j])
                             /\ Score("binpack", req, nodes[i]) < Score("binpack", req, nodes[j])
    BY DEF ScoreTellsNodesApart
  <2> DEFINE u == Utilisation(req, nodes[i])
             v == Utilisation(req, nodes[j])
  <2> SUFFICES ASSUME \A n \in {i, j} : \A d \in DOMAIN nodes[n].used :
                        nodes[n].used[d] > 0 => d \in Advertised(nodes[n]),
                      v[1] <= v[2], Below(<<100 * u[1] + 2 * u[2], 100 * u[2]>>, v)
               PROVE  /\ Score("spread", req, nodes[i]) > Score("spread", req, nodes[j])
                      /\ Score("binpack", req, nodes[i]) < Score("binpack", req, nodes[j])
    OBVIOUS
  <2>1. nodes[i] \in NodeShapes /\ nodes[j] \in NodeShapes
    BY SMT
  <2>2. \A n \in {i, j} : \A p :
          /\ Utilisation(req, nodes[n]) \in Fraction
          /\ Score(p, req, nodes[n]) = Points(p, Utilisation(req, nodes[n]))
    BY <2>1, ScoreIsPoints
  <2> QED
    BY <2>2, PointsTellApart
<1> QED
  BY <1>1, <1>2, <1>3, PTL DEF OrderingSpec
=============================================================================
