--------------------------- MODULE ReclaimProofs ---------------------------
(***************************************************************************)
(* Proofs about the two parts that act on the queue tree from outside the  *)
(* engine, for any pods, queues, nodes and budgets: what an eviction round *)
(* keeps, and what the configuration publishes.                            *)
(*                                                                         *)
(* The budgets and the trim pass are loops over sorted lists.  Each fact   *)
(* about such a loop needs one extreme element: of the victims a donor     *)
(* pays for, the last pays for all of them; of the pods the trim pass      *)
(* drops, the cheapest is dropped because those that are kept suffice.     *)
(***************************************************************************)
EXTENDS Reclaim, QueueConfig, TotalTheorems

\* A leaf is for Zenon unless it names another prover: arithmetic is for SMT.
USE ZenonT(30)

-----------------------------------------------------------------------------
(* Amounts.                                                                *)

\* What a set of pods requests is a number.
LEMMA AmountNat ==
  ASSUME NEW S \in SUBSET Pods, NEW d \in Dims
  PROVE  Amount(S, d) \in Nat
<1>1. IsFiniteSet(S)
  BY ReclaimAssumption, FS_Subset
<1>2. [p \in S |-> Req[p][d]] \in [S -> Nat]
  BY SMT, ReclaimAssumption DEF Vec
<1> QED BY <1>1, <1>2, TotalType DEF Amount

\* Disjoint sets of pods request what each of them requests, together.
LEMMA AmountUnion ==
  ASSUME NEW A \in SUBSET Pods, NEW B \in SUBSET Pods, A \cap B = {}, NEW d \in Dims
  PROVE  Amount(A \cup B, d) = Amount(A, d) + Amount(B, d)
<1> DEFINE T == A \cup B
           all == [p \in T |-> Req[p][d]]
           ofA == [p \in T |-> IF p \in A THEN Req[p][d] ELSE 0]
           ofB == [p \in T |-> IF p \in B THEN Req[p][d] ELSE 0]
           onA == [p \in A |-> Req[p][d]]
           onB == [p \in B |-> Req[p][d]]
<1>1. /\ all \in [T -> Nat] /\ ofA \in [T -> Nat] /\ ofB \in [T -> Nat]
      /\ onA \in [A -> Nat] /\ onB \in [B -> Nat]
  BY SMT, ReclaimAssumption DEF Vec
<1>2. IsFiniteSet(T)
  <2>1. T \in SUBSET Pods
    OBVIOUS
  <2> QED BY <2>1, ReclaimAssumption, FS_Subset
<1>3. \A x \in T : (ofA[x] = all[x] /\ ofB[x] = 0) \/ (ofA[x] = 0 /\ ofB[x] = all[x])
  OBVIOUS
<1>4. /\ \A x \in A : ofA[x] = onA[x]
      /\ \A x \in T \ A : ofA[x] = 0
      /\ \A x \in B : ofB[x] = onB[x]
      /\ \A x \in T \ B : ofB[x] = 0
      /\ A \in SUBSET T /\ B \in SUBSET T
  OBVIOUS
<1>5. Amount(A \cup B, d) = Total(all) /\ Amount(A, d) = Total(onA) /\ Amount(B, d) = Total(onB)
  BY DEF Amount
<1> HIDE DEF T, all, ofA, ofB, onA, onB
<1>6. Total(all) = Total(ofA) + Total(ofB)
  BY SMT, <1>1, <1>2, <1>3, TotalSplit
<1>7. Total(ofA) = Total(onA)
  BY SMT, <1>1, <1>4, TotalRestrict
<1>8. Total(ofB) = Total(onB)
  BY SMT, <1>1, <1>4, TotalRestrict
<1> QED BY <1>5, <1>6, <1>7, <1>8

\* Fewer pods request no more.
LEMMA AmountMonotone ==
  ASSUME NEW B \in SUBSET Pods, NEW A \in SUBSET B, NEW d \in Dims
  PROVE  /\ Amount(A, d) <= Amount(B, d)
         /\ Amount(B \ A, d) = Amount(B, d) - Amount(A, d)
<1>1. A \in SUBSET Pods /\ B \ A \in SUBSET Pods /\ A \cap (B \ A) = {} /\ B = A \cup (B \ A)
  OBVIOUS
<1>2. Amount(B, d) = Amount(A, d) + Amount(B \ A, d)
  BY SMT, <1>1, AmountUnion
<1>3. Amount(A, d) \in Nat /\ Amount(B, d) \in Nat /\ Amount(B \ A, d) \in Nat
  BY <1>1, AmountNat
<1> QED BY SMT, <1>2, <1>3

\* One pod more requests its request more.
LEMMA AmountOne ==
  ASSUME NEW S \in SUBSET Pods, NEW p \in S, NEW d \in Dims
  PROVE  Amount(S, d) = Amount(S \ {p}, d) + Req[p][d]
<1> DEFINE one == [x \in {p} |-> Req[x][d]]
<1>1. one \in [{p} -> Nat] /\ one[p] = Req[p][d]
  BY SMT, ReclaimAssumption DEF Vec
<1>2. Total(one) = one[p]
  <2> HIDE DEF one
  <2>1. IsFiniteSet({p})
    BY FS_Singleton
  <2>2. p \in {p} /\ \A y \in {p} \ {p} : one[y] = 0
    OBVIOUS
  <2> QED BY <1>1, <2>1, <2>2, TotalSingle
<1>3. Amount({p}, d) = Req[p][d]
  BY <1>1, <1>2 DEF Amount
<1>4. S \ {p} \in SUBSET Pods /\ {p} \in SUBSET Pods /\ (S \ {p}) \cap {p} = {}
      /\ S = (S \ {p}) \cup {p}
  OBVIOUS
<1> QED BY SMT, <1>3, <1>4, AmountUnion

\* No pod, no request.
LEMMA AmountEmpty ==
  ASSUME NEW d \in Dims
  PROVE  Amount({}, d) = 0
<1> DEFINE none == [p \in {} |-> Req[p][d]]
<1>1. none \in [{} -> Nat] /\ \A x \in {} : none[x] = 0
  OBVIOUS
<1>2. IsFiniteSet({})
  BY FS_EmptySet
<1>3. Amount({}, d) = Total(none)
  BY DEF Amount
<1> HIDE DEF none
<1> QED BY <1>1, <1>2, <1>3, TotalZero

-----------------------------------------------------------------------------
(* The invariant.  That victims suffice rests on nodes that hold no more   *)
(* than they can: on one that held more, evicting the deficit would leave  *)
(* the pod without room.                                                   *)

NodesHold == \A n \in PoolNodes : \A d \in Dims : Amount(OnNode(n), d) <= Capacity[n][d]

ReclaimInv == tree \in Trees /\ ReclaimTypeOK /\ NodesHold

\* A round evicts some of its victims, and changes no other pod.
LEMMA EvictFacts ==
  ASSUME ReclaimTypeOK, NEW K \in SUBSET Pods, Evict(K)
  PROVE  /\ tree' = tree
         /\ Evicted \subseteq K
         /\ ReclaimTypeOK'
         /\ \A n \in PoolNodes : OnNode(n)' \subseteq OnNode(n)
<1>1. PICK failed \in SUBSET K :
        /\ state' = [p \in Pods |-> IF p \notin K \ failed THEN state[p]
                                      ELSE IF state[p] = "running" THEN "terminating" ELSE "gone"]
        /\ on' = [p \in Pods |-> IF p \in K \ failed /\ state[p] # "running" THEN NoNode ELSE on[p]]
        /\ tree' = tree
  BY DEF Evict
<1>2. Evicted \subseteq K
  BY <1>1 DEF Evicted
<1>3. ReclaimTypeOK'
  BY <1>1 DEF ReclaimTypeOK, States
<1>4. \A n \in PoolNodes : OnNode(n)' \subseteq OnNode(n)
  BY <1>1, ReclaimAssumption DEF OnNode, ReclaimTypeOK
<1> QED BY <1>1, <1>2, <1>3, <1>4

\* A round is the only step that evicts.
LEMMA OthersEvictNobody ==
  ASSUME ReclaimTypeOK, NEW p \in Pods,
         Schedule(p) \/ Finish(p) \/ Vanish(p) \/ Respawn(p) \/ UNCHANGED vars
  PROVE  Evicted = {}
BY DEF ReclaimTypeOK, Schedule, Schedulable, Finish, Vanish, Respawn, vars, Evicted

\* Where a node holds no pod more, it holds no more.
LEMMA FewerHold ==
  ASSUME NodesHold, \A n \in PoolNodes : OnNode(n)' \subseteq OnNode(n)
  PROVE  NodesHold'
<1> SUFFICES ASSUME NEW n \in PoolNodes, NEW d \in Dims
             PROVE  Amount(OnNode(n)', d) <= Capacity[n][d]
  BY DEF NodesHold, Amount
<1>1. OnNode(n) \in SUBSET Pods /\ OnNode(n)' \in SUBSET OnNode(n) /\ OnNode(n)' \in SUBSET Pods
  BY DEF OnNode
<1>2. Amount(OnNode(n)', d) <= Amount(OnNode(n), d)
  BY <1>1, AmountMonotone
<1>3. Amount(OnNode(n)', d) \in Nat /\ Amount(OnNode(n), d) \in Nat
  BY <1>1, AmountNat
<1>4. Capacity[n][d] \in Nat
  BY SMT, ReclaimAssumption DEF Vec
<1>5. Amount(OnNode(n), d) <= Capacity[n][d]
  BY DEF NodesHold
<1> QED BY SMT, <1>2, <1>3, <1>4, <1>5

\* The scheduler binds a pod where there is room for it.
LEMMA ScheduleHolds ==
  ASSUME ReclaimInv, NEW p \in Pods, Schedule(p)
  PROVE  ReclaimInv'
<1>1. PICK m \in PoolNodes : HasRoom(m, p) /\ on' = [on EXCEPT ![p] = m]
  BY DEF Schedule
<1>2. state[p] = "pending" /\ state' = [state EXCEPT ![p] = "running"] /\ tree' = tree
  BY DEF Schedule, Schedulable
<1>3. ReclaimTypeOK'
  BY <1>1, <1>2, ReclaimAssumption DEF ReclaimInv, ReclaimTypeOK, States
<1>4. \A n \in PoolNodes : n # m => OnNode(n)' = OnNode(n)
  BY <1>1, <1>2 DEF ReclaimInv, ReclaimTypeOK, OnNode
<1>5. /\ OnNode(m)' = OnNode(m) \cup {p} /\ p \notin OnNode(m) /\ p \in OnNode(m)'
      /\ OnNode(m)' \in SUBSET Pods
  BY <1>1, <1>2 DEF ReclaimInv, ReclaimTypeOK, OnNode
<1>6. ASSUME NEW d \in Dims PROVE Amount(OnNode(m)', d) <= Capacity[m][d]
  <2>1. Amount(OnNode(m)', d) = Amount(OnNode(m)' \ {p}, d) + Req[p][d]
    BY <1>5, AmountOne
  <2>2. OnNode(m)' \ {p} = OnNode(m)
    BY <1>5
  <2> QED BY <1>1, <2>1, <2>2 DEF HasRoom
<1>7. NodesHold'
  BY <1>4, <1>6 DEF NodesHold, ReclaimInv, Amount
<1> QED BY <1>2, <1>3, <1>7 DEF ReclaimInv

\* A tick of the reclaim controller that evicts: for a starved pod, from the
\* candidates its donors pay for.
LEMMA ReclaimRound ==
  ASSUME ReclaimOnce
  PROVE  \E p \in Pods, r \in Orders : \E V \in SUBSET ReclaimCandidates(p) : \E K \in SUBSET V :
           Starved(p) /\ Budgeted(V, ReclaimCandidates(p), r) /\ Evict(K)
<1>1. PICK p \in Pods : Starved(p) /\ \E r \in Orders : \E K \in SUBSET ReclaimCandidates(p) \ {{}} :
                          Reclaims(p, r, K) /\ Evict(K)
  BY DEF ReclaimOnce
<1>2. PICK r \in Orders, K \in SUBSET ReclaimCandidates(p) \ {{}} : Reclaims(p, r, K) /\ Evict(K)
  BY <1>1
<1>3. PICK V \in SUBSET ReclaimCandidates(p) :
        Budgeted(V, ReclaimCandidates(p), r) /\ IsSelection(K, Req[p], V)
  BY <1>2 DEF Reclaims
<1>4. K \in SUBSET V
  BY <1>3 DEF IsSelection, Taken
<1> QED BY <1>1, <1>2, <1>3, <1>4

\* A preemption that evicts: for a pod that may preempt, from the candidates of
\* one node that their donors and the disruption budgets pay for.
LEMMA PreemptionRound ==
  ASSUME NEW p \in Pods, PostFilter(p)
  PROVE  \E r \in Orders, n \in PoolNodes : \E V \in SUBSET NodeCandidates(p, n) :
         \E W \in SUBSET V : \E K \in SUBSET W :
           /\ MayPreempt(p) /\ Budgeted(V, NodeCandidates(p, n), r)
           /\ PDBSpared(W, V, r) /\ Evict(K)
<1>1. PICK r \in Orders, n \in PoolNodes : \E K \in SUBSET NodeCandidates(p, n) \ {{}} :
        Preempts(p, r, n, K) /\ Evict(K)
  BY DEF PostFilter
<1>2. PICK K \in SUBSET NodeCandidates(p, n) \ {{}} : Preempts(p, r, n, K) /\ Evict(K)
  BY <1>1
<1> DEFINE deficit == [d \in Dims |-> AtLeast0(Req[p][d] - NodeAvailable(n, d))]
<1>3. PICK V \in SUBSET NodeCandidates(p, n) :
        /\ Budgeted(V, NodeCandidates(p, n), r)
        /\ \E W \in SUBSET V : PDBSpared(W, V, r) /\ IsSelection(K, deficit, W)
  BY <1>2 DEF Preempts
<1> HIDE DEF deficit
<1>4. PICK W \in SUBSET V : PDBSpared(W, V, r) /\ IsSelection(K, deficit, W)
  BY <1>3
<1>5. K \in SUBSET W
  BY <1>4 DEF IsSelection, Taken
<1>6. MayPreempt(p)
  BY DEF PostFilter
<1> QED BY <1>1, <1>2, <1>3, <1>4, <1>5, <1>6

\* The invariant is inductive.
LEMMA ReclaimStep ==
  ASSUME ReclaimInv, [ReclaimNext]_vars
  PROVE  ReclaimInv'
<1>1. CASE ReclaimOnce
  <2>1. PICK K \in SUBSET Pods : Evict(K)
    BY <1>1, ReclaimRound DEF ReclaimCandidates, BoundPods
  <2> QED BY <2>1, EvictFacts, FewerHold DEF ReclaimInv
<1>2. ASSUME NEW p \in Pods, PostFilter(p) PROVE ReclaimInv'
  <2>1. PICK K \in SUBSET Pods : Evict(K)
    BY <1>2, PreemptionRound DEF NodeCandidates
  <2> QED BY <2>1, EvictFacts, FewerHold DEF ReclaimInv
<1>3. ASSUME NEW p \in Pods, Schedule(p) PROVE ReclaimInv'
  BY <1>3, ScheduleHolds
<1>4. ASSUME NEW p \in Pods, Finish(p) \/ Vanish(p) \/ Respawn(p) PROVE ReclaimInv'
  <2>1. tree' = tree
    BY <1>4 DEF Finish, Vanish, Respawn
  <2>2. ReclaimTypeOK'
    BY <1>4, ReclaimAssumption DEF ReclaimInv, ReclaimTypeOK, States, Finish, Vanish, Respawn
  <2>3. \A n \in PoolNodes : OnNode(n)' \subseteq OnNode(n)
    BY <1>4, ReclaimAssumption DEF ReclaimInv, ReclaimTypeOK, OnNode, Finish, Vanish, Respawn
  <2> QED BY <2>1, <2>2, <2>3, FewerHold DEF ReclaimInv
<1>5. CASE UNCHANGED vars
  BY <1>5 DEF vars, ReclaimInv, ReclaimTypeOK, NodesHold, OnNode, Amount
<1> QED BY <1>1, <1>2, <1>3, <1>4, <1>5 DEF ReclaimNext

\* Nothing runs to begin with.
LEMMA ReclaimStart ==
  ASSUME ReclaimInit
  PROVE  ReclaimInv
<1>1. ReclaimTypeOK
  BY DEF ReclaimInit, ReclaimTypeOK, States
<1>2. \A n \in PoolNodes : OnNode(n) = {}
  BY DEF ReclaimInit, OnNode
<1>3. \A d \in Dims : Amount({}, d) = 0
  BY AmountEmpty
<1>4. \A n \in PoolNodes : \A d \in Dims : Capacity[n][d] \in Nat
  BY SMT, ReclaimAssumption DEF Vec
<1>5. NodesHold
  BY SMT, <1>2, <1>3, <1>4 DEF NodesHold
<1> QED BY <1>1, <1>5 DEF ReclaimInit, ReclaimInv

\* The invariant holds.
THEOREM ReclaimInvHolds == ReclaimSpec => []ReclaimInv
<1>1. ReclaimInit => ReclaimInv
  BY ReclaimStart
<1>2. ReclaimInv /\ [ReclaimNext]_vars => ReclaimInv'
  BY ReclaimStep
<1> QED BY <1>1, <1>2, PTL DEF ReclaimSpec

\* A pod has a node from its bind until it is gone, whatever the loops evict
\* and whichever of their deletes fail.
THEOREM ReclaimTypeHolds == ReclaimSpec => []ReclaimTypeOK
<1>1. ReclaimInv => ReclaimTypeOK
  BY DEF ReclaimInv
<1> QED BY <1>1, ReclaimInvHolds, PTL

-----------------------------------------------------------------------------
(* What a round takes.                                                     *)

\* Sorted pods have a last one.
LEMMA LastInOrder ==
  ASSUME NEW W \in SUBSET Pods, W # {}, NEW r \in Orders
  PROVE  \E v \in W : \A u \in W \ {v} : r[u] < r[v]
<1> DEFINE R == {e \in Pods \X Pods : r[e[2]] < r[e[1]]}
<1>1. IsFiniteSet(W)
  BY ReclaimAssumption, FS_Subset
<1>2. Cardinality(Pods) \in Nat
  BY ReclaimAssumption, FS_CardinalityType
<1>3. \A p \in Pods : r[p] \in Nat
  BY SMT, <1>2 DEF Orders
<1>4. \A a, b \in Pods : a # b => r[a] # r[b]
  BY DEF Orders
<1>5. \A x, y \in Pods : <<x, y>> \in R <=> r[y] < r[x]
  OBVIOUS
<1> HIDE DEF R
<1>6. \A x \in W : <<x, x>> \notin R
  BY SMT, <1>3, <1>5
<1>7. \A x, y, z \in W : <<x, y>> \in R /\ <<y, z>> \in R => <<x, z>> \in R
  BY SMT, <1>3, <1>5
<1>8. PICK v \in W : \A u \in W : <<u, v>> \notin R
  BY <1>1, <1>6, <1>7, MinimalExists
<1>9. ASSUME NEW u \in W \ {v} PROVE r[u] < r[v]
  <2>1. ~(r[v] < r[u]) /\ r[u] # r[v] /\ r[u] \in Nat /\ r[v] \in Nat
    BY <1>3, <1>4, <1>5, <1>8
  <2> QED BY SMT, <2>1
<1> QED BY <1>9

\* What a queue can give back is a number.
LEMMA ReclaimableNat ==
  ASSUME tree \in Trees, NEW q \in tree.nodes, NEW d \in Dims
  PROVE  Reclaimable(q, d) \in Nat
<1>1. Amount(Charged(q), d) \in Nat
  BY AmountNat DEF Charged
<1>2. GangHolds(q, d) \in Nat
  <2> DEFINE G == {h \in Gangs : q \in WalkUp(Resolve(tree, GangIdentity[h]))}
             w == [g \in G |-> GangRes[g][d]]
  <2>1. G \in SUBSET Gangs
    OBVIOUS
  <2>2. w \in [G -> Nat]
    BY SMT, ReclaimAssumption DEF Vec
  <2>3. GangHolds(q, d) = Total(w)
    BY DEF GangHolds
  <2> HIDE DEF G, w
  <2>4. IsFiniteSet(G)
    BY <2>1, ReclaimAssumption, FS_Subset
  <2> QED BY <2>2, <2>3, <2>4, TotalType
<1>3. GuaranteedOf(tree, q, d) \in Nat
  BY SMT, ReclaimAssumption DEF GuaranteedOf, IsLimit
<1>4. Used[q][d] = Amount(Charged(q), d) + GangHolds(q, d)
  BY DEF Used
<1>5. Used[q][d] - GuaranteedOf(tree, q, d) \in Int
  BY SMT, <1>1, <1>2, <1>3, <1>4
<1> QED BY SMT, <1>5 DEF Reclaimable, AtLeast0

\* The last victim of a donor that the budget pays for pays for all of them.
LEMMA BudgetPays ==
  ASSUME tree \in Trees, NEW S \in SUBSET Pods, NEW V \in SUBSET S, NEW r \in Orders,
         Budgeted(V, S, r), NEW q \in tree.nodes, NEW d \in Dims
  PROVE  Amount({v \in V : LeafOf(v) = q}, d) <= Reclaimable(q, d)
<1> DEFINE W == {v \in V : LeafOf(v) = q}
<1>1. W \in SUBSET Pods
  OBVIOUS
<1>2. CASE W = {}
  BY SMT, <1>2, AmountEmpty, ReclaimableNat
<1>3. CASE W # {}
  <2>1. PICK v \in W : \A u \in W \ {v} : r[u] < r[v]
    <3> HIDE DEF W
    <3> QED BY <1>1, <1>3, LastInOrder
  <2> DEFINE before == {u \in V : LeafOf(u) = LeafOf(v) /\ r[u] < r[v]}
  <2>2. v \in V /\ v \in S /\ LeafOf(v) = q
    OBVIOUS
  <2>3. Amount(before, d) + Req[v][d] <= Reclaimable(q, d)
    BY <2>2 DEF Budgeted
  <2>4. W \ {v} \in SUBSET before /\ before \in SUBSET Pods
    BY <2>1, <2>2
  <2>5. Amount(W, d) = Amount(W \ {v}, d) + Req[v][d]
    <3> HIDE DEF W
    <3> QED BY <1>1, AmountOne
  <2>6. Amount(W \ {v}, d) <= Amount(before, d)
    <3> HIDE DEF W, before
    <3> QED BY <2>4, AmountMonotone
  <2>7. /\ Amount(W \ {v}, d) \in Nat /\ Amount(before, d) \in Nat /\ Req[v][d] \in Nat
        /\ Reclaimable(q, d) \in Nat
    <3>1. W \ {v} \in SUBSET Pods /\ before \in SUBSET Pods /\ v \in Pods
      BY <2>2
    <3> HIDE DEF W, before
    <3> QED BY SMT, <3>1, AmountNat, ReclaimableNat, ReclaimAssumption DEF Vec
  <2> HIDE DEF before
  <2> QED BY SMT, <2>3, <2>5, <2>6, <2>7
<1> QED BY <1>2, <1>3

\* So does what is evicted of them.
LEMMA RoundPays ==
  ASSUME ReclaimInv, NEW S \in SUBSET Pods, NEW V \in SUBSET S, NEW r \in Orders,
         Budgeted(V, S, r), NEW K \in SUBSET V, Evict(K),
         NEW q \in tree.nodes, NEW d \in Dims
  PROVE  Amount({v \in Evicted : LeafOf(v) = q}, d) <= Reclaimable(q, d)
<1> DEFINE A == {v \in Evicted : LeafOf(v) = q}
           B == {v \in V : LeafOf(v) = q}
<1>1. Evicted \subseteq K
  <2>1. K \in SUBSET Pods
    OBVIOUS
  <2> QED BY <2>1, EvictFacts DEF ReclaimInv
<1>2. A \in SUBSET B /\ B \in SUBSET Pods /\ A \in SUBSET Pods
  BY <1>1
<1>3. Amount(B, d) <= Reclaimable(q, d)
  BY BudgetPays DEF ReclaimInv
<1>4. Reclaimable(q, d) \in Nat
  BY ReclaimableNat DEF ReclaimInv
<1> HIDE DEF A, B
<1>5. Amount(A, d) <= Amount(B, d) /\ Amount(A, d) \in Nat /\ Amount(B, d) \in Nat
  BY <1>2, AmountMonotone, AmountNat
<1>6. Amount(A, d) <= Reclaimable(q, d)
  BY SMT, <1>3, <1>4, <1>5
<1> QED BY <1>6 DEF A

\* A round of evictions, of either loop, takes from a queue at most what the
\* queue uses beyond its guarantee, in every dimension and over all its victims.
THEOREM RoundKeepsGuaranteeHolds == ReclaimSpec => RoundKeepsGuarantee
<1> DEFINE Kept == \A q \in tree.nodes : \A d \in Dims :
                     Amount({v \in Evicted : LeafOf(v) = q}, d) <= Reclaimable(q, d)
<1>1. ASSUME ReclaimInv, [ReclaimNext]_vars PROVE Kept
  <2> SUFFICES ASSUME NEW q \in tree.nodes, NEW d \in Dims
               PROVE  Amount({v \in Evicted : LeafOf(v) = q}, d) <= Reclaimable(q, d)
    OBVIOUS
  <2>1. CASE ReclaimOnce
    <3>1. PICK p \in Pods, r \in Orders : \E V \in SUBSET ReclaimCandidates(p) :
            \E K \in SUBSET V : Budgeted(V, ReclaimCandidates(p), r) /\ Evict(K)
      BY <2>1, ReclaimRound
    <3>2. ReclaimCandidates(p) \in SUBSET Pods
      BY DEF ReclaimCandidates, BoundPods
    <3> QED BY <1>1, <3>1, <3>2, RoundPays
  <2>2. ASSUME NEW p \in Pods, PostFilter(p)
        PROVE  Amount({v \in Evicted : LeafOf(v) = q}, d) <= Reclaimable(q, d)
    <3>1. PICK r \in Orders, n \in PoolNodes : \E V \in SUBSET NodeCandidates(p, n) :
            \E K \in SUBSET V : Budgeted(V, NodeCandidates(p, n), r) /\ Evict(K)
      BY <2>2, PreemptionRound
    <3>2. NodeCandidates(p, n) \in SUBSET Pods
      BY DEF NodeCandidates
    <3> QED BY <1>1, <3>1, <3>2, RoundPays
  <2>3. ASSUME Evicted = {}
        PROVE  Amount({v \in Evicted : LeafOf(v) = q}, d) <= Reclaimable(q, d)
    <3>1. {v \in Evicted : LeafOf(v) = q} = {}
      BY <2>3
    <3>2. Reclaimable(q, d) \in Nat
      BY <1>1, ReclaimableNat DEF ReclaimInv
    <3> QED BY SMT, <3>1, <3>2, AmountEmpty
  <2>4. ASSUME NEW p \in Pods, Schedule(p) \/ Finish(p) \/ Vanish(p) \/ Respawn(p)
        PROVE  Evicted = {}
    BY <1>1, <2>4, OthersEvictNobody DEF ReclaimInv
  <2>5. CASE UNCHANGED vars
    <3>1. Evicted = {}
      BY <1>1, <2>5 DEF ReclaimInv, ReclaimTypeOK, vars, Evicted
    <3> QED BY <2>3, <3>1
  <2> QED BY <1>1, <2>1, <2>2, <2>3, <2>4, <2>5 DEF ReclaimNext
<1>2. ReclaimInv /\ [ReclaimNext]_vars => [Kept]_vars
  BY <1>1
<1> QED BY <1>2, ReclaimInvHolds, PTL DEF ReclaimSpec, RoundKeepsGuarantee

\* No tenant pays for another: whoever is evicted shares its fence with a pod
\* that waits, of no lower priority, and is no member of a gang.
THEOREM EvictedForAPeerHolds == ReclaimSpec => EvictedForAPeer
<1> DEFINE ForAPeer == \A v \in Evicted : ~InGang(v) /\
                         \E p \in Pods : /\ state[p] = "pending" /\ Prio[v] <= Prio[p]
                                         /\ FenceBoundary(LeafOf(p)) \in WalkUp(LeafOf(v))
<1>1. ASSUME ReclaimInv, [ReclaimNext]_vars PROVE ForAPeer
  <2>1. CASE ReclaimOnce
    <3>1. PICK p \in Pods : Starved(p) /\ \E K \in SUBSET ReclaimCandidates(p) : Evict(K)
      BY <2>1, ReclaimRound
    <3>2. PICK K \in SUBSET ReclaimCandidates(p) : Evict(K)
      BY <3>1
    <3>3. K \in SUBSET Pods
      BY DEF ReclaimCandidates, BoundPods
    <3>4. Evicted \subseteq K
      BY <1>1, <3>2, <3>3, EvictFacts DEF ReclaimInv
    <3>5. \A v \in K : /\ ~InGang(v) /\ Prio[v] <= Prio[p]
                       /\ FenceBoundary(LeafOf(p)) \in WalkUp(LeafOf(v))
      BY DEF ReclaimCandidates, BoundPods, MayReach, PathWithinSubtree
    <3>6. state[p] = "pending"
      BY <3>1 DEF Starved
    <3> QED BY <3>4, <3>5, <3>6
  <2>2. ASSUME NEW p \in Pods, PostFilter(p) PROVE ForAPeer
    <3>1. MayPreempt(p) /\ \E n \in PoolNodes : \E K \in SUBSET NodeCandidates(p, n) : Evict(K)
      BY <2>2, PreemptionRound
    <3>2. PICK K \in SUBSET UNION {NodeCandidates(p, n) : n \in PoolNodes} : Evict(K)
      BY <3>1
    <3>3. K \in SUBSET Pods
      BY DEF NodeCandidates
    <3>4. Evicted \subseteq K
      BY <1>1, <3>2, <3>3, EvictFacts DEF ReclaimInv
    <3>5. \A v \in K : /\ ~InGang(v) /\ Prio[v] < Prio[p] /\ v \in Pods
                       /\ FenceBoundary(LeafOf(p)) \in WalkUp(LeafOf(v))
      BY DEF NodeCandidates, MayReach, PathWithinSubtree
    <3>6. state[p] = "pending"
      BY <3>1 DEF MayPreempt
    <3>7. \A v \in K : Prio[v] <= Prio[p]
      BY SMT, <3>5, ReclaimAssumption
    <3> QED BY <3>4, <3>5, <3>6, <3>7
  <2>3. ASSUME NEW p \in Pods, Schedule(p) \/ Finish(p) \/ Vanish(p) \/ Respawn(p)
        PROVE  Evicted = {}
    BY <1>1, <2>3, OthersEvictNobody DEF ReclaimInv
  <2>4. CASE UNCHANGED vars
    BY <1>1, <2>4 DEF ReclaimInv, ReclaimTypeOK, vars, Evicted
  <2> QED BY <1>1, <2>1, <2>2, <2>3, <2>4 DEF ReclaimNext
<1>2. ReclaimInv /\ [ReclaimNext]_vars => [ForAPeer]_vars
  BY <1>1
<1> QED BY <1>2, ReclaimInvHolds, PTL DEF ReclaimSpec, EvictedForAPeer

\* The last pod a disruption budget spares for eviction counts all of them.
LEMMA SparedWithinBudget ==
  ASSUME NEW V \in SUBSET Pods, NEW W \in SUBSET V, NEW r \in Orders, PDBSpared(W, V, r),
         NEW b \in Budgets
  PROVE  /\ IsFiniteSet(W \cap b.pods)
         /\ Cardinality(W \cap b.pods) <= DisruptionsAllowed(b)
         /\ DisruptionsAllowed(b) \in Nat
<1> DEFINE C == W \cap b.pods
           healthy == {p \in b.pods : state[p] = "running"}
<1>1. C \in SUBSET Pods /\ healthy \in SUBSET Pods
  BY ReclaimAssumption
<1>2. IsFiniteSet(C) /\ IsFiniteSet(healthy)
  <2> HIDE DEF C, healthy
  <2> QED BY <1>1, ReclaimAssumption, FS_Subset
<1>3. DisruptionsAllowed(b) \in Nat
  <2>1. Cardinality(healthy) \in Nat
    BY <1>2, FS_CardinalityType
  <2>2. DisruptionsAllowed(b) = AtLeast0(Cardinality(healthy) - b.minAvailable)
    BY DEF DisruptionsAllowed
  <2> HIDE DEF healthy
  <2> QED BY SMT, <2>1, <2>2, ReclaimAssumption DEF AtLeast0
<1>4. CASE C = {}
  BY SMT, <1>3, <1>4, FS_EmptySet
<1>5. CASE C # {}
  <2>1. PICK v \in C : \A u \in C \ {v} : r[u] < r[v]
    <3> HIDE DEF C
    <3> QED BY <1>1, <1>5, LastInOrder
  <2> DEFINE before == {u \in W \cap b.pods : r[u] < r[v]}
  <2>2. Cardinality(before) < DisruptionsAllowed(b)
    BY DEF PDBSpared
  <2>3. C \ {v} \in SUBSET before /\ before \in SUBSET C
    BY <2>1
  <2> HIDE DEF before
  <2>4. IsFiniteSet(before) /\ Cardinality(before) \in Nat
    <3> HIDE DEF C
    <3> QED BY <1>2, <2>3, FS_Subset, FS_CardinalityType
  <2>5. Cardinality(C \ {v}) <= Cardinality(before)
    <3> HIDE DEF C
    <3> QED BY <2>3, <2>4, FS_Subset
  <2>6. Cardinality(C \ {v}) = Cardinality(C) - 1 /\ Cardinality(C) \in Nat
    <3> HIDE DEF C
    <3> QED BY <1>2, <2>1, FS_RemoveElement, FS_CardinalityType
  <2>7. Cardinality(C) <= DisruptionsAllowed(b)
    <3> HIDE DEF C
    <3> QED BY SMT, <1>3, <2>2, <2>4, <2>5, <2>6
  <2> QED BY <1>2, <1>3, <2>7
<1> QED BY <1>4, <1>5

\* PostFilter keeps every PodDisruptionBudget: of the pods one covers, a round
\* evicts no more than the budget allows.
THEOREM BudgetsAreKeptHolds == ReclaimSpec => BudgetsAreKept
<1> DEFINE Over == \E b \in Budgets : Cardinality(Evicted \cap b.pods) > DisruptionsAllowed(b)
           Kept == Over => ~ \E p \in Pods : PostFilter(p)
<1>1. ASSUME ReclaimInv, NEW p \in Pods, PostFilter(p), NEW b \in Budgets
      PROVE  ~(Cardinality(Evicted \cap b.pods) > DisruptionsAllowed(b))
  <2>1. PICK r \in Orders, n \in PoolNodes : \E V \in SUBSET NodeCandidates(p, n) :
          \E W \in SUBSET V : \E K \in SUBSET W : PDBSpared(W, V, r) /\ Evict(K)
    BY <1>1, PreemptionRound
  <2>2. PICK V \in SUBSET NodeCandidates(p, n) : \E W \in SUBSET V : \E K \in SUBSET W :
          PDBSpared(W, V, r) /\ Evict(K)
    BY <2>1
  <2>2a. PICK W \in SUBSET V : \E K \in SUBSET W : PDBSpared(W, V, r) /\ Evict(K)
    BY <2>2
  <2>2b. PICK K \in SUBSET W : PDBSpared(W, V, r) /\ Evict(K)
    BY <2>2a
  <2>3. V \in SUBSET Pods /\ K \in SUBSET Pods
    BY DEF NodeCandidates
  <2>4. Evicted \subseteq K
    BY <1>1, <2>2b, <2>3, EvictFacts DEF ReclaimInv
  <2>5. /\ IsFiniteSet(W \cap b.pods)
        /\ Cardinality(W \cap b.pods) <= DisruptionsAllowed(b)
        /\ DisruptionsAllowed(b) \in Nat
    BY <2>2b, <2>3, SparedWithinBudget
  <2>6. Evicted \cap b.pods \in SUBSET (W \cap b.pods)
    BY <2>4
  <2>7. Cardinality(Evicted \cap b.pods) <= Cardinality(W \cap b.pods)
        /\ Cardinality(Evicted \cap b.pods) \in Nat /\ Cardinality(W \cap b.pods) \in Nat
    BY <2>5, <2>6, FS_Subset, FS_CardinalityType
  <2> QED BY SMT, <2>5, <2>7
<1>2. ReclaimInv /\ [ReclaimNext]_vars => [Kept]_vars
  BY <1>1
<1> QED BY <1>2, ReclaimInvHolds, PTL DEF ReclaimSpec, BudgetsAreKept

-----------------------------------------------------------------------------
(* SelectVictims.                                                          *)

\* What a pod contributes is a number.
LEMMA ContributionNat ==
  ASSUME NEW need \in Vec, NEW v \in Pods
  PROVE  Contribution(need, v) \in Nat
<1> DEFINE D == {e \in Dims : need[e] > 0}
           w == [d \in D |-> Req[v][d]]
<1>1. D \in SUBSET Dims /\ w \in [D -> Nat]
  BY SMT, ReclaimAssumption DEF Vec
<1>2. Contribution(need, v) = Total(w)
  BY DEF Contribution
<1> HIDE DEF D, w
<1>3. IsFiniteSet(D)
  BY <1>1, ReclaimAssumption, FS_Subset
<1> QED BY <1>1, <1>2, <1>3, TotalType

\* The order in which victims are taken is total and strict.
LEMMA CheaperOrder ==
  ASSUME NEW need \in Vec
  PROVE  /\ \A a \in Pods : ~Cheaper(need, a, a)
         /\ \A a, b \in Pods : a # b => Cheaper(need, a, b) \/ Cheaper(need, b, a)
         /\ \A a, b, c \in Pods :
              Cheaper(need, a, b) /\ Cheaper(need, b, c) => Cheaper(need, a, c)
<1>1. \A a \in Pods : Contribution(need, a) \in Nat /\ Prio[a] \in Int /\ Uid[a] \in Nat
  BY ContributionNat, ReclaimAssumption
<1>2. \A a, b \in Pods : a # b => Uid[a] # Uid[b]
  BY ReclaimAssumption
<1> QED BY SMT, <1>1, <1>2 DEF Cheaper

\* More victims cover no less.
LEMMA CoversMonotone ==
  ASSUME NEW need \in Vec, NEW B \in SUBSET Pods, NEW A \in SUBSET B, Covers(A, need)
  PROVE  Covers(B, need)
<1> SUFFICES ASSUME NEW d \in Dims PROVE need[d] <= Amount(B, d)
  BY DEF Covers
<1>1. Amount(A, d) <= Amount(B, d) /\ need[d] <= Amount(A, d)
  BY AmountMonotone DEF Covers
<1>2. need[d] \in Nat /\ Amount(A, d) \in Nat /\ Amount(B, d) \in Nat
  <2>1. A \in SUBSET Pods
    OBVIOUS
  <2> QED BY <2>1, AmountNat DEF Vec
<1> QED BY SMT, <1>1, <1>2

\* The selection covers the need, and no victim of it can be spared.
LEMMA SelectionSuffices ==
  ASSUME NEW need \in Vec, NEW V \in SUBSET Pods, NEW K, IsSelection(K, need, V)
  PROVE  Covers(K, need) /\ \A v \in K : ~Covers(K \ {v}, need)
<1> DEFINE T == Taken(need, V)
           spared(v) == {u \in T : Cheaper(need, u, v)} \cup {u \in K : Cheaper(need, v, u)}
<1>1. T \in SUBSET Pods
  BY DEF Taken
<1>2. /\ Covers(T, need) /\ K \in SUBSET T
      /\ \A v \in T : v \in K <=> ~Covers(spared(v), need)
  BY DEF IsSelection
<1> HIDE DEF T
<1>3. K \in SUBSET Pods
  BY <1>1, <1>2
<1>4. Covers(K, need)
  <2>1. CASE T \ K = {}
    <3>1. K = T
      BY <1>2, <2>1
    <3> QED BY <1>2, <3>1
  <2>2. CASE T \ K # {}
    <3> DEFINE R == {e \in Pods \X Pods : Cheaper(need, e[1], e[2])}
               D == T \ K
    <3>1. \A x, y \in Pods : <<x, y>> \in R <=> Cheaper(need, x, y)
      OBVIOUS
    <3>2. D \in SUBSET Pods /\ D # {}
      BY <1>1, <2>2
    <3>3. IsFiniteSet(D)
      <4> HIDE DEF D
      <4> QED BY <3>2, ReclaimAssumption, FS_Subset
    <3> HIDE DEF R
    <3>4. (\A x \in D : <<x, x>> \notin R)
          /\ \A x, y, z \in D : <<x, y>> \in R /\ <<y, z>> \in R => <<x, z>> \in R
      <4> HIDE DEF D
      <4> QED BY <3>1, <3>2, CheaperOrder
    <3>5. PICK w \in D : \A u \in D : <<u, w>> \notin R
      <4> HIDE DEF D
      <4> QED BY <3>2, <3>3, <3>4, MinimalExists
    <3>6. w \in T /\ w \notin K
      OBVIOUS
    <3>7. Covers(spared(w), need)
      BY <1>2, <3>6
    <3>8. spared(w) \in SUBSET K
      <4>1. ASSUME NEW u \in T, Cheaper(need, u, w) PROVE u \in K
        BY <1>1, <3>1, <3>5, <3>6, <4>1
      <4> QED BY <4>1
    <3> HIDE DEF spared
    <3> QED BY <1>3, <3>7, <3>8, CoversMonotone
  <2> QED BY <2>1, <2>2
<1>5. ASSUME NEW v \in K, Covers(K \ {v}, need) PROVE FALSE
  <2>1. v \in T /\ v \in Pods
    BY <1>1, <1>2
  <2>2. K \ {v} \in SUBSET spared(v) /\ spared(v) \in SUBSET Pods
    BY <1>1, <1>2, <1>3, <2>1, CheaperOrder
  <2>3. ~Covers(spared(v), need)
    BY <1>2, <2>1
  <2> HIDE DEF spared
  <2>4. Covers(spared(v), need)
    BY <1>5, <2>2, CoversMonotone
  <2> QED BY <2>3, <2>4
<1> QED BY <1>4, <1>5

\* A starved pod: what its victims request covers what it asks for.
LEMMA ReclaimSuffices ==
  ASSUME NEW p \in Pods, NEW r \in Orders, NEW K \in SUBSET ReclaimCandidates(p), Reclaims(p, r, K)
  PROVE  Covers(K, Req[p]) /\ \A v \in K : ~Covers(K \ {v}, Req[p])
<1>1. PICK V \in SUBSET ReclaimCandidates(p) : IsSelection(K, Req[p], V)
  BY DEF Reclaims
<1>2. V \in SUBSET Pods /\ Req[p] \in Vec
  BY ReclaimAssumption DEF ReclaimCandidates, BoundPods
<1> QED BY <1>1, <1>2, SelectionSuffices

\* On a node that holds no more than it can, victims make room for a pod exactly
\* if they cover its deficit.
LEMMA DeficitIsRoom ==
  ASSUME ReclaimInv, NEW p \in Pods, NEW n \in PoolNodes, NEW E \in SUBSET OnNode(n)
  PROVE  LET deficit == [d \in Dims |-> AtLeast0(Req[p][d] - NodeAvailable(n, d))]
         IN  /\ deficit \in Vec
             /\ Covers(E, deficit) <=>
                  \A d \in Dims : Amount(OnNode(n) \ E, d) + Req[p][d] <= Capacity[n][d]
<1> DEFINE deficit == [d \in Dims |-> AtLeast0(Req[p][d] - NodeAvailable(n, d))]
<1>1. ASSUME NEW d \in Dims
      PROVE  /\ deficit[d] \in Nat
             /\ deficit[d] <= Amount(E, d) <=> Amount(OnNode(n) \ E, d) + Req[p][d] <= Capacity[n][d]
  <2> DEFINE held == Amount(OnNode(n), d)
             freed == Amount(E, d)
             cap == Capacity[n][d]
             asked == Req[p][d]
  <2>1. OnNode(n) \in SUBSET Pods /\ E \in SUBSET Pods
    BY DEF OnNode
  <2>2. held \in Nat /\ freed \in Nat
    BY <2>1, AmountNat
  <2>3. Amount(OnNode(n) \ E, d) = held - freed
    BY <2>1, AmountMonotone
  <2>4. cap \in Nat /\ asked \in Nat
    BY SMT, ReclaimAssumption DEF Vec
  <2>5. held <= cap
    BY DEF ReclaimInv, NodesHold
  <2>6. deficit[d] = AtLeast0(asked - AtLeast0(cap - held))
    BY DEF NodeAvailable
  <2> HIDE DEF held, freed, cap, asked, deficit
  <2>7. AtLeast0(cap - held) = cap - held
    BY SMT, <2>2, <2>4, <2>5 DEF AtLeast0
  <2>8. deficit[d] = IF asked - (cap - held) > 0 THEN asked - (cap - held) ELSE 0
    BY <2>6, <2>7 DEF AtLeast0
  <2>9. deficit[d] \in Nat /\ (deficit[d] <= freed <=> held - freed + asked <= cap)
    BY SMT, <2>2, <2>4, <2>5, <2>8
  <2> QED BY <2>3, <2>9 DEF freed, cap, asked
<1>2. deficit \in Vec
  BY <1>1 DEF Vec
<1>3. Covers(E, deficit) <=> \A d \in Dims : Amount(OnNode(n) \ E, d) + Req[p][d] <= Capacity[n][d]
  <2> HIDE DEF deficit
  <2> QED BY <1>1 DEF Covers
<1> QED BY <1>2, <1>3

\* A pod no node has room for: with its victims gone it fits the node, and
\* without any one of them it would not.
LEMMA PreemptionSuffices ==
  ASSUME ReclaimInv, NEW p \in Pods, NEW n \in PoolNodes, NEW r \in Orders,
         NEW K \in SUBSET NodeCandidates(p, n), Preempts(p, r, n, K)
  PROVE  LET fits(E) == \A d \in Dims : Amount(OnNode(n) \ E, d) + Req[p][d] <= Capacity[n][d]
         IN  fits(K) /\ \A v \in K : ~fits(K \ {v})
<1> DEFINE deficit == [d \in Dims |-> AtLeast0(Req[p][d] - NodeAvailable(n, d))]
           fits(E) == \A d \in Dims : Amount(OnNode(n) \ E, d) + Req[p][d] <= Capacity[n][d]
<1>1. PICK V \in SUBSET NodeCandidates(p, n) : \E W \in SUBSET V : IsSelection(K, deficit, W)
  BY DEF Preempts
<1>2. PICK W \in SUBSET V : IsSelection(K, deficit, W)
  BY <1>1
<1>3. \A E \in SUBSET OnNode(n) : deficit \in Vec /\ (Covers(E, deficit) <=> fits(E))
  BY DeficitIsRoom
<1>4. W \in SUBSET Pods /\ K \in SUBSET OnNode(n)
  BY DEF NodeCandidates, OnNode
<1> HIDE DEF deficit, fits
<1>5. deficit \in Vec
  BY <1>3, <1>4
<1>6. Covers(K, deficit) /\ \A v \in K : ~Covers(K \ {v}, deficit)
  BY <1>2, <1>4, <1>5, SelectionSuffices
<1>7. fits(K)
  BY <1>3, <1>4, <1>6
<1>8. ASSUME NEW v \in K PROVE ~fits(K \ {v})
  <2>1. K \ {v} \in SUBSET OnNode(n)
    BY <1>4
  <2> QED BY <1>3, <1>6, <2>1
<1> QED BY <1>7, <1>8 DEF fits

\* Neither loop evicts for nothing or more than it must: with its victims gone
\* the pod fits the node, or the need of the starved pod is covered, and without
\* any one of them it would not be.
THEOREM VictimsSufficeHolds == ReclaimSpec => []VictimsSuffice
<1>1. ASSUME ReclaimInv PROVE VictimsSuffice
  BY <1>1, PreemptionSuffices, ReclaimSuffices DEF VictimsSuffice
<1> QED BY <1>1, ReclaimInvHolds, PTL

-----------------------------------------------------------------------------
(* The tree that is published, and where pods are charged.                 *)

\* What rebuild builds is a tree that NewManager accepts, or none.
LEMMA TreeOfValid ==
  ASSUME NEW crs, NEW envelopes, TreeOf(crs, envelopes) # NoTree
  PROVE  ValidBuild(TreeOf(crs, envelopes)) /\ ValidatePlacement(TreeOf(crs, envelopes))
BY DEF TreeOf, NewManager

\* An identity resolves to a queue of the tree or to none.
LEMMA ResolvedInTree ==
  ASSUME NEW t, NEW id
  PROVE  Resolve(t, id) \in t.nodes \cup {NoLeaf}
BY DEF Resolve

\* In a tree that ValidatePlacement accepts, Resolve has no choice: the leaf an
\* account is routed to, or failing that the default leaf of the namespace.
THEOREM PlacementIsUnique ==
  ASSUME NEW t, ValidatePlacement(t), NEW id, <<"root", id.ns>> \in t.nodes,
         NEW q \in t.nodes, IsLeaf(t, q), NamespaceOf(q) = id.ns
  PROVE  /\ id.sa \in t.sas[q] => Resolve(t, id) = q
         /\ q \in t.dflt /\ (\A c \in t.nodes : NamespaceOf(c) = id.ns => id.sa \notin t.sas[c])
              => Resolve(t, id) = q
<1> DEFINE leaves == {c \in t.nodes : IsLeaf(t, c) /\ NamespaceOf(c) = id.ns}
           exact == {c \in leaves : id.sa \in t.sas[c]}
<1>1. ASSUME NEW a \in leaves, NEW b \in leaves, (a \in exact /\ b \in exact) \/ (a \in t.dflt /\ b \in t.dflt)
      PROVE  a = b
  <2>1. /\ t.sas[a] # {} \/ a \in t.dflt
        /\ t.sas[b] # {} \/ b \in t.dflt
        /\ a \in t.nodes /\ b \in t.nodes /\ NamespaceOf(a) = NamespaceOf(b)
    BY <1>1
  <2>2. a # b => ~(a \in t.dflt /\ b \in t.dflt) /\ t.sas[a] \cap t.sas[b] = {}
    BY <2>1 DEF ValidatePlacement
  <2> QED BY <1>1, <2>2
<1>2. q \in leaves
  OBVIOUS
<1>3. ASSUME id.sa \in t.sas[q] PROVE Resolve(t, id) = q
  <2>1. q \in exact
    BY <1>2, <1>3
  <2>2. ASSUME NEW c \in exact PROVE c = q
    BY <1>1, <1>2, <2>1, <2>2
  <2> QED BY <2>1, <2>2 DEF Resolve
<1>4. ASSUME q \in t.dflt, \A c \in t.nodes : NamespaceOf(c) = id.ns => id.sa \notin t.sas[c]
      PROVE  Resolve(t, id) = q
  <2>1. exact = {}
    BY <1>4
  <2>2. q \in leaves \cap t.dflt /\ \A c \in leaves \cap t.dflt : c = q
    BY <1>1, <1>2, <1>4
  <2> QED BY <2>1, <2>2 DEF Resolve
<1> QED BY <1>3, <1>4

\* The shape of the configuration's state is inductive by itself.
LEMMA ConfigTypeStep ==
  ASSUME ConfigTypeOK, [ConfigNext]_configVars
  PROVE  ConfigTypeOK'
<1> USE DEF ConfigTypeOK
<1>1. ASSUME UNCHANGED <<snapshot, booked, loop, pending, unhandled, edits>> PROVE ConfigTypeOK'
  BY <1>1
<1>2. ASSUME Edit PROVE ConfigTypeOK'
  BY SMT, <1>2, QueueConfigAssumption DEF Edit
<1>3. ASSUME NEW q \in Queues, InformQueue(q) PROVE ConfigTypeOK'
  BY <1>3 DEF InformQueue
<1>4. ASSUME NEW ns \in Namespaces, InformQuota(ns) PROVE ConfigTypeOK'
  BY <1>4 DEF InformQuota
<1>5. ASSUME NEW x \in unhandled, TriggerRebuild(x) PROVE ConfigTypeOK'
  BY <1>5 DEF TriggerRebuild
<1>6. CASE TakeToken \/ ListQueues
  BY <1>6 DEF TakeToken, ListQueues
<1>7. CASE Rebuild
  <2> DEFINE t == TreeOf(listed, rqStore)
  <2>1. loop' = "idle" /\ UNCHANGED <<pending, unhandled, edits>>
    BY <1>7 DEF Rebuild
  <2>2. CASE t = NoTree
    BY <1>7, <2>1, <2>2 DEF Rebuild
  <2>3. CASE t # NoTree
    <3>1. snapshot' = t /\ booked' = [p \in Tenants |-> Rebooked(t, p)]
      BY <1>7, <2>3 DEF Rebuild
    <3>2. ValidBuild(t) /\ ValidatePlacement(t)
      BY <2>3, TreeOfValid
    <3>3. ASSUME NEW p \in Tenants PROVE booked'[p] \in {Absent, NoLeaf} \cup t.nodes
      BY <3>1, ResolvedInTree DEF Rebooked
    <3> HIDE DEF t
    <3> QED BY <2>1, <3>1, <3>2, <3>3
  <2> QED BY <2>2, <2>3
<1>8. ASSUME NEW p \in Tenants, PodArrives(p) \/ PodEnds(p) PROVE ConfigTypeOK'
  BY <1>8, ResolvedInTree DEF PodArrives, PodEnds
<1>9. CASE UNCHANGED configVars \/ WriteQueue \/ \E q \in Queues : ReconcileQueue(q)
  BY <1>1, <1>9 DEF configVars, WriteQueue, ReconcileQueue
<1>10. CASE \/ \E q \in Queues : DeleteQueue(q) \/ \E s \in SpecsOf[q] : CreateQueue(q, s) \/ UpdateQueue(q, s)
            \/ \E ns \in Namespaces : \E e \in Quotas[ns] : SetQuota(ns, e)
  BY <1>2, <1>10 DEF CreateQueue, UpdateQueue, DeleteQueue, SetQuota
<1> HIDE DEF ConfigTypeOK
<1> QED BY <1>3, <1>4, <1>5, <1>6, <1>7, <1>8, <1>9, <1>10 DEF ConfigNext

\* The published tree is valid and every booking is on a queue of it, or on none.
THEOREM ConfigTypeCorrect == ConfigSpec => []ConfigTypeOK
<1>1. ConfigInit => ConfigTypeOK
  <2> SUFFICES ASSUME ConfigInit PROVE ConfigTypeOK
    OBVIOUS
  <2>1. snapshot = NoTree /\ booked \in [Tenants -> {Absent, NoLeaf} \cup snapshot.nodes]
    BY DEF ConfigInit
  <2>2. loop \in {"start", "idle", "debounce", "build"} /\ unhandled = {} /\ edits = 0
    BY DEF ConfigInit
  <2>3. pending \in BOOLEAN
    BY DEF ConfigInit
  <2>4. edits \in 0..MaxEdits
    BY SMT, <2>2, QueueConfigAssumption
  <2> QED BY <2>1, <2>2, <2>3, <2>4 DEF ConfigTypeOK
<1>2. ConfigTypeOK /\ [ConfigNext]_configVars => ConfigTypeOK'
  BY ConfigTypeStep
<1> QED BY <1>1, <1>2, PTL DEF ConfigSpec

-----------------------------------------------------------------------------
(* The Queue CRs as the API server, the informer and reconcileQueue have   *)
(* them.                                                                   *)

IsCR(u) ==
  \E s, d, f, st : u = [spec |-> s, deleting |-> d, fin |-> f, status |-> st]

\* What reconcileQueue may have decided on the object it read.
DecidedOn(u, obj) ==
  /\ u # Gone
  /\ obj = Gone => u.deleting
  /\ obj # Gone => IsCR(obj) /\ Generation(obj) = Generation(u)

ObjectsOK ==
  /\ cr = [q \in Queues |-> cr[q]] /\ crStore = [q \in Queues |-> crStore[q]]
  /\ \A q \in Queues : cr[q] = Gone \/ IsCR(cr[q])
  /\ \A q \in Queues : crStore[q] = Gone \/ IsCR(crStore[q])
  /\ visit # NoVisit => visit.queue \in Queues /\ DecidedOn(visit.read, visit.obj)

\* What a write of one field does to a CR.
LEMMA CRUpdate ==
  ASSUME NEW u, IsCR(u), NEW x
  PROVE  /\ u # Gone
         /\ IsCR([u EXCEPT !.fin = x]) /\ Generation([u EXCEPT !.fin = x]) = Generation(u)
         /\ IsCR([u EXCEPT !.status = x]) /\ Generation([u EXCEPT !.status = x]) = Generation(u)
         /\ IsCR([u EXCEPT !.spec = x]) /\ IsCR([u EXCEPT !.deleting = x])
<1>1. PICK s, d, f, st : u = [spec |-> s, deleting |-> d, fin |-> f, status |-> st]
  BY DEF IsCR
<1>2. ASSUME NEW a, NEW b, NEW c, NEW e
      PROVE  [spec |-> a, deleting |-> b, fin |-> c, status |-> e] # Gone
  BY DEF Gone
<1>3. /\ [u EXCEPT !.fin = x] = [spec |-> s, deleting |-> d, fin |-> x, status |-> st]
      /\ [u EXCEPT !.status = x] = [spec |-> s, deleting |-> d, fin |-> f, status |-> x]
      /\ [u EXCEPT !.spec = x] = [spec |-> x, deleting |-> d, fin |-> f, status |-> st]
      /\ [u EXCEPT !.deleting = x] = [spec |-> s, deleting |-> x, fin |-> f, status |-> st]
  BY SMT, <1>1
<1>4. ASSUME NEW a, NEW b, NEW c, NEW e
      PROVE  /\ IsCR([spec |-> a, deleting |-> b, fin |-> c, status |-> e])
             /\ Generation([spec |-> a, deleting |-> b, fin |-> c, status |-> e]) = <<a, b>>
  BY <1>2 DEF IsCR, Generation
<1> QED BY SMT, <1>1, <1>2, <1>3, <1>4

\* What Decide gives for an object that is there.
LEMMA DecideKeeps ==
  ASSUME NEW u, IsCR(u), NEW path
  PROVE  DecidedOn(u, Decide(u, path))
<1>1. /\ u # Gone
      /\ IsCR([u EXCEPT !.fin = TRUE]) /\ Generation([u EXCEPT !.fin = TRUE]) = Generation(u)
      /\ \A x : IsCR([u EXCEPT !.status = x]) /\ Generation([u EXCEPT !.status = x]) = Generation(u)
  BY CRUpdate
<1>2. IsCR(Patched(u, StatusOf(u, path))) /\ Generation(Patched(u, StatusOf(u, path))) = Generation(u)
  BY <1>1 DEF Patched
<1>3. Gone # [u EXCEPT !.fin = TRUE] /\ Gone # Patched(u, StatusOf(u, path))
  BY <1>1, <1>2, CRUpdate
<1> QED BY <1>1, <1>2, <1>3 DEF Decide, DecidedOn

LEMMA FreshIsCR ==
  ASSUME NEW spec
  PROVE  IsCR(Fresh(spec))
BY DEF IsCR, Fresh

\* At the start there are CRs that their owners made.
LEMMA ObjectsInit ==
  ASSUME ConfigInit
  PROVE  ObjectsOK
<1>1. PICK f \in Starts : cr = [q \in Queues |-> IF q \in DOMAIN f THEN Fresh(f[q]) ELSE Gone]
  BY DEF ConfigInit
<1>2. crStore = cr /\ visit = NoVisit
  BY DEF ConfigInit
<1> QED BY <1>1, <1>2, FreshIsCR DEF ObjectsOK

\* The objects keep their shape.
LEMMA ObjectsStep ==
  ASSUME ObjectsOK, [ConfigNext]_configVars
  PROVE  ObjectsOK'
<1> USE DEF ObjectsOK
<1>1. ASSUME UNCHANGED <<cr, crStore, visit>> PROVE ObjectsOK'
  BY <1>1
<1>2. ASSUME NEW q \in Queues, NEW obj, obj = Gone \/ IsCR(obj),
             cr' = [cr EXCEPT ![q] = obj], UNCHANGED <<crStore, visit>>
      PROVE  ObjectsOK'
  BY <1>2
<1>3. ASSUME NEW q \in Queues, NEW spec, CreateQueue(q, spec) PROVE ObjectsOK'
  BY <1>2, <1>3, FreshIsCR DEF CreateQueue, Edit
<1>4. ASSUME NEW q \in Queues, NEW spec, UpdateQueue(q, spec) PROVE ObjectsOK'
  <2>1. cr' = [cr EXCEPT ![q] = [cr[q] EXCEPT !.spec = spec]] /\ IsCR(cr[q])
    BY <1>4 DEF UpdateQueue
  <2>2. UNCHANGED <<crStore, visit>>
    BY <1>4 DEF UpdateQueue, Edit
  <2> QED BY <1>2, <2>1, <2>2, CRUpdate
<1>5. ASSUME NEW q \in Queues, DeleteQueue(q) PROVE ObjectsOK'
  <2>1. \/ cr' = [cr EXCEPT ![q] = [cr[q] EXCEPT !.deleting = TRUE]]
        \/ cr' = [cr EXCEPT ![q] = Gone]
    BY <1>5 DEF DeleteQueue
  <2>2. IsCR(cr[q]) /\ UNCHANGED <<crStore, visit>>
    BY <1>5 DEF DeleteQueue, Edit
  <2> QED BY <1>2, <2>1, <2>2, CRUpdate
<1>6. ASSUME NEW q \in Queues, InformQueue(q) PROVE ObjectsOK'
  BY <1>6 DEF InformQueue
<1>7. ASSUME NEW q \in Queues, ReconcileQueue(q) PROVE ObjectsOK'
  <2>1. PICK path : visit' = [queue |-> q, read |-> crStore[q], obj |-> Decide(crStore[q], path)]
    BY <1>7 DEF ReconcileQueue
  <2>2. DecidedOn(crStore[q], Decide(crStore[q], path))
    BY <1>7, DecideKeeps DEF ReconcileQueue
  <2>3. UNCHANGED <<cr, crStore>>
    BY <1>7 DEF ReconcileQueue
  <2> QED BY <2>1, <2>2, <2>3
<1>8. CASE WriteQueue
  <2>1. visit.queue \in Queues /\ DecidedOn(visit.read, visit.obj)
    BY <1>8 DEF WriteQueue
  <2>2. visit.obj = Gone \/ IsCR(visit.obj)
    BY <2>1 DEF DecidedOn
  <2> QED BY <1>8, <2>1, <2>2 DEF WriteQueue
<1>9. ASSUME \/ UNCHANGED configVars
             \/ \E ns \in Namespaces : InformQuota(ns) \/ \E e \in Quotas[ns] : SetQuota(ns, e)
             \/ \E x \in unhandled : TriggerRebuild(x)
             \/ TakeToken \/ ListQueues \/ Rebuild
             \/ \E p \in Tenants : PodArrives(p) \/ PodEnds(p)
      PROVE  UNCHANGED <<cr, crStore, visit>>
  BY <1>9 DEF configVars, InformQuota, SetQuota, Edit, TriggerRebuild, TakeToken, ListQueues,
              Rebuild, PodArrives, PodEnds
<1> HIDE DEF ObjectsOK
<1> QED BY <1>1, <1>3, <1>4, <1>5, <1>6, <1>7, <1>8, <1>9 DEF ConfigNext

\* The scheduler's own writes never undo an owner's word, whatever was decided on an
\* object that has changed since.
THEOREM OwnersWordStandsHolds == ConfigSpec => OwnersWordStands
<1> DEFINE Stands ==
      edits' = edits =>
        \A q \in Queues : cr'[q] # cr[q] =>
          /\ cr[q] # Gone
          /\ cr'[q] = Gone => cr[q].deleting
          /\ cr'[q] # Gone => Generation(cr'[q]) = Generation(cr[q])
<1>1. ConfigInit => ObjectsOK
  BY ObjectsInit
<1>2. ObjectsOK /\ [ConfigNext]_configVars => ObjectsOK'
  BY ObjectsStep
<1>3. ObjectsOK /\ ConfigTypeOK /\ [ConfigNext]_configVars => [Stands]_configVars
  <2> SUFFICES ASSUME ObjectsOK, ConfigTypeOK, ConfigNext, edits' = edits,
                      NEW q \in Queues, cr'[q] # cr[q]
               PROVE  /\ cr[q] # Gone
                      /\ cr'[q] = Gone => cr[q].deleting
                      /\ cr'[q] # Gone => Generation(cr'[q]) = Generation(cr[q])
    BY DEF configVars
  <2>1. ~Edit
    <3>1. edits \in Nat
      BY SMT, QueueConfigAssumption DEF ConfigTypeOK
    <3> QED BY SMT, <3>1 DEF Edit
  <2>2. WriteQueue
    BY <2>1 DEF ConfigNext, CreateQueue, UpdateQueue, DeleteQueue, SetQuota, InformQueue, InformQuota,
                TriggerRebuild, TakeToken, ListQueues, Rebuild, ReconcileQueue, PodArrives, PodEnds
  <2>3. visit.queue \in Queues /\ DecidedOn(visit.read, visit.obj) /\ cr = [c \in Queues |-> cr[c]]
    BY <2>2 DEF WriteQueue, ObjectsOK
  <2>4. cr[visit.queue] = visit.read /\ cr' = [cr EXCEPT ![visit.queue] = visit.obj]
    BY <2>2 DEF WriteQueue
  <2>5. q = visit.queue /\ cr'[q] = visit.obj
    BY <2>3, <2>4
  <2> QED BY <2>3, <2>4, <2>5 DEF DecidedOn
<1> QED BY <1>1, <1>2, <1>3, ConfigTypeCorrect, PTL DEF ConfigSpec, OwnersWordStands

-----------------------------------------------------------------------------
(* The coalescing trigger.  What the stores have taken in and the tree     *)
(* does not show yet is owed to it by somebody: a handler, the token, or   *)
(* the loop before its listing.  Nobody owes anything while a rebuild is   *)
(* under way only if its listing is still what the store has.              *)

Owed == unhandled # {} \/ pending \/ loop \in {"start", "debounce"}

ChangesOwed ==
  /\ ~Owed /\ loop = "idle" => TreeOf(crStore, rqStore) \in {NoTree, snapshot}
  /\ ~Owed /\ loop = "build" => SpecsIn(listed) = SpecsIn(crStore)

\* An update that queueSpecChanged ignores changes nothing a build reads.
LEMMA SameGenerationSameSpecs ==
  ASSUME NEW q \in Queues, NEW crs, crs = [c \in Queues |-> crs[c]], NEW obj,
         Generation(crs[q]) = Generation(obj)
  PROVE  SpecsIn([crs EXCEPT ![q] = obj]) = SpecsIn(crs)
<1> DEFINE new == [crs EXCEPT ![q] = obj]
<1>1. ASSUME NEW a, NEW b PROVE <<a, b>> # <<>>
  OBVIOUS
<1>2. (crs[q] = Gone) = (obj = Gone) /\ (obj # Gone => crs[q].spec = obj.spec)
  <2>1. ASSUME NEW a, NEW b, Generation(a) = Generation(b), a = Gone PROVE b = Gone
    BY <1>1, <2>1 DEF Generation
  <2>2. ASSUME obj # Gone, crs[q] # Gone PROVE crs[q].spec = obj.spec
    <3>1. <<crs[q].spec, crs[q].deleting>> = <<obj.spec, obj.deleting>>
      BY <2>2 DEF Generation
    <3> QED BY <3>1
  <2> QED BY <2>1, <2>2
<1>3. new[q] = obj /\ \A c \in Queues : c # q => new[c] = crs[c]
  OBVIOUS
<1> HIDE DEF new
<1>4. ASSUME NEW c \in Queues
      PROVE  /\ (new[c] = Gone) = (crs[c] = Gone)
             /\ new[c] # Gone => new[c].spec = crs[c].spec
  BY <1>2, <1>3
<1>5. Accepted(new) = Accepted(crs) /\ Accepted(crs) \subseteq Queues
  BY <1>4 DEF Accepted
<1>6. \A c \in Accepted(crs) : new[c].spec = crs[c].spec
  BY <1>4 DEF Accepted
<1>7. SpecsIn(new) = SpecsIn(crs)
  BY <1>5, <1>6 DEF SpecsIn
<1> QED BY <1>7 DEF new

\* A change is owed, or the tree shows it.
LEMMA ChangesOwedStep ==
  ASSUME ChangesOwed, ConfigTypeOK, ObjectsOK, [ConfigNext]_configVars
  PROVE  ChangesOwed'
<1>1. ASSUME UNCHANGED <<crStore, rqStore, unhandled, pending, loop, listed, snapshot>>
      PROVE  ChangesOwed'
  BY <1>1 DEF ChangesOwed, Owed
<1>2. ASSUME NEW q \in Queues, InformQueue(q) PROVE ChangesOwed'
  <2>1. crStore' = [crStore EXCEPT ![q] = cr[q]] /\ UNCHANGED <<rqStore, pending, loop, listed, snapshot>>
    BY <1>2 DEF InformQueue
  <2>2. CASE Generation(crStore[q]) # Generation(cr[q])
    <3>1. Owed'
      BY <1>2, <2>2 DEF InformQueue, Owed
    <3> QED BY <3>1 DEF ChangesOwed
  <2>3. CASE Generation(crStore[q]) = Generation(cr[q])
    <3>1. SpecsIn(crStore') = SpecsIn(crStore)
      BY <2>1, <2>3, SameGenerationSameSpecs DEF ObjectsOK
    <3>2. unhandled' = unhandled
      BY <1>2, <2>3 DEF InformQueue
    <3>3. TreeOf(crStore', rqStore') = TreeOf(crStore, rqStore)
      BY <2>1, <3>1 DEF TreeOf
    <3> QED BY <2>1, <3>1, <3>2, <3>3 DEF ChangesOwed, Owed
  <2> QED BY <2>2, <2>3
<1>3. ASSUME \/ \E ns \in Namespaces : InformQuota(ns)
             \/ \E x \in unhandled : TriggerRebuild(x)
             \/ TakeToken
      PROVE  ChangesOwed'
  <2>1. Owed'
    BY <1>3 DEF InformQuota, TriggerRebuild, TakeToken, Owed
  <2> QED BY <2>1 DEF ChangesOwed
<1>4. CASE ListQueues
  <2>1. loop' = "build" /\ listed' = crStore'
    BY <1>4 DEF ListQueues
  <2> QED BY <2>1 DEF ChangesOwed
<1>5. CASE Rebuild
  <2>1. /\ loop = "build" /\ loop' = "idle" /\ UNCHANGED <<crStore, rqStore, unhandled, pending>>
        /\ TreeOf(listed, rqStore) \in {NoTree, snapshot'}
    BY <1>5 DEF Rebuild
  <2>2. ASSUME ~Owed' PROVE TreeOf(crStore, rqStore) = TreeOf(listed, rqStore)
    BY <2>1, <2>2 DEF ChangesOwed, Owed, TreeOf
  <2> QED BY <2>1, <2>2 DEF ChangesOwed
<1>6. ASSUME \/ UNCHANGED configVars \/ WriteQueue
             \/ \E q \in Queues : \/ ReconcileQueue(q) \/ DeleteQueue(q)
                                  \/ \E s \in SpecsOf[q] : CreateQueue(q, s) \/ UpdateQueue(q, s)
             \/ \E ns \in Namespaces : \E e \in Quotas[ns] : SetQuota(ns, e)
             \/ \E p \in Tenants : PodArrives(p) \/ PodEnds(p)
      PROVE  UNCHANGED <<crStore, rqStore, unhandled, pending, loop, listed, snapshot>>
  BY <1>6 DEF configVars, WriteQueue, ReconcileQueue, CreateQueue, UpdateQueue, DeleteQueue, SetQuota,
              Edit, PodArrives, PodEnds
<1> QED BY <1>1, <1>2, <1>3, <1>4, <1>5, <1>6 DEF ConfigNext

\* Whenever the rebuild loop waits with nothing on its way to it, the tree is what
\* the informers' stores build, for any queues, specs and quotas.
THEOREM NoChangeLostHolds == ConfigSpec => []NoChangeLost
<1>1. ConfigInit => ObjectsOK /\ ChangesOwed
  <2>1. ConfigInit => Owed
    BY DEF ConfigInit, Owed
  <2> QED BY <2>1, ObjectsInit DEF ChangesOwed
<1>2. ObjectsOK /\ ChangesOwed /\ ConfigTypeOK /\ [ConfigNext]_configVars
        => (ObjectsOK /\ ChangesOwed)'
  BY ObjectsStep, ChangesOwedStep
<1>3. ConfigTypeOK /\ ChangesOwed => NoChangeLost
  BY DEF ChangesOwed, Owed, NoChangeLost
<1> QED BY <1>1, <1>2, <1>3, ConfigTypeCorrect, PTL DEF ConfigSpec

=============================================================================
