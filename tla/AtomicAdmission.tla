-------------------------- MODULE AtomicAdmission --------------------------
(***************************************************************************)
(* What the capacity and the gang plugin promise together, without the     *)
(* cycle that delivers it: a pod gets its footprint and a gang its         *)
(* reservation in one indivisible step, on the leaf that placement names,  *)
(* and only if every queue on the way to the root stays within its max.    *)
(* Giving back is always possible.                                         *)
(*                                                                         *)
(* The code has no such step.  It checks in PreFilter, books in Reserve,   *)
(* checks again in PreBind and admits gangs in between; CapacityRefinement *)
(* says that from the outside this cannot be told from the above.          *)
(***************************************************************************)
EXTENDS QueueTree

CONSTANTS Pods, Gangs, Trees, Identity, Footprint, GangQueue, MinRes

VARIABLES
  tree,
  placed,   \* pod -> the leaf it runs on or is about to be bound on, or NoLeaf
  reserved  \* gang -> the leaf that holds its reservation, or NoLeaf

atomicVars == <<tree, placed, reserved>>

\* What the pods placed by pl and the gangs reserved by rs take of queue q.
Use(pl, rs, q, d) ==
  Total([p \in Pods |-> IF q \in WalkUp(pl[p]) THEN Footprint[p][d] ELSE 0])
   + Total([g \in Gangs |-> IF q \in WalkUp(rs[g]) THEN MinRes[g][d] ELSE 0])

Fits(pl, rs) ==
  \A q \in tree.nodes : \A d \in DOMAIN tree.max[q] : Use(pl, rs, q, d) <= tree.max[q][d]

AtomicInit ==
  /\ tree \in Trees
  /\ placed = [p \in Pods |-> NoLeaf]
  /\ reserved = [g \in Gangs |-> NoLeaf]

AdmitPod(p) ==
  LET leaf == Resolve(tree, Identity[p])
  IN  /\ placed[p] = NoLeaf /\ Bookable(tree, leaf)
      /\ placed' = [placed EXCEPT ![p] = leaf]
      /\ Fits(placed', reserved)
      /\ UNCHANGED <<tree, reserved>>

WithdrawPod(p) ==
  /\ placed[p] # NoLeaf
  /\ placed' = [placed EXCEPT ![p] = NoLeaf]
  /\ UNCHANGED <<tree, reserved>>

AdmitGroup(g) ==
  /\ reserved[g] = NoLeaf /\ Bookable(tree, GangQueue[g])
  /\ reserved' = [reserved EXCEPT ![g] = GangQueue[g]]
  /\ Fits(placed, reserved')
  /\ UNCHANGED <<tree, placed>>

WithdrawGroup(g) ==
  /\ reserved[g] # NoLeaf
  /\ reserved' = [reserved EXCEPT ![g] = NoLeaf]
  /\ UNCHANGED <<tree, placed>>

AtomicNext ==
  \/ \E p \in Pods : AdmitPod(p) \/ WithdrawPod(p)
  \/ \E g \in Gangs : AdmitGroup(g) \/ WithdrawGroup(g)

AtomicSpec == AtomicInit /\ [][AtomicNext]_atomicVars
=============================================================================
