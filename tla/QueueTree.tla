----------------------------- MODULE QueueTree -----------------------------
(***************************************************************************)
(* The queue tree of pkg/queue as data: its shape, the validity NewManager *)
(* demands, placement of an identity on a leaf, and the quota predicates   *)
(* that walk from a queue to the root.                                     *)
(*                                                                         *)
(* A queue is named by its dotted path; here the path is the sequence of   *)
(* its segments, so "root.team.spark" is <<"root", "team", "spark">> and   *)
(* the parent of a queue is its path without the last segment.             *)
(*                                                                         *)
(* A usage vector is a function [Dims -> Int] (an absent dimension of the  *)
(* code's map is 0).  A limit vector (max, guaranteed) is a function whose *)
(* domain holds only the dimensions that are present: absent from max      *)
(* means unlimited.                                                        *)
(***************************************************************************)
EXTENDS Totals, Sequences

CONSTANT Dims   \* the resource dimensions (cpu, memory, dra/<class>, ...)

Vec == [Dims -> Nat]
Zero == [d \in Dims |-> 0]
IsLimit(m) == DOMAIN m \subseteq Dims /\ m \in [DOMAIN m -> Nat]

-----------------------------------------------------------------------------
(* Shape.  A tree t is a record                                            *)
(*   nodes      the set of paths present (QueueManager.index),             *)
(*   max        the ceiling of every node,                                 *)
(*   guaranteed the floor of every node,                                   *)
(*   sas        the service accounts routed to every node,                 *)
(*   dflt       the nodes marked default (spec.default or the "*" alias).  *)

RootPath == <<"root">>

\* Queue.walkUp: the queue and its ancestors up to the root.
WalkUp(q) == {SubSeq(q, 1, n) : n \in 1 .. Len(q)}

Children(t, q) == {c \in t.nodes : Len(c) = Len(q) + 1 /\ q \in WalkUp(c)}

IsLeaf(t, q) == Children(t, q) = {}

\* QueueManager.mutate books usage only at a known leaf.
Bookable(t, q) == q \in t.nodes /\ IsLeaf(t, q)

NamespaceOf(q) == IF Len(q) >= 2 /\ q[1] = "root" THEN q[2] ELSE ""

-----------------------------------------------------------------------------
(* Validity: what NewManager accepts.                                      *)

MaxWithinParent(childMax, parentMax) ==
  \A d \in DOMAIN parentMax \cap DOMAIN childMax : childMax[d] <= parentMax[d]

GuaranteedOf(t, q, d) ==
  IF d \in DOMAIN t.guaranteed[q] THEN t.guaranteed[q][d] ELSE 0

ValidBuild(t) ==
  \A q \in t.nodes :
    /\ \A c \in Children(t, q) : MaxWithinParent(t.max[c], t.max[q])
    /\ \A d \in DOMAIN t.guaranteed[q] :
         Total([c \in Children(t, q) |-> GuaranteedOf(t, c, d)])
            <= t.guaranteed[q][d]

ValidatePlacement(t) ==
  LET placed == {q \in t.nodes : t.sas[q] # {} \/ q \in t.dflt}
      Siblings(a, b) == a # b /\ NamespaceOf(a) = NamespaceOf(b)
  IN  /\ \A q \in placed : IsLeaf(t, q) /\ NamespaceOf(q) # ""
      /\ \A a, b \in placed :
           Siblings(a, b) => /\ ~(a \in t.dflt /\ b \in t.dflt)
                             /\ t.sas[a] \cap t.sas[b] = {}

-----------------------------------------------------------------------------
(* placement.Resolve: the leaf of an identity [ns, sa], or NoLeaf.         *)

NoLeaf == <<>>

Resolve(t, id) ==
  LET leaves  == {q \in t.nodes : IsLeaf(t, q) /\ NamespaceOf(q) = id.ns}
      exact   == {q \in leaves : id.sa \in t.sas[q]}
      default == leaves \cap t.dflt
      found   == IF exact # {} THEN exact ELSE default
  IN  IF <<"root", id.ns>> \in t.nodes /\ found # {} THEN CHOOSE q \in found : TRUE
      ELSE NoLeaf

-----------------------------------------------------------------------------
(* Quota predicates, for the usage vectors used[q] of the queues.          *)

\* Mutant: the ceilings of the ancestors are not looked at.
CanFitAtLeaf(t, used, q, r) ==
  \A d \in DOMAIN t.max[q] : r[d] > 0 => used[q][d] + r[d] <= t.max[q][d]

\* Queue.CanFit: r fits under the max of q and of every ancestor.
CanFit(t, used, q, r) ==
  \A n \in WalkUp(q) : \A d \in DOMAIN t.max[n] :
     r[d] > 0 => used[n][d] + r[d] <= t.max[n][d]

\* Queue.fitsMax: r alone is within every max on the path.
FitsMax(t, q, r) ==
  \A n \in WalkUp(q) : \A d \in DOMAIN t.max[n] : r[d] <= t.max[n][d]

\* QueueManager.WithinMax: the path is not over-committed as it stands.
WithinMax(t, used, q) ==
  \A n \in WalkUp(q) : \A d \in DOMAIN t.max[n] : used[n][d] <= t.max[n][d]

\* Resource.StrictlyGtZero of a vector without negative entries.
StrictlyGtZero(r) == \E d \in Dims : r[d] > 0
=============================================================================
