----------------------------- MODULE MCReclaim -----------------------------
(***************************************************************************)
(* The tenant ns has a leaf a with a guarantee, where the gang g is        *)
(* admitted, and a leaf b that borrows.  In the tree Tight the max of ns   *)
(* is what stops the pods of a, in Wide it is the nodes, in Kept b has a   *)
(* guarantee too, and in Fenced the leaf a is a fence of its own.          *)
(***************************************************************************)
EXTENDS Reclaim

NS == <<"root", "ns">>
A == <<"root", "ns", "a">>
B == <<"root", "ns", "b">>

Cpu(n) == [d \in {"cpu"} |-> n]
Queues == {RootPath, NS, A, B}

TreeOf(nsMax, guarA, guarB, fences) ==
  [nodes      |-> Queues,
   max        |-> [q \in Queues |-> IF q = NS THEN Cpu(nsMax) ELSE <<>>],
   guaranteed |-> [q \in Queues |-> CASE q = A -> Cpu(guarA) [] q = B -> Cpu(guarB) [] OTHER -> <<>>],
   sas        |-> [q \in Queues |-> CASE q = A -> {"sa"} [] q = B -> {"sb"} [] OTHER -> {}],
   dflt       |-> {},
   fences     |-> fences]

Tight == TreeOf(8, 7, 0, {})
Wide == TreeOf(10, 7, 0, {})
Kept == TreeOf(10, 7, 1, {})
Fenced == TreeOf(10, 7, 0, {A})

mcDims == {"cpu"}
mcTrees == {Tight, Wide, Kept, Fenced}
mcPods == {"a1", "b1", "b2", "g1", "g2"}
mcIdentity == [p \in Pods |-> IF p \in {"b1", "b2"} THEN [ns |-> "ns", sa |-> "sb"]
                                                      ELSE [ns |-> "ns", sa |-> "sa"]]
mcReq == [p \in Pods |-> CASE p = "g2" -> Cpu(4) [] p \in {"g1", "b2"} -> Cpu(2) [] OTHER -> Cpu(1)]
mcPrio == [p \in Pods |-> CASE p = "b1" -> 0 [] p \in {"a1", "b2"} -> 1 [] p = "g1" -> 2 [] OTHER -> 3]
mcAge == [p \in Pods |-> CASE p = "a1" -> 1 [] p = "b1" -> 2 [] p = "b2" -> 3
                           [] p = "g1" -> 4 [] OTHER -> 5]
mcGangs == {"g"}
mcGangOf == [p \in Pods |-> IF p \in {"g1", "g2"} THEN "g" ELSE NoGang]
mcMinMember == [g \in Gangs |-> 2]
mcGangRes == [g \in Gangs |-> Cpu(6)]
mcGangIdentity == [g \in Gangs |-> [ns |-> "ns", sa |-> "sa"]]
mcPoolNodes == {"n1", "n2", "n3"}
mcCapacity == [n \in PoolNodes |-> CASE n = "n1" -> Cpu(4) [] n = "n2" -> Cpu(3) [] OTHER -> Cpu(2)]
mcJobs == {"b1", "g1"}
mcRecreated == {"b1", "b2"}
mcBudgets == {[pods |-> {"g1", "g2", "b1", "b2"}, minAvailable |-> 1]}
=============================================================================
