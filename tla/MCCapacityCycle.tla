-------------------------- MODULE MCCapacityCycle --------------------------
(***************************************************************************)
(* One namespace with two leaves a and b under a shared ceiling: three     *)
(* pods and a gang compete for it.  In a second tree the namespace has one *)
(* leaf, c, with a limit on its account, in a third one leaf, d, that may  *)
(* run one application.                                                    *)
(***************************************************************************)
EXTENDS CapacityRefinement

NS == <<"root", "ns">>
A == <<"root", "ns", "a">>
B == <<"root", "ns", "b">>
C == <<"root", "ns", "c">>
D == <<"root", "ns", "d">>

Cpu(n) == [d \in {"cpu"} |-> n]

TreeOf(ns, max, sas) ==
  [nodes |-> ns, max |-> max, guaranteed |-> [q \in ns |-> <<>>], sas |-> sas, dflt |-> {}]

Shared ==
  LET ns == {RootPath, NS, A, B}
  IN  TreeOf(ns, [q \in ns |-> CASE q = NS -> Cpu(3) [] q = A -> Cpu(2) [] OTHER -> <<>>],
                 [q \in ns |-> CASE q = A -> {"sa"} [] q = B -> {"sb"} [] OTHER -> {}])

OneLeaf(leaf) ==
  LET ns == {RootPath, NS, leaf}
  IN  TreeOf(ns, [q \in ns |-> <<>>], [q \in ns |-> IF q = leaf THEN {"sa"} ELSE {}])

mcTrees == {Shared, OneLeaf(C), OneLeaf(D)}
mcDims == {"cpu"}
mcPods == {"p1", "p2", "p3"}
mcLate == {"p2"}
mcGangs == {"g1"}
mcFootprint == [p \in Pods |-> IF p = "p3" THEN Cpu(2) ELSE Cpu(1)]
mcRequests == [p \in Pods |-> {mcFootprint[p]}]
mcIdentity == [p \in Pods |-> [ns |-> "ns", sa |-> IF p = "p3" THEN "sb" ELSE "sa"]]
mcMinRes == [g \in mcGangs |-> Cpu(2)]
mcPriorities == {0}
mcGangAge == [g \in mcGangs |-> 1]
mcGangUid == [g \in mcGangs |-> 1]
mcGangQueue == [g \in mcGangs |-> B]
mcApp == [p \in Pods |-> IF p = "p1" THEN "x" ELSE "y"]
mcMaxApps == [q \in Paths |-> IF q = D THEN 1 ELSE 0]
mcLimits == [q \in Paths |-> IF q = C THEN {[sas |-> {"*"}, apps |-> 2, max |-> Cpu(1)]} ELSE {}]
=============================================================================
