--------------------------- MODULE MCPodLifecycle ---------------------------
(***************************************************************************)
(* One namespace whose configuration moves the service account sa from     *)
(* leaf a to leaf b, with a kept or dropped, and back.                     *)
(***************************************************************************)
EXTENDS PodLifecycle

NS == <<"root", "ns">>
A == <<"root", "ns", "a">>
B == <<"root", "ns", "b">>

Cpu(n) == [d \in {"cpu"} |-> n]

\* The tree with these leaves that routes sa to the leaf home.
TreeOf(leaves, home) ==
  LET ns == {RootPath, NS} \cup leaves
  IN  [nodes      |-> ns,
       max        |-> [q \in ns |-> IF q \in leaves THEN Cpu(1) ELSE <<>>],
       guaranteed |-> [q \in ns |-> <<>>],
       sas        |-> [q \in ns |-> IF q = home THEN {"sa"} ELSE {}],
       dflt       |-> {}]

mcDims == {"cpu"}
mcOnePod == {"p1"}
mcMoving == {TreeOf({A, B}, A), TreeOf({A, B}, B), TreeOf({B}, B), TreeOf({A}, NoLeaf)}
mcNoGangs == {}
mcNone == <<>>
mcFootprint == [p \in Pods |-> Cpu(1)]
mcRequests == [p \in Pods |-> {Cpu(1)}]
mcIdentity == [p \in Pods |-> [ns |-> "ns", sa |-> "sa"]]
mcPriorities == {0}
mcAllFaults == {"bindReplyLost", "watchGap", "nodeDeleted", "crash"}
mcApp == [p \in Pods |-> p]
mcMaxApps == [q \in Paths |-> 0]
mcNoLimits == [q \in Paths |-> {}]
mcLate == {"p1"}
=============================================================================
