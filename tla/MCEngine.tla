------------------------------ MODULE MCEngine ------------------------------
(***************************************************************************)
(* A small cluster for Engine: one namespace with the leaf a, and two      *)
(* other configurations a rebuild may switch to and back from: one lowers  *)
(* the ceiling of a, one turns a into the parent of a new leaf c.          *)
(***************************************************************************)
EXTENDS Engine

A == <<"root", "ns", "a">>
C == <<"root", "ns", "a", "c">>

Cpu(n) == [d \in {"cpu"} |-> n]
Unlimited == <<>>

TreeOf(leaves, parents, limit) ==
  LET ns == {RootPath, <<"root", "ns">>} \cup leaves \cup parents
  IN  [nodes      |-> ns,
       max        |-> [q \in ns |-> IF q \in DOMAIN limit THEN limit[q] ELSE Unlimited],
       guaranteed |-> [q \in ns |-> Unlimited],
       sas        |-> [q \in ns |-> IF q \in leaves THEN {q[Len(q)]} ELSE {}],
       dflt       |-> {}]

Limit1 == [q \in {<<"root", "ns">>, A} |-> IF q = A THEN Cpu(2) ELSE Cpu(3)]
Limit2 == [q \in {<<"root", "ns">>, A} |-> IF q = A THEN Cpu(1) ELSE Cpu(3)]

mcTrees == { TreeOf({A}, {}, Limit1),
             TreeOf({A}, {}, Limit2),
             TreeOf({C}, {A}, Limit1) }
mcDims == {"cpu"}
mcPods == {"p1", "p2"}
mcGangs == {"g1", "g2"}
mcRequests == [p \in mcPods |-> IF p = "p1" THEN {Cpu(1), Cpu(2)} ELSE {Cpu(1)}]
mcMinRes == [g \in mcGangs |-> IF g = "g1" THEN Cpu(2) ELSE Cpu(1)]
mcPriorities == {0}
mcGangAge == [g \in mcGangs |-> 1]
mcGangUid == [g \in mcGangs |-> IF g = "g1" THEN 1 ELSE 2]
=============================================================================
