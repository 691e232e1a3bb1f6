-------------------------- MODULE MCGangAdmission --------------------------
(***************************************************************************)
(* Gangs that compete for one leaf with a ceiling of 3.                    *)
(***************************************************************************)
EXTENDS GangAdmission

NS == <<"root", "ns">>
A == <<"root", "ns", "a">>
Cpu(n) == [d \in {"cpu"} |-> n]
Nodes == {RootPath, NS, A}

mcTree ==
  [nodes      |-> Nodes,
   max        |-> [q \in Nodes |-> IF q = A THEN Cpu(3) ELSE <<>>],
   guaranteed |-> [q \in Nodes |-> <<>>],
   sas        |-> [q \in Nodes |-> IF q = A THEN {"sa"} ELSE {}],
   dflt       |-> {}]

mcTrees == {mcTree}
mcDims == {"cpu"}
mcNoPods == {}
mcNone == <<>>
mcPriorities == {0}

\* In the order of their rank: two large gangs and two small ones.
Order == <<"old", "mid", "young", "baby">>
Rank(g) == CHOOSE n \in 1 .. 4 : Order[n] = g

mcCrowd == {"old", "mid", "young", "baby"}
mcMinRes == [g \in Gangs |-> CASE g = "old" -> Cpu(3) [] g = "mid" -> Cpu(2) [] OTHER -> Cpu(1)]
mcGangAge == [g \in Gangs |-> IF Rank(g) < 3 THEN 5 - Rank(g) ELSE 1]
mcGangUid == [g \in Gangs |-> Rank(g)]
mcLeafOf == [g \in Gangs |-> A]
mcSmall == {"young", "baby"}

mcThree == {"old", "mid", "young"}
mcOld == {"old"}
=============================================================================
