---------------------------- MODULE MCAlgorithms ----------------------------
(***************************************************************************)
(* Bounded inputs for the pure algorithms: pods of two containers and      *)
(* three init containers, or of three claims; three waiting entities; two  *)
(* nodes.  A behaviour is about one of the three.                          *)
(***************************************************************************)
EXTENDS PodRequests, Ordering, SequencesExt

mcDims == {"cpu", "mem"}
mcClasses == {"gpu", "fpga"}
V(c, m) == [d \in mcDims |-> IF d = "cpu" THEN c ELSE m]
Vectors == {V(1, 0), V(2, 1), V(0, 3)}

Exact(k, m, n) == [class |-> k, mode |-> m, count |-> n]
Exactly(x) == [first |-> FALSE, alts |-> <<x>>]
FirstOf(x, y) == [first |-> TRUE, alts |-> <<x, y>>]
Claim(s) == [kind |-> "spec", requests |-> s]
Unresolved(k) == [kind |-> k, requests |-> <<>>]

Claims ==
  {Unresolved("missing"), Unresolved("none"), Claim(<<>>),
   Claim(<<Exactly(Exact("gpu", "ExactCount", 0))>>),
   Claim(<<Exactly(Exact("gpu", "ExactCount", 2)), Exactly(Exact("fpga", "ExactCount", 1))>>),
   Claim(<<Exactly(Exact(Unnamed, "ExactCount", 1))>>),
   Claim(<<Exactly(Exact("gpu", "All", 0))>>),
   Claim(<<FirstOf(Exact("fpga", "ExactCount", 1), Exact("gpu", "ExactCount", 2))>>),
   Claim(<<[first |-> FALSE, alts |-> <<>>]>>)}

Pod(cs, is, o, rcs) == [containers |-> cs, inits |-> is, overhead |-> o, claims |-> rcs]
EmptyPod == Pod(<<>>, <<>>, V(0, 0), <<>>)
mcPodSpecs ==
  {Pod(cs, is, o, <<>>) : cs \in SeqOf(Vectors, 2), o \in {V(0, 0), V(1, 1)},
                          is \in SeqOf([req : Vectors, always : BOOLEAN], 3)}
    \cup {Pod(<<>>, <<>>, V(0, 0), rcs) : rcs \in SeqOf(Claims, 3)}

mcUids == 1 .. 3
mcKeys == 0 .. 2

\* Nodes of different sizes, some without capacity on a dimension or without the
\* dimension, some of those with pods that run on it; the dra dimension of a request
\* is on no node.
mcResources == {"cpu", "mem", "dra"}
mcAsks == {[d \in {"cpu"} |-> 1], [d \in {"cpu", "dra"} |-> 1], [d \in {"mem", "dra"} |-> 2]}
Shape(a, b, u, v) == [alloc |-> V(a, b), used |-> V(u, v)]
mcNodeShapes == {Shape(a, b, u, v) : a \in {4, 7}, b \in {0, 5, 8}, u \in {0, 3}, v \in {0, 2}}
                  \cup {[alloc |-> [d \in {"cpu"} |-> n], used |-> <<>>] : n \in {1, 3}}
                  \cup {[alloc |-> [d \in {"cpu"} |-> 4], used |-> V(1, 2)]}

AlgorithmsInit == RequestsInit /\ OrderingInit

AlgorithmsNext ==
  \/ RequestsNext /\ OrderingInit /\ UNCHANGED <<waiting, nodes>>
  \/ OrderingNext /\ pod = EmptyPod /\ failClosed /\ pc = "containers" /\ UNCHANGED vars

AlgorithmsSpec == AlgorithmsInit /\ [][AlgorithmsNext]_<<vars, waiting, nodes>>
=============================================================================
