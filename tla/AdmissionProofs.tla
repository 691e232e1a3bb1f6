-------------------------- MODULE AdmissionProofs --------------------------
(***************************************************************************)
(* What the scheduling cycle admits, for any pods, gangs, dimensions and   *)
(* trees: what is reserved exceeds a max by one pod at most, and what the  *)
(* accounts of a limit run is within it, each inductive together with CInv *)
(* of CapacityCycleProofs.                                                 *)
(***************************************************************************)
EXTENDS CapacityCycleProofs

\* A leaf is for Zenon unless it names another prover: arithmetic is for SMT.
USE ZenonT(30)

-----------------------------------------------------------------------------
(* The overshoot.  Its inductive invariant says why overshoots do not pile *)
(* up: one pod at a time is between PreFilter and Reserve, and the queues  *)
(* it will charge are still within max, because a gang that got in between *)
(* had to fit as well.                                                     *)

OneFiltered == \A p, o \in Pods : (phase[p] = "filtered" /\ phase[o] = "filtered") => p = o

FilteredFits ==
  \A p \in Pods : phase[p] = "filtered" =>
    \A q \in WalkUp(leafOf[p]) : \A d \in DOMAIN tree.max[q] :
      Footprint[p][d] > 0 => Used[q][d] <= tree.max[q][d]

OInv == CInv /\ OneFiltered /\ FilteredFits /\ BoundedOvershoot

\* The excess of queue q is one pod's.
Offends(p, q, d) ==
  /\ phase[p] \in {"assumed", "failing"}
  /\ q \in WalkUp(leafOf[p])
  /\ Used[q][d] - Footprint[p][d] <= tree.max[q][d]

\* A queue on the path of a leaf is a queue of the tree.
LEMMA PathInTree ==
  ASSUME NEW t \in Trees, NEW leaf, Bookable(t, leaf), NEW q \in WalkUp(leaf)
  PROVE  q \in t.nodes
BY TreeAssumption DEF Bookable

\* All the numbers of a bounded dimension, before and after a step.
LEMMA Numbers ==
  ASSUME CInv, CInv', NEW q \in tree.nodes, NEW d \in DOMAIN tree.max[q]
  PROVE  /\ q \in Paths /\ d \in Dims /\ tree.max[q][d] \in Nat
         /\ Used[q][d] \in Int /\ Used'[q][d] \in Int
         /\ \A p \in Pods : Footprint[p][d] \in Nat
<1>1. q \in Paths /\ d \in Dims /\ tree.max[q][d] \in Nat
  BY BoundedDim DEF CInv
<1>2. Used[q][d] \in Int
  BY <1>1, UsedAt DEF CInv
<1>3. Used'[q][d] \in Int
  BY SMT, <1>1 DEF CInv, IInv, TypeOK, Used, Plus
<1>4. \A p \in Pods : Footprint[p][d] \in Nat
  BY <1>1, CycleFacts DEF Vec
<1> QED BY <1>1, <1>2, <1>3, <1>4

\* A step on the booking of one pod moves usage by the change of its share.
LEMMA UsedMoves ==
  ASSUME IInv, IInv', NEW p \in Pods, UNCHANGED <<tree, held, gangBook>>,
         \A o \in Pods \ {p} : book'[o] = book[o], NEW q \in Paths, NEW d \in Dims
  PROVE  /\ Used'[q][d] = Used[q][d] - Share(tree, book[p], q, d) + Share(tree, book'[p], q, d)
         /\ Share(tree, book[p], q, d) \in Nat /\ Share(tree, book'[p], q, d) \in Nat
         /\ Used[q][d] \in Int
<1>1. book \in Books /\ book' \in Books
  BY UsedIsSharesNext DEF IInv, TypeOK, Books
<1>2. ASSUME NEW bk2 \in Books, \A o \in Pods \ {p} : bk2[o] = book[o]
      PROVE  /\ Shares(tree, bk2, q, d)
                  = Shares(tree, book, q, d) - Share(tree, book[p], q, d) + Share(tree, bk2[p], q, d)
             /\ Share(tree, bk2[p], q, d) \in Nat
  <2>1. bk2[p] \in BookRec \cup {NoBook}
    BY <1>2 DEF Books
  <2> QED BY SMT, <1>1, <1>2, <2>1, SharesUpdate, ShareIsCharge
<1>3. /\ Shares(tree, book', q, d)
           = Shares(tree, book, q, d) - Share(tree, book[p], q, d) + Share(tree, book'[p], q, d)
      /\ Share(tree, book'[p], q, d) \in Nat
  BY <1>1, <1>2
<1>4. Share(tree, book[p], q, d) \in Nat
  BY <1>1, ShareIsCharge DEF Books
<1>5. /\ Used[q][d] = Shares(tree, book, q, d) + ChargedGangs(held, gangBook, q, d)
      /\ Used'[q][d] = Shares(tree, book', q, d) + ChargedGangs(held, gangBook, q, d)
  BY UsedIsShares, UsedIsSharesNext
<1>6. Shares(tree, book, q, d) \in Nat /\ ChargedGangs(held, gangBook, q, d) \in Nat
  BY <1>1, SharesAreCharges, ChargedGangsType
<1> QED BY SMT, <1>3, <1>4, <1>5, <1>6

\* The invariant at one queue is kept by a step that adds nothing to it, starts
\* no attempt there and ends none.
LEMMA NothingAdded ==
  ASSUME OInv, CInv', tree' = tree,
         \A q \in tree.nodes : \A d \in DOMAIN tree.max[q] : Used'[q][d] <= Used[q][d],
         \A p \in Pods : phase'[p] = "filtered" => phase[p] = "filtered" /\ leafOf'[p] = leafOf[p],
         \A p \in Pods : phase[p] \in {"assumed", "failing"}
                           => phase'[p] \in {"assumed", "failing"} /\ leafOf'[p] = leafOf[p]
  PROVE  OInv'
<1>1. OneFiltered'
  BY DEF OInv, OneFiltered
<1>2. FilteredFits'
  <2> SUFFICES ASSUME NEW p \in Pods, phase'[p] = "filtered", NEW q \in WalkUp(leafOf'[p]),
                      NEW d \in DOMAIN tree.max[q], Footprint[p][d] > 0
               PROVE  Used'[q][d] <= tree.max[q][d]
    BY DEF FilteredFits
  <2>1. q \in tree.nodes
    BY CycleFacts, PathInTree DEF OInv
  <2>2. Used[q][d] <= tree.max[q][d]
    BY DEF OInv, FilteredFits
  <2> QED BY SMT, <2>1, <2>2, Numbers DEF OInv
<1>3. BoundedOvershoot'
  <2> SUFFICES ASSUME NEW q \in tree.nodes, NEW d \in DOMAIN tree.max[q]
               PROVE  Used'[q][d] <= tree.max[q][d] \/ \E p \in Pods : Offends(p, q, d)'
    BY DEF BoundedOvershoot, Offends
  <2>1. Used[q][d] <= tree.max[q][d] \/ \E p \in Pods : Offends(p, q, d)
    BY DEF OInv, BoundedOvershoot, Offends
  <2>2. ASSUME NEW p \in Pods, Offends(p, q, d) PROVE Offends(p, q, d)'
    BY SMT, <2>2, Numbers DEF OInv, Offends
  <2> QED BY SMT, <2>1, <2>2, Numbers DEF OInv
<1> QED BY <1>1, <1>2, <1>3 DEF OInv

\* A booking as scheduled has the pod's footprint as its share of the queues on
\* its path, and nothing elsewhere; no booking, no share.
LEMMA BookedShare ==
  ASSUME CInv, NEW p \in Pods, NEW q, NEW d
  PROVE  /\ Booked(p) => Share(tree, book[p], q, d)
                           = IF q \in WalkUp(leafOf[p]) THEN Footprint[p][d] ELSE 0
         /\ book[p] = NoBook => Share(tree, book[p], q, d) = 0
<1>1. Booked(p) => book[p] # NoBook
  BY SMT DEF Booked, BookRec, NoBook
<1> QED BY <1>1 DEF Booked, Share

\* The same after a step.
LEMMA BookedShareNext ==
  ASSUME CInv', NEW p \in Pods, NEW q, NEW d
  PROVE  /\ Booked(p)' => Share(tree', book'[p], q, d)
                            = IF q \in WalkUp(leafOf'[p]) THEN Footprint[p][d] ELSE 0
         /\ book'[p] = NoBook => Share(tree', book'[p], q, d) = 0
<1>1. Booked(p)' => book'[p] # NoBook
  BY SMT DEF Booked, BookRec, NoBook
<1> QED BY <1>1 DEF Booked, Share

\* The steps that leave the engine alone, but for PreFilter and PreBind.
LEMMA QuietStep ==
  ASSUME OInv, CInv', NEW p \in Pods,
         \/ NoNodeFits(p) \/ Dequeue(p) \/ OtherPluginRejects(p) \/ Bind(p) \/ BindFails(p)
         \/ ClusterStep(p)
  PROVE  OInv'
<1>1. UNCHANGED <<engineVars, leafOf>>
  BY DEF NoNodeFits, Dequeue, OtherPluginRejects, Bind, BindFails, ClusterStep, Create, PodEnds
<1>2. tree' = tree /\ Used' = Used
  BY <1>1 DEF engineVars, Used
<1>3. \/ phase' = phase
      \/ phase[p] \in {"absent", "filtered"} /\ To(p, "queued")
      \/ phase[p] = "queued" /\ To(p, "done")
      \/ phase[p] \in {"assumed", "binding"} /\ To(p, "failing")
      \/ phase[p] = "binding" /\ To(p, "postbind")
  BY DEF NoNodeFits, Dequeue, OtherPluginRejects, Bind, BindFails, ClusterStep, Create, PodEnds
<1>4. phase \in [Pods -> Phases]
  BY CycleFacts DEF OInv
<1>5. ASSUME NEW o \in Pods
      PROVE  /\ phase'[o] = "filtered" => phase[o] = "filtered"
             /\ phase[o] \in {"assumed", "failing"} => phase'[o] \in {"assumed", "failing"}
  BY <1>3, <1>4 DEF To
<1>6. \A q \in tree.nodes : \A d \in DOMAIN tree.max[q] : Used'[q][d] <= Used[q][d]
  BY SMT, <1>2, Numbers DEF OInv
<1> QED BY <1>1, <1>2, <1>5, <1>6, NothingAdded

\* PreFilter checks that the queues the pod will charge have room for it.
LEMMA PreFilterOvershoot ==
  ASSUME OInv, CInv', NEW p \in Pods, PreFilter(p)
  PROVE  OInv'
<1> DEFINE leaf == Resolve(tree, Identity[p])
<1>1. /\ UNCHANGED engineVars /\ phase[p] = "queued" /\ CanFit(tree, Used, leaf, Footprint[p])
      /\ \A o \in Pods : phase[o] # "filtered"
      /\ phase' = [phase EXCEPT ![p] = "filtered"] /\ leafOf' = [leafOf EXCEPT ![p] = leaf]
  BY DEF PreFilter, To
<1>2. tree' = tree /\ Used' = Used
  BY <1>1 DEF engineVars, Used
<1>3. /\ phase'[p] = "filtered" /\ leafOf'[p] = leaf
      /\ \A o \in Pods \ {p} : phase'[o] = phase[o] /\ leafOf'[o] = leafOf[o]
  BY <1>1, CycleFacts DEF OInv
<1> HIDE DEF leaf
<1>4. OneFiltered'
  BY <1>1, <1>3 DEF OneFiltered
<1>5. FilteredFits'
  <2> SUFFICES ASSUME NEW o \in Pods, phase'[o] = "filtered", NEW q \in WalkUp(leafOf'[o]),
                      NEW d \in DOMAIN tree.max[q], Footprint[o][d] > 0
               PROVE  Used[q][d] <= tree.max[q][d]
    BY <1>2 DEF FilteredFits
  <2>1. o = p /\ q \in WalkUp(leaf)
    BY <1>1, <1>3
  <2>2. Used[q][d] + Footprint[p][d] <= tree.max[q][d]
    BY <1>1, <2>1 DEF CanFit
  <2>3. q \in tree.nodes
    <3>1. Bookable(tree, leafOf'[p]) /\ tree \in Trees
      BY <1>2, <1>3 DEF CInv, CycleTypeOK, OInv
    <3> QED BY <1>3, <2>1, <3>1, PathInTree
  <2> QED BY SMT, <2>1, <2>2, <2>3, Numbers DEF OInv
<1>6. BoundedOvershoot'
  <2> SUFFICES ASSUME NEW q \in tree.nodes, NEW d \in DOMAIN tree.max[q]
               PROVE  Used'[q][d] <= tree.max[q][d] \/ \E o \in Pods : Offends(o, q, d)'
    BY <1>2 DEF BoundedOvershoot, Offends
  <2>1. Used[q][d] <= tree.max[q][d] \/ \E o \in Pods : Offends(o, q, d)
    BY DEF OInv, BoundedOvershoot, Offends
  <2>2. ASSUME NEW o \in Pods, Offends(o, q, d) PROVE Offends(o, q, d)'
    BY <1>1, <1>2, <1>3, <2>2 DEF Offends
  <2> QED BY <1>2, <2>1, <2>2
<1> QED BY <1>4, <1>5, <1>6 DEF OInv

\* Reserve may put queues over max, each by this pod alone: the queues it adds
\* to were within max before.
LEMMA ReserveOvershoot ==
  ASSUME OInv, CInv', NEW p \in Pods, ReservePlugin(p)
  PROVE  OInv'
<1>1. /\ phase[p] = "filtered" /\ book[p] = NoBook /\ Bookable(tree, leafOf[p])
      /\ phase' = [phase EXCEPT ![p] = "assumed"] /\ leafOf' = leafOf
      /\ Reserve(p, leafOf[p], Footprint[p])
  BY CycleFacts DEF OInv, ReservePlugin, To, PodInv
<1>2. /\ UNCHANGED <<tree, held, gangBook>>
      /\ book' = [book EXCEPT ![p] = [state |-> "reserved", leaf |-> leafOf[p], req |-> Footprint[p]]]
  BY <1>1 DEF Reserve
<1>3. phase'[p] = "assumed" /\ \A o \in Pods \ {p} : phase'[o] = phase[o] /\ book'[o] = book[o]
  BY <1>1, <1>2, CycleFacts DEF OInv, Books
<1>4. \A o \in Pods : phase'[o] # "filtered"
  BY <1>1, <1>3 DEF OInv, OneFiltered
<1>5. Booked(p)'
  BY <1>3 DEF CInv, PodInv
<1>6. ASSUME NEW q \in Paths, NEW d \in Dims
      PROVE  Used'[q][d] = Used[q][d] + (IF q \in WalkUp(leafOf[p]) THEN Footprint[p][d] ELSE 0)
  <2>1. IInv /\ IInv'
    BY DEF OInv, CInv
  <2>2. /\ Used'[q][d] = Used[q][d] - Share(tree, book[p], q, d) + Share(tree, book'[p], q, d)
        /\ Share(tree, book'[p], q, d) \in Nat /\ Used[q][d] \in Int
    BY <1>2, <1>3, <2>1, UsedMoves
  <2>3. Share(tree, book[p], q, d) = 0
    BY <1>1, BookedShare DEF OInv
  <2>4. Share(tree, book'[p], q, d) = IF q \in WalkUp(leafOf[p]) THEN Footprint[p][d] ELSE 0
    BY SMT, <1>1, <1>2, <1>5, BookedShareNext
  <2> QED BY SMT, <2>2, <2>3, <2>4
<1>7. OneFiltered' /\ FilteredFits'
  BY <1>4 DEF OneFiltered, FilteredFits
<1>8. BoundedOvershoot'
  <2> SUFFICES ASSUME NEW q \in tree.nodes, NEW d \in DOMAIN tree.max[q]
               PROVE  Used'[q][d] <= tree.max[q][d] \/ \E o \in Pods : Offends(o, q, d)'
    BY <1>2 DEF BoundedOvershoot, Offends
  <2>0. /\ q \in Paths /\ d \in Dims /\ tree.max[q][d] \in Nat
        /\ Used[q][d] \in Int /\ Used'[q][d] \in Int /\ Footprint[p][d] \in Nat
    BY Numbers DEF OInv
  <2>1. CASE q \in WalkUp(leafOf[p]) /\ Footprint[p][d] > 0
    <3>1. Used[q][d] <= tree.max[q][d]
      BY <1>1, <2>1 DEF OInv, FilteredFits
    <3>2. Used'[q][d] - Footprint[p][d] <= tree.max[q][d]
      BY SMT, <1>6, <2>0, <2>1, <3>1
    <3> QED BY <1>1, <1>2, <1>3, <2>1, <3>2 DEF Offends
  <2>2. CASE ~(q \in WalkUp(leafOf[p]) /\ Footprint[p][d] > 0)
    <3>1. Used'[q][d] = Used[q][d]
      BY SMT, <1>6, <2>0, <2>2
    <3>2. Used[q][d] <= tree.max[q][d] \/ \E o \in Pods : Offends(o, q, d)
      BY DEF OInv, BoundedOvershoot, Offends
    <3>3. ASSUME NEW o \in Pods, Offends(o, q, d) PROVE Offends(o, q, d)'
      BY <1>1, <1>2, <1>3, <3>1, <3>3 DEF Offends
    <3> QED BY <3>1, <3>2, <3>3
  <2> QED BY <2>1, <2>2
<1> QED BY <1>7, <1>8 DEF OInv

\* PreBind lets a pod through only if every queue on its path is within max, so
\* a pod that accounts for an excess stays turned down.
LEMMA PreBindOvershoot ==
  ASSUME OInv, CInv', NEW p \in Pods, PreBind(p)
  PROVE  OInv'
<1>1. /\ UNCHANGED engineVars /\ leafOf' = leafOf /\ phase[p] = "assumed"
      /\ \/ phase' = [phase EXCEPT ![p] = "failing"]
         \/ phase' = [phase EXCEPT ![p] = "binding"] /\ WithinMax(tree, Used, leafOf[p])
  BY DEF PreBind, To
<1>2. tree' = tree /\ Used' = Used
  BY <1>1 DEF engineVars, Used
<1>3. /\ \A o \in Pods \ {p} : phase'[o] = phase[o]
      /\ \/ phase'[p] = "failing"
         \/ phase'[p] = "binding" /\ WithinMax(tree, Used, leafOf[p])
  BY <1>1, CycleFacts DEF OInv
<1>4. OneFiltered' /\ FilteredFits'
  BY SMT, <1>1, <1>2, <1>3 DEF OInv, OneFiltered, FilteredFits
<1>5. BoundedOvershoot'
  <2> SUFFICES ASSUME NEW q \in tree.nodes, NEW d \in DOMAIN tree.max[q]
               PROVE  Used[q][d] <= tree.max[q][d] \/ \E o \in Pods : Offends(o, q, d)'
    BY <1>2 DEF BoundedOvershoot, Offends
  <2>1. Used[q][d] <= tree.max[q][d] \/ \E o \in Pods : Offends(o, q, d)
    BY DEF OInv, BoundedOvershoot, Offends
  <2>2. ASSUME NEW o \in Pods, Offends(o, q, d)
        PROVE  Used[q][d] <= tree.max[q][d] \/ Offends(o, q, d)'
    BY <1>1, <1>2, <1>3, <2>2 DEF Offends, WithinMax
  <2> QED BY <2>1, <2>2
<1> QED BY <1>4, <1>5 DEF OInv

\* Unreserve takes the pod's share back: what it alone put over max is within it.
LEMMA UnreserveOvershoot ==
  ASSUME OInv, CInv', NEW p \in Pods, UnreservePlugin(p)
  PROVE  OInv'
<1>1. /\ phase[p] = "failing" /\ Booked(p) /\ book[p].state = "reserved"
      /\ phase' = [phase EXCEPT ![p] = "queued"] /\ leafOf' = leafOf /\ Unreserve(p)
  BY CycleFacts DEF OInv, UnreservePlugin, To, PodInv
<1>2. UNCHANGED <<tree, held, gangBook>> /\ book' = [book EXCEPT ![p] = NoBook]
  BY <1>1 DEF Unreserve
<1>3. /\ phase'[p] = "queued" /\ book'[p] = NoBook
      /\ \A o \in Pods \ {p} : phase'[o] = phase[o] /\ book'[o] = book[o]
  BY <1>1, <1>2, CycleFacts DEF OInv, Books
<1>4. ASSUME NEW q \in Paths, NEW d \in Dims
      PROVE  Used'[q][d] = Used[q][d] - (IF q \in WalkUp(leafOf[p]) THEN Footprint[p][d] ELSE 0)
  <2>1. IInv /\ IInv'
    BY DEF OInv, CInv
  <2>2. /\ Used'[q][d] = Used[q][d] - Share(tree, book[p], q, d) + Share(tree, book'[p], q, d)
        /\ Share(tree, book[p], q, d) \in Nat /\ Used[q][d] \in Int
    BY <1>2, <1>3, <2>1, UsedMoves
  <2>3. Share(tree, book'[p], q, d) = 0
    BY <1>2, <1>3, BookedShareNext
  <2>4. Share(tree, book[p], q, d) = IF q \in WalkUp(leafOf[p]) THEN Footprint[p][d] ELSE 0
    BY <1>1, BookedShare DEF OInv
  <2> QED BY SMTT(30), <2>2, <2>3, <2>4
<1>5. ASSUME NEW q \in tree.nodes, NEW d \in DOMAIN tree.max[q] PROVE Used'[q][d] <= Used[q][d]
  BY SMT, <1>4, Numbers DEF OInv
<1>6. OneFiltered'
  BY <1>3 DEF OInv, OneFiltered
<1>7. FilteredFits'
  <2> SUFFICES ASSUME NEW o \in Pods, phase[o] = "filtered", NEW q \in WalkUp(leafOf[o]),
                      NEW d \in DOMAIN tree.max[q], Footprint[o][d] > 0
               PROVE  Used'[q][d] <= tree.max[q][d]
    BY SMT, <1>1, <1>2, <1>3 DEF FilteredFits
  <2>1. q \in tree.nodes
    BY CycleFacts, PathInTree DEF OInv
  <2>2. Used[q][d] <= tree.max[q][d]
    BY DEF OInv, FilteredFits
  <2> QED BY SMT, <1>5, <2>1, <2>2, Numbers DEF OInv
<1>8. BoundedOvershoot'
  <2> SUFFICES ASSUME NEW q \in tree.nodes, NEW d \in DOMAIN tree.max[q]
               PROVE  Used'[q][d] <= tree.max[q][d] \/ \E o \in Pods : Offends(o, q, d)'
    BY <1>2 DEF BoundedOvershoot, Offends
  <2>0. /\ q \in Paths /\ d \in Dims /\ tree.max[q][d] \in Nat
        /\ Used[q][d] \in Int /\ Used'[q][d] \in Int /\ \A o \in Pods : Footprint[o][d] \in Nat
    BY Numbers DEF OInv
  <2>1. Used[q][d] <= tree.max[q][d] \/ \E o \in Pods : Offends(o, q, d)
    BY DEF OInv, BoundedOvershoot, Offends
  <2>2. CASE Offends(p, q, d)
    BY <1>4, <2>0, <2>2 DEF Offends
  <2>3. ASSUME NEW o \in Pods \ {p}, Offends(o, q, d) PROVE Offends(o, q, d)'
    <3>1. Used'[q][d] - Footprint[o][d] <= tree.max[q][d]
      BY SMT, <1>5, <2>0, <2>3 DEF Offends
    <3> QED BY <1>1, <1>2, <1>3, <2>3, <3>1 DEF Offends
  <2> QED BY SMTT(30), <1>5, <2>0, <2>1, <2>2, <2>3
<1> QED BY <1>6, <1>7, <1>8 DEF OInv

\* Confirming a bind leaves usage as it is, and the end of a pod frees some.
LEMMA ConfirmOvershoot ==
  ASSUME OInv, CInv', NEW p \in Pods, PostBind(p) \/ InformerStep(p)
  PROVE  OInv'
<1>1. /\ UNCHANGED <<tree, held, gangBook, leafOf>>
      /\ phase' = phase \/ (phase[p] = "postbind" /\ phase' = [phase EXCEPT ![p] = "done"])
  BY DEF PostBind, InformerStep, OnPodUpsert, OnPodDelete, Commit, ObserveBound, ObserveDeleted,
         engineVars, To
<1>2. /\ \A o \in Pods \ {p} : book'[o] = book[o]
      /\ \/ book'[p] = NoBook
         \/ book'[p] = book[p]
         \/ book[p] \in BookRec /\ book'[p] \in BookRec
            /\ book'[p].leaf = book[p].leaf /\ book'[p].req = book[p].req
  <2>1. CASE book' = book \/ book' = [book EXCEPT ![p] = NoBook]
    BY <2>1, CycleFacts DEF OInv, Books
  <2>2. CASE book' = [book EXCEPT ![p].state = "committed"] /\ book[p].state = "reserved"
    <3>1. IInv /\ book[p] \in BookRec
      BY <2>2, PodFacts DEF OInv, CInv
    <3> QED BY <2>2, <3>1, ConfirmedBook
  <2>3. CASE PostBind(p)
    BY <2>1, <2>2, <2>3 DEF PostBind, Commit, Confirm
  <2>4. CASE OnPodUpsert(p)
    <3>1. book[p] # NoBook
      BY SMT, <2>4, CycleFacts DEF OInv, OnPodUpsert, PodInv, Bound, Booked, BookRec, NoBook
    <3> QED BY <2>1, <2>2, <2>4, <3>1 DEF OnPodUpsert, ObserveBound, Confirm, engineVars
  <2>5. CASE OnPodDelete(p)
    BY <2>1, <2>5 DEF OnPodDelete, ObserveDeleted, engineVars
  <2> QED BY <2>3, <2>4, <2>5 DEF InformerStep
<1>3. ASSUME NEW q \in Paths, NEW d \in Dims PROVE Used'[q][d] <= Used[q][d]
  <2>1. IInv /\ IInv'
    BY DEF OInv, CInv
  <2>2. /\ Used'[q][d] = Used[q][d] - Share(tree, book[p], q, d) + Share(tree, book'[p], q, d)
        /\ Share(tree, book[p], q, d) \in Nat /\ Used[q][d] \in Int
    BY <1>1, <1>2, <2>1, UsedMoves
  <2>3. Share(tree, book'[p], q, d) \in {0, Share(tree, book[p], q, d)}
    <3>1. \A rec \in BookRec : rec # NoBook
      BY SMT DEF BookRec, NoBook
    <3> QED BY <1>2, <3>1 DEF Share
  <2> QED BY SMT, <2>2, <2>3
<1>4. \A q \in tree.nodes : \A d \in DOMAIN tree.max[q] : Used'[q][d] <= Used[q][d]
  BY <1>3, Numbers DEF OInv
<1>5. phase \in [Pods -> Phases]
  BY CycleFacts DEF OInv
<1>6. ASSUME NEW o \in Pods
      PROVE  /\ phase'[o] = "filtered" => phase[o] = "filtered"
             /\ phase[o] \in {"assumed", "failing"} => phase'[o] \in {"assumed", "failing"}
  BY <1>1, <1>5
<1> QED BY <1>1, <1>4, <1>6, NothingAdded

\* A gang that is admitted fits, in every dimension it asks for, under the max
\* of every queue it is charged to: those are within max afterwards.
LEMMA HoldOvershoot ==
  ASSUME OInv, CInv', NEW g \in Gangs, NEW leaf \in Paths, Hold(g, leaf), UNCHANGED cycleVars
  PROVE  OInv'
<1>1. /\ UNCHANGED <<tree, phase, leafOf>>
      /\ allocated' = allocated /\ allocating' = RollUp(allocating, leaf, MinRes[g])
      /\ CanFit(tree, Used, leaf, MinRes[g])
  BY DEF Hold, cycleVars
<1>2. ASSUME NEW q \in tree.nodes, NEW d \in DOMAIN tree.max[q]
      PROVE  Used'[q][d] <= tree.max[q][d] \/ Used'[q][d] = Used[q][d]
  <2>1. /\ q \in Paths /\ d \in Dims /\ MinRes[g] \in Vec /\ MinRes[g][d] \in Nat
        /\ Used[q][d] \in Int /\ allocating \in Usage
    BY Numbers, LedgerAssumption, PodFacts DEF OInv, CInv, Vec, IInv, TypeOK, Usage
  <2>2. Used[q][d] = allocated[q][d] + allocating[q][d]
    BY <2>1 DEF Used, Plus
  <2>3. Used'[q][d] = allocated[q][d] + RollUp(allocating, leaf, MinRes[g])[q][d]
    BY <1>1, <2>1 DEF Used, Plus
  <2>4. RollUp(allocating, leaf, MinRes[g])[q][d]
          = allocating[q][d] + (IF q \in WalkUp(leaf) THEN MinRes[g][d] ELSE 0)
    BY SMTT(30), <2>1, RollUpAt
  <2>5. allocated[q][d] \in Int /\ allocating[q][d] \in Int
    BY <2>1, UsedAt DEF OInv, CInv
  <2>6. CASE q \in WalkUp(leaf) /\ MinRes[g][d] > 0
    <3>1. Used[q][d] + MinRes[g][d] <= tree.max[q][d]
      BY <1>1, <2>6 DEF CanFit
    <3> QED BY SMTT(30), <2>1, <2>2, <2>3, <2>4, <2>5, <2>6, <3>1
  <2>7. CASE ~(q \in WalkUp(leaf) /\ MinRes[g][d] > 0)
    BY SMTT(30), <2>1, <2>2, <2>3, <2>4, <2>5, <2>7
  <2> QED BY <2>6, <2>7
<1>3. OneFiltered'
  BY <1>1 DEF OInv, OneFiltered
<1>4. FilteredFits'
  <2> SUFFICES ASSUME NEW o \in Pods, phase[o] = "filtered", NEW q \in WalkUp(leafOf[o]),
                      NEW d \in DOMAIN tree.max[q], Footprint[o][d] > 0
               PROVE  Used'[q][d] <= tree.max[q][d]
    BY <1>1 DEF FilteredFits
  <2>1. q \in tree.nodes
    BY CycleFacts, PathInTree DEF OInv
  <2>2. Used[q][d] <= tree.max[q][d]
    BY DEF OInv, FilteredFits
  <2> QED BY <1>2, <2>1, <2>2
<1>5. BoundedOvershoot'
  <2> SUFFICES ASSUME NEW q \in tree.nodes, NEW d \in DOMAIN tree.max[q], ~(Used'[q][d] <= tree.max[q][d])
               PROVE  \E o \in Pods : Offends(o, q, d)'
    BY <1>1 DEF BoundedOvershoot, Offends
  <2>1. Used'[q][d] = Used[q][d]
    BY <1>2
  <2>2. PICK o \in Pods : Offends(o, q, d)
    BY <2>1 DEF OInv, BoundedOvershoot, Offends
  <2>3. Offends(o, q, d)'
    BY <1>1, <2>1, <2>2 DEF Offends
  <2> QED BY <2>3
<1> QED BY <1>3, <1>4, <1>5 DEF OInv

\* A step of a gang keeps the invariant.
LEMMA GangStepOvershoot ==
  ASSUME OInv, CInv', NEW g \in Gangs, GangStep(g)
  PROVE  OInv'
<1>1. UNCHANGED cycleVars /\ GangQueue[g] \in Paths
  BY CycleAssumption DEF GangStep
<1>2. ASSUME tree' = tree, \A q \in Paths, d \in Dims : Used'[q][d] <= Used[q][d] PROVE OInv'
  <2>1. \A q \in tree.nodes : \A d \in DOMAIN tree.max[q] : Used'[q][d] <= Used[q][d]
    BY <1>2, Numbers DEF OInv
  <2>2. phase' = phase /\ leafOf' = leafOf
    BY <1>1 DEF cycleVars
  <2> QED BY <1>2, <2>1, <2>2, NothingAdded
<1>3. ASSUME ReleaseGang(g) PROVE OInv'
  <2>1. ASSUME NEW q \in Paths, NEW d \in Dims PROVE Used'[q][d] <= Used[q][d]
    <3>1. /\ Used[q][d] = allocated[q][d] + allocating[q][d]
          /\ allocated[q][d] \in Int /\ allocating[q][d] \in Int
      BY UsedAt DEF OInv, CInv
    <3>2. Used'[q][d] = allocated'[q][d] + allocating'[q][d]
      BY DEF Used, Plus
    <3>3. /\ allocated' = allocated
          /\ allocating'[q][d] = allocating[q][d] - ChargedGangs({g} \cap held, gangBook, q, d)
      BY <1>3 DEF ReleaseGang, ReleaseGangs
    <3>4. ChargedGangs({g} \cap held, gangBook, q, d) \in Nat
      BY ChargedGangsType
    <3> QED BY SMTT(30), <3>1, <3>2, <3>3, <3>4
  <2> QED BY <1>2, <1>3, <2>1 DEF ReleaseGang, ReleaseGangs
<1>4. ASSUME UNCHANGED treeVars PROVE OInv'
  <2>1. tree' = tree /\ Used' = Used
    BY <1>4 DEF treeVars, Used
  <2>2. \A q \in Paths, d \in Dims : Used[q][d] \in Int
    BY UsedAt DEF OInv, CInv
  <2> QED BY SMT, <1>2, <2>1, <2>2
<1> QED BY <1>1, <1>3, <1>4, HoldOvershoot
        DEF GangStep, AdmitGangWW, YieldToBid, RefuseGang, EnterGang, ClaimBid

\* Every step of the cycle keeps the invariant of the overshoot.
LEMMA NextOvershoot ==
  ASSUME OInv, CInv', [CycleNext]_vars
  PROVE  OInv'
<1>1. CASE UNCHANGED vars
  <2>1. UNCHANGED <<tree, phase, leafOf>> /\ Used' = Used
    BY <1>1 DEF vars, engineVars, cycleVars, Used
  <2>2. \A q \in tree.nodes : \A d \in DOMAIN tree.max[q] : Used'[q][d] <= Used[q][d]
    BY SMT, <2>1, Numbers DEF OInv
  <2> QED BY <2>1, <2>2, NothingAdded
<1>2. ASSUME NEW p \in Pods, SchedulingStep(p) \/ BindingStep(p) \/ InformerStep(p) \/ ClusterStep(p)
      PROVE  OInv'
  BY <1>2, QuietStep, PreFilterOvershoot, ReserveOvershoot, PreBindOvershoot, UnreserveOvershoot,
     ConfirmOvershoot DEF SchedulingStep, BindingStep
<1>3. ASSUME NEW g \in Gangs, GangStep(g) PROVE OInv'
  BY <1>3, GangStepOvershoot
<1> QED BY <1>1, <1>2, <1>3 DEF CycleNext

\* An overshoot is one pod's, whatever the interleaving: if a queue is over its
\* max, the reservation of a single pod that PreBind has not let through
\* accounts for the excess.
THEOREM BoundedOvershootHolds == CycleSpec => []BoundedOvershoot
<1>1. StartedInit => OInv
  <2> SUFFICES ASSUME StartedInit PROVE OInv
    OBVIOUS
  <2>1. CInv
    BY StartCInv
  <2>2. OneFiltered /\ FilteredFits
    BY DEF StartedInit, OneFiltered, FilteredFits
  <2>3. ASSUME NEW q \in tree.nodes, NEW d \in DOMAIN tree.max[q] PROVE Used[q][d] <= tree.max[q][d]
    <3>1. q \in Paths /\ d \in Dims /\ tree.max[q][d] \in Nat
      BY BoundedDim DEF StartedInit
    <3>2. Used[q][d] = 0
      BY SMT, <3>1 DEF StartedInit, Used, Plus, Zero
    <3> QED BY SMT, <3>1, <3>2
  <2> QED BY <2>1, <2>2, <2>3 DEF OInv, BoundedOvershoot
<1>2. OInv /\ [CycleNext]_vars => OInv'
  BY CycleNextCInv, NextOvershoot DEF OInv
<1>3. OInv => BoundedOvershoot
  BY DEF OInv
<1> QED BY <1>1, <1>2, <1>3, PTL DEF CycleSpec

-----------------------------------------------------------------------------
(* Per-account limits.  Whoever passes PreFilter has counted every pod of  *)
(* its group that has passed before and still exists, so the pods past the *)
(* gate are within the limit, however many more are created and wait.      *)

\* The pods of a limit's accounts on leaf q that exist and are past PreFilter.
Passed(q, sas) ==
  {o \in Present : phase[o] # "queued" /\ leafOf[o] = q /\ InSet(o, sas)}

Counted(limited, d) == Total([o \in limited |-> Observed[o][d]])

Restricts(max) == \E e \in DOMAIN max : max[e] # 0

LInv ==
  /\ CInv
  /\ \A p \in Present : phase[p] # "queued" => leafOf[p] = Resolve(tree, Identity[p])
  /\ \A q \in Paths : \A lim \in Limits[q] : Restricts(lim.max) =>
       \A d \in DOMAIN lim.max : Counted(Passed(q, lim.sas), d) <= lim.max[d]

\* A smaller group has counted less, and one more pod adds its request.
LEMMA CountedGroups ==
  ASSUME NEW H \in SUBSET Pods, NEW G \in SUBSET H, NEW d \in Dims
  PROVE  /\ Counted(G, d) \in Nat
         /\ Counted(G, d) <= Counted(H, d)
         /\ \A p \in Pods \ G : Counted(G \cup {p}, d) = Counted(G, d) + Observed[p][d]
<1> DEFINE W(S) == [o \in Pods |-> IF o \in S THEN Observed[o][d] ELSE 0]
<1>0. \A o \in Pods : Observed[o][d] \in Nat
  BY CycleAssumption, LedgerAssumption DEF Vec
<1>1. \A S \in SUBSET Pods : W(S) \in [Pods -> Nat]
  BY <1>0
<1>2. ASSUME NEW S \in SUBSET Pods PROVE Total(W(S)) = Counted(S, d)
  <2> DEFINE w == [o \in S |-> Observed[o][d]]
             v == W(S)
  <2>1. /\ w \in [S -> Nat] /\ v \in [Pods -> Nat]
        /\ \A o \in S : v[o] = w[o]
    BY <1>0
  <2>2. \A x \in Pods \ S : v[x] = 0
    OBVIOUS
  <2>3. Counted(S, d) = Total(w)
    BY DEF Counted
  <2> HIDE DEF w, v
  <2>4. Total(v) = Total(w)
    BY SMT, <2>1, <2>2, TotalRestrict
  <2> QED BY <2>3, <2>4 DEF v
<1>3. G \in SUBSET Pods
  OBVIOUS
<1>4. Total(W(G)) \in Nat
  BY <1>1, <1>3, TotalType, LedgerAssumption
<1>5. Total(W(G)) <= Total(W(H))
  <2> DEFINE v == W(G)
             w == W(H)
  <2>1. v \in [Pods -> Nat] /\ w \in [Pods -> Nat] /\ \A o \in Pods : v[o] <= w[o]
    BY SMT, <1>0
  <2> HIDE DEF v, w
  <2>2. Total(v) <= Total(w)
    BY <2>1, TotalMonotone, LedgerAssumption
  <2> QED BY <2>2 DEF v, w
<1>6. ASSUME NEW p \in Pods \ G PROVE Total(W(G \cup {p})) = Total(W(G)) + Observed[p][d]
  <2> DEFINE w == W(G)
             v == W(G \cup {p})
  <2>1. /\ v \in [Pods -> Nat] /\ w \in [Pods -> Nat] /\ \A o \in Pods \ {p} : v[o] = w[o]
        /\ w[p] = 0 /\ v[p] = Observed[p][d]
    BY <1>0
  <2> HIDE DEF v, w
  <2>2. Total(v) = Total(w) - w[p] + v[p] /\ Total(w) \in Nat /\ v[p] \in Nat
    BY SMTT(30), <2>1, TotalUpdate, TotalType, LedgerAssumption
  <2>3. Total(v) = Total(w) + Observed[p][d]
    BY SMT, <2>1, <2>2
  <2> QED BY <2>3 DEF v, w
<1> HIDE DEF W
<1> QED BY <1>2, <1>3, <1>4, <1>5, <1>6

\* A limit of a leaf of the tree bounds dimensions by numbers.
LEMMA LimitFacts ==
  ASSUME NEW q \in Paths, NEW lim \in Limits[q], NEW d \in DOMAIN lim.max
  PROVE  d \in Dims /\ lim.max[d] \in Nat
BY CycleAssumption DEF IsLimit

\* The invariant is kept by a step that takes nobody past PreFilter.
LEMMA NobodyPasses ==
  ASSUME LInv, CInv', tree' = tree,
         \A p \in Present' : phase'[p] # "queued" =>
            p \in Present /\ phase[p] # "queued" /\ leafOf'[p] = leafOf[p]
  PROVE  LInv'
<1>1. \A p \in Present' : phase'[p] # "queued" => leafOf'[p] = Resolve(tree', Identity[p])
  BY DEF LInv
<1>2. ASSUME NEW q \in Paths, NEW lim \in Limits[q], Restricts(lim.max), NEW d \in DOMAIN lim.max
      PROVE  Counted(Passed(q, lim.sas)', d) <= lim.max[d]
  <2> DEFINE H == Passed(q, lim.sas)
             G == Passed(q, lim.sas)'
  <2>1. Counted(H, d) <= lim.max[d]
    BY <1>2 DEF LInv
  <2>2. d \in Dims /\ lim.max[d] \in Nat
    BY <1>2, LimitFacts
  <2>3. H \in SUBSET Pods /\ G \in SUBSET H
    BY DEF Passed, Present, InSet
  <2> HIDE DEF H, G
  <2>4. Counted(G, d) <= Counted(H, d) /\ Counted(G, d) \in Nat
    BY <2>2, <2>3, CountedGroups
  <2>5. Counted(H, d) \in Nat
    BY <2>2, <2>3, CountedGroups
  <2>6. Counted(G, d) <= lim.max[d]
    BY SMT, <2>1, <2>2, <2>4, <2>5
  <2> QED BY <2>6 DEF G
<1>3. \A q \in Paths : \A lim \in Limits[q] : Restricts(lim.max) =>
        \A d \in DOMAIN lim.max : Counted(Passed(q, lim.sas)', d) <= lim.max[d]
  BY <1>2
<1> QED BY <1>1, <1>3 DEF LInv, Counted, Restricts

\* PreFilter counts the pods its store holds, at least those of the group that
\* are past it, and the pod itself with no less than the informer path sees.
LEMMA PreFilterCounts ==
  ASSUME LInv, CInv', NEW p \in Pods, PreFilter(p)
  PROVE  LInv'
<1> DEFINE leaf == Resolve(tree, Identity[p])
<1>1. PICK store \in Stores : WithinLimits(store, p, leaf)
  BY DEF PreFilter
<1>2. /\ UNCHANGED <<engineVars, node, seen>> /\ phase[p] = "queued"
      /\ phase' = [phase EXCEPT ![p] = "filtered"] /\ leafOf' = [leafOf EXCEPT ![p] = leaf]
  BY DEF PreFilter, To
<1> HIDE DEF leaf
<1>3. /\ phase'[p] = "filtered" /\ leafOf'[p] = leaf /\ tree' = tree
      /\ \A o \in Pods \ {p} : phase'[o] = phase[o] /\ leafOf'[o] = leafOf[o]
  BY <1>2, CycleFacts DEF LInv, engineVars
<1>4. Present' = Present /\ Present \subseteq store /\ store \in SUBSET Pods
  <2>1. \A o \in Pods : phase'[o] = "absent" <=> phase[o] = "absent"
    BY <1>2, <1>3
  <2> QED BY <1>2, <2>1 DEF Present, Stores, Lagging
<1>5. \A o \in Present' : phase'[o] # "queued" => leafOf'[o] = Resolve(tree', Identity[o])
  BY <1>3, <1>4 DEF LInv, Present, leaf
<1>6. ASSUME NEW q \in Paths, NEW lim \in Limits[q], Restricts(lim.max), NEW d \in DOMAIN lim.max
      PROVE  Counted(Passed(q, lim.sas)', d) <= lim.max[d]
  <2> DEFINE H == Passed(q, lim.sas)
             G == Passed(q, lim.sas)'
  <2>1. Counted(H, d) <= lim.max[d]
    BY <1>6 DEF LInv
  <2>2. d \in Dims /\ lim.max[d] \in Nat
    BY <1>6, LimitFacts
  <2>3. H \in SUBSET Pods /\ p \notin H /\ G \in SUBSET (H \cup {p})
    BY <1>2, <1>3, <1>4 DEF Passed, Present, InSet
  <2>4. CASE ~(q = leaf /\ InSet(p, lim.sas))
    <3>1. p \notin G
      BY <1>3, <2>4 DEF Passed, InSet
    <3>2. G \in SUBSET H
      BY <2>3, <3>1
    <3> HIDE DEF H, G
    <3>3. Counted(G, d) <= Counted(H, d) /\ Counted(G, d) \in Nat
      BY <2>2, <2>3, <3>2, CountedGroups
    <3>4. Counted(H, d) \in Nat
      BY <2>2, <2>3, CountedGroups
    <3>5. Counted(G, d) <= lim.max[d]
      BY SMT, <2>1, <2>2, <3>3, <3>4
    <3> QED BY <3>5 DEF G
  <2>5. CASE q = leaf /\ InSet(p, lim.sas)
    <3> DEFINE limited == LimitGroup(store, leaf, lim.sas, p)
    <3>1. Counted(limited, d) + Footprint[p][d] <= lim.max[d]
      BY <1>1, <1>6, <2>2, <2>5 DEF WithinLimits, FitInLimit, Restricts, Counted
    <3>2. limited \in SUBSET Pods /\ H \in SUBSET limited
      BY <1>2, <1>4, <2>5 DEF LInv, Passed, LimitGroup, OnLeaf
    <3> HIDE DEF limited, H, G
    <3>3. H \cup {p} \in SUBSET Pods /\ p \in Pods \ H
      BY <2>3
    <3>4. Counted(H, d) <= Counted(limited, d) /\ Counted(H, d) \in Nat
      BY <2>2, <3>2, CountedGroups
    <3>5. Counted(limited, d) \in Nat
      BY <2>2, <3>2, CountedGroups
    <3>6. Counted(H \cup {p}, d) = Counted(H, d) + Observed[p][d]
      BY <2>2, <3>2, <3>3, CountedGroups
    <3>7. Counted(G, d) <= Counted(H \cup {p}, d) /\ Counted(G, d) \in Nat
      BY <2>2, <2>3, <3>3, CountedGroups
    <3>8. Observed[p][d] <= Footprint[p][d] /\ Observed[p][d] \in Nat /\ Footprint[p][d] \in Nat
      BY <2>2, CycleAssumption, LedgerAssumption DEF Vec
    <3>9. Counted(G, d) <= lim.max[d]
      BY SMTT(30), <2>2, <3>1, <3>4, <3>5, <3>6, <3>7, <3>8
    <3> QED BY <3>9 DEF G
  <2> QED BY <2>4, <2>5
<1>7. \A q \in Paths : \A lim \in Limits[q] : Restricts(lim.max) =>
        \A d \in DOMAIN lim.max : Counted(Passed(q, lim.sas)', d) <= lim.max[d]
  BY <1>6
<1> QED BY <1>5, <1>7 DEF LInv, Counted, Restricts

\* Every step of the cycle keeps the invariant of the limits.
LEMMA NextCounts ==
  ASSUME LInv, CInv', [CycleNext]_vars
  PROVE  LInv'
<1>1. /\ phase \in [Pods -> Phases] /\ node \in [Pods -> PodStates]
      /\ \A p \in Pods : PodInv(p)
  BY DEF LInv, CInv, CycleTypeOK
<1>2. CASE UNCHANGED <<tree, phase, leafOf, node>>
  <2>1. Present' = Present
    BY <1>2 DEF Present
  <2> QED BY <1>2, <2>1, NobodyPasses
<1>3. ASSUME NEW p \in Pods,
             NoNodeFits(p) \/ ReservePlugin(p) \/ Dequeue(p) \/ BindingStep(p) \/ ClusterStep(p)
      PROVE  LInv'
  <2>1. tree' = tree /\ leafOf' = leafOf
    BY <1>3 DEF NoNodeFits, ReservePlugin, Reserve, Dequeue, BindingStep, PreBind, OtherPluginRejects,
                Bind, BindFails, PostBind, Commit, UnreservePlugin, Unreserve, ClusterStep, Create, PodEnds,
                engineVars
  <2>2. /\ \A o \in Pods \ {p} : phase'[o] = phase[o] /\ node'[o] = node[o]
        /\ node'[p] \in {"none", "bound"} => node[p] \in {"none", "bound"}
        /\ phase'[p] # "queued" => \/ phase[p] \notin {"absent", "queued"}
                                   \/ phase'[p] = "absent" \/ node'[p] \notin {"none", "bound"}
    <3>1. CASE Dequeue(p)
      <4>1. node[p] \in {"ended", "deleted"}
        BY <1>1, <3>1 DEF Dequeue, PodInv, Bound, PodStates
      <4> QED BY <1>1, <3>1, <4>1 DEF Dequeue, To
    <3>2. CASE PodEnds(p)
      BY <1>1, <3>2 DEF PodEnds
    <3>3. CASE Create(p) \/ NoNodeFits(p) \/ ReservePlugin(p) \/ BindingStep(p)
      BY <1>1, <3>3 DEF Create, NoNodeFits, ReservePlugin, BindingStep, PreBind, OtherPluginRejects,
                        Bind, BindFails, PostBind, UnreservePlugin, To
    <3> QED BY <1>3, <3>1, <3>2, <3>3 DEF ClusterStep
  <2>3. \A o \in Present' : phase'[o] # "queued" => o \in Present /\ phase[o] # "queued"
    BY <2>2 DEF Present
  <2> QED BY <2>1, <2>3, NobodyPasses
<1>4. ASSUME NEW p \in Pods, InformerStep(p) PROVE LInv'
  BY <1>2, <1>4 DEF InformerStep, OnPodUpsert, OnPodDelete, ObserveBound, ObserveDeleted, engineVars
<1>5. ASSUME NEW g \in Gangs, GangStep(g) PROVE LInv'
  BY <1>2, <1>5 DEF GangStep, AdmitGangWW, YieldToBid, RefuseGang, EnterGang, ClaimBid, Hold, treeVars,
                    ReleaseGang, ReleaseGangs, cycleVars
<1>6. CASE UNCHANGED vars
  BY <1>2, <1>6 DEF vars, engineVars, cycleVars
<1> QED BY <1>3, <1>4, <1>5, <1>6, PreFilterCounts DEF CycleNext, SchedulingStep

\* A per-account limit is kept by what its accounts run, or are cleared to run,
\* on the leaf, though PreFilter's check and the bind are steps apart, pods are
\* created meanwhile and the store it counts over lags behind the cluster.
THEOREM AccountsWithinLimitHolds == CycleSpec => []AccountsWithinLimit
<1>1. StartedInit => LInv
  <2> SUFFICES ASSUME StartedInit PROVE LInv
    OBVIOUS
  <2>1. CInv
    BY StartCInv
  <2>2. \A p \in Present : phase[p] = "queued"
    BY DEF StartedInit, Present
  <2>3. ASSUME NEW q \in Paths, NEW lim \in Limits[q], NEW d \in DOMAIN lim.max
        PROVE  Counted(Passed(q, lim.sas), d) <= lim.max[d]
    <3>1. Passed(q, lim.sas) = {}
      BY <2>2 DEF Passed
    <3>2. [o \in {} |-> Observed[o][d]] \in [{} -> Nat] /\ IsFiniteSet({})
      BY FS_EmptySet
    <3>3. Counted({}, d) = 0
      BY <3>2, TotalZero DEF Counted
    <3> QED BY SMT, <2>3, <3>1, <3>3, LimitFacts
  <2> QED BY <2>1, <2>2, <2>3 DEF LInv
<1>2. LInv /\ [CycleNext]_vars => LInv'
  BY CycleNextCInv, NextCounts DEF LInv
<1>3. LInv => AccountsWithinLimit
  <2> SUFFICES ASSUME LInv, NEW q \in tree.nodes, NEW lim \in Limits[q], NEW d \in DOMAIN lim.max,
                      Restricts(lim.max)
               PROVE  Counted({p \in ClearedPods \cap Present : leafOf[p] = q /\ InSet(p, lim.sas)}, d)
                        <= lim.max[d]
    BY DEF AccountsWithinLimit, Restricts, Counted
  <2> DEFINE limited == {p \in ClearedPods \cap Present : leafOf[p] = q /\ InSet(p, lim.sas)}
             H == Passed(q, lim.sas)
  <2>1. q \in Paths /\ d \in Dims /\ lim.max[d] \in Nat
    <3>1. q \in Paths
      BY DEF LInv, CInv, Paths
    <3> QED BY <3>1, LimitFacts
  <2>2. \A p \in ClearedPods : p \in Pods /\ phase[p] # "queued"
    BY CycleFacts DEF LInv, ClearedPods, Cleared, PodInv, Bound
  <2>3. Counted(H, d) <= lim.max[d]
    BY <2>1 DEF LInv
  <2>4. H \in SUBSET Pods /\ limited \in SUBSET H
    BY <2>2 DEF Passed, Present
  <2> HIDE DEF limited, H
  <2>5. Counted(limited, d) <= Counted(H, d) /\ Counted(limited, d) \in Nat
    BY <2>1, <2>4, CountedGroups
  <2>6. Counted(H, d) \in Nat
    BY <2>1, <2>4, CountedGroups
  <2>7. Counted(limited, d) <= lim.max[d]
    BY SMT, <2>1, <2>3, <2>5, <2>6
  <2> QED BY <2>7 DEF limited
<1> QED BY <1>1, <1>2, <1>3, PTL DEF CycleSpec

=============================================================================
