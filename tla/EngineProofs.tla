---------------------------- MODULE EngineProofs ----------------------------
(***************************************************************************)
(* Proofs about Engine, and about GangAdmission on top of it, for any      *)
(* pods, gangs, dimensions and trees.                                      *)
(*                                                                         *)
(* Conservation is inductive once the shape of the ledgers is added to it, *)
(* without which the totals are not numbers.  Its two halves need each     *)
(* other: unless a gang the tree holds is bound in the ledger, admitting   *)
(* it could charge it a second time.                                       *)
(***************************************************************************)
EXTENDS GangAdmission, TotalTheorems

\* A leaf is for Zenon unless it names another prover: arithmetic is for SMT.
USE ZenonT(30)

Books == [Pods -> BookRec \cup {NoBook}]
Usage == [Paths -> [Dims -> Int]]

IInv == TypeOK /\ HeldGangsAreBound /\ CountersAgree

-----------------------------------------------------------------------------
(* Charges.                                                                *)

\* A booking charges a natural number.
LEMMA ChargeType ==
  ASSUME NEW t, NEW rec \in BookRec \cup {NoBook}, NEW st \in {"reserved", "committed"},
         NEW q, NEW d \in Dims
  PROVE  Charge(t, rec, st, q, d) \in Nat
<1>1. CASE rec = NoBook
  BY <1>1 DEF Charge, NoBook
<1>2. CASE rec \in BookRec
  BY <1>2 DEF Charge, BookRec, Vec
<1> QED BY <1>1, <1>2

\* The total charge of the pods is a natural number.
LEMMA ChargedPodsType ==
  ASSUME NEW t, NEW bk \in Books, NEW st \in {"reserved", "committed"}, NEW q, NEW d \in Dims
  PROVE  /\ [p \in Pods |-> Charge(t, bk[p], st, q, d)] \in [Pods -> Nat]
         /\ ChargedPods(t, bk, st, q, d) \in Nat
<1>1. [p \in Pods |-> Charge(t, bk[p], st, q, d)] \in [Pods -> Nat]
  BY ChargeType DEF Books
<1> QED BY <1>1, TotalType, LedgerAssumption DEF ChargedPods

\* Replacing the booking of one pod changes the total by that pod's charge.
LEMMA ChargedPodsUpdate ==
  ASSUME NEW t, NEW bk \in Books, NEW bk2 \in Books, NEW st \in {"reserved", "committed"},
         NEW q, NEW d \in Dims, NEW p \in Pods, \A x \in Pods \ {p} : bk2[x] = bk[x]
  PROVE  ChargedPods(t, bk2, st, q, d)
           = ChargedPods(t, bk, st, q, d) - Charge(t, bk[p], st, q, d) + Charge(t, bk2[p], st, q, d)
<1> DEFINE w == [x \in Pods |-> Charge(t, bk[x], st, q, d)]
           v == [x \in Pods |-> Charge(t, bk2[x], st, q, d)]
<1>1. w \in [Pods -> Nat] /\ v \in [Pods -> Nat]
  BY SMTT(30), ChargedPodsType
<1>2. \A y \in Pods \ {p} : v[y] = w[y]
  OBVIOUS
<1>3. w[p] = Charge(t, bk[p], st, q, d) /\ v[p] = Charge(t, bk2[p], st, q, d)
  OBVIOUS
<1>4. Total(w) = ChargedPods(t, bk, st, q, d) /\ Total(v) = ChargedPods(t, bk2, st, q, d)
  BY DEF ChargedPods
<1> HIDE DEF w, v
<1>5. Total(v) = Total(w) - w[p] + v[p]
  BY SMT, <1>1, <1>2, TotalUpdate, LedgerAssumption
<1> QED BY <1>3, <1>4, <1>5

\* The total charge of a set of gangs is a natural number.
LEMMA ChargedGangsType ==
  ASSUME NEW H, NEW gb, NEW q, NEW d \in Dims
  PROVE  /\ [g \in Gangs |-> IF g \in H /\ q \in WalkUp(gb[g]) THEN MinRes[g][d] ELSE 0]
               \in [Gangs -> Nat]
         /\ ChargedGangs(H, gb, q, d) \in Nat
<1>1. [g \in Gangs |-> IF g \in H /\ q \in WalkUp(gb[g]) THEN MinRes[g][d] ELSE 0]
        \in [Gangs -> Nat]
  BY LedgerAssumption DEF Vec
<1> QED BY <1>1, TotalType, LedgerAssumption DEF ChargedGangs

\* Holding one more gang adds its minResources along its path.
LEMMA ChargedGangsAdd ==
  ASSUME NEW H, NEW gb, NEW gb2, NEW q, NEW d \in Dims, NEW g \in Gangs, g \notin H,
         \A x \in Gangs \ {g} : gb2[x] = gb[x]
  PROVE  ChargedGangs(H \cup {g}, gb2, q, d)
           = ChargedGangs(H, gb, q, d) + (IF q \in WalkUp(gb2[g]) THEN MinRes[g][d] ELSE 0)
<1> DEFINE w == [x \in Gangs |-> IF x \in H /\ q \in WalkUp(gb[x]) THEN MinRes[x][d] ELSE 0]
           v == [x \in Gangs |-> IF x \in H \cup {g} /\ q \in WalkUp(gb2[x])
                                 THEN MinRes[x][d] ELSE 0]
<1>1. w \in [Gangs -> Nat] /\ v \in [Gangs -> Nat]
  BY LedgerAssumption DEF Vec
<1>2. \A y \in Gangs \ {g} : v[y] = w[y]
  OBVIOUS
<1>3. w[g] = 0 /\ v[g] = IF q \in WalkUp(gb2[g]) THEN MinRes[g][d] ELSE 0
  OBVIOUS
<1>4. Total(w) = ChargedGangs(H, gb, q, d) /\ Total(v) = ChargedGangs(H \cup {g}, gb2, q, d)
  BY DEF ChargedGangs
<1>5. Total(w) \in Nat /\ v[g] \in Nat
  BY <1>1, TotalType, LedgerAssumption
<1> HIDE DEF w, v
<1>6. Total(v) = Total(w) - w[g] + v[g]
  BY SMT, <1>1, <1>2, TotalUpdate, LedgerAssumption
<1> QED BY SMT, <1>3, <1>4, <1>5, <1>6

-----------------------------------------------------------------------------
(* Roll-ups, entry by entry.                                               *)

\* A roll-up adds r on the path of the leaf and nothing elsewhere.
LEMMA RollUpAt ==
  ASSUME NEW acc \in Usage, NEW leaf, NEW r \in Vec
  PROVE  /\ RollUp(acc, leaf, r) \in Usage
         /\ \A q \in Paths, d \in Dims :
              RollUp(acc, leaf, r)[q][d] = acc[q][d] + (IF q \in WalkUp(leaf) THEN r[d] ELSE 0)
BY SMT DEF RollUp, Plus, Usage, Vec

\* Taking back subtracts r on the path of the leaf and nothing elsewhere.
LEMMA RollDownAt ==
  ASSUME NEW acc \in Usage, NEW leaf, NEW r \in Vec
  PROVE  /\ RollDown(acc, leaf, r) \in Usage
         /\ \A q \in Paths, d \in Dims :
              RollDown(acc, leaf, r)[q][d] = acc[q][d] - (IF q \in WalkUp(leaf) THEN r[d] ELSE 0)
BY SMT DEF RollDown, Minus, Usage, Vec

\* What mutate applies for a booking, and what that booking charges, agree.
LEMMA AppliedIsCharge ==
  ASSUME NEW st \in {"reserved", "committed"}, NEW rec \in BookRec, rec.state = st, NEW q, NEW d \in Dims
  PROVE  /\ Applied(rec.leaf, rec.req) \in Vec
         /\ (IF q \in WalkUp(rec.leaf) THEN Applied(rec.leaf, rec.req)[d] ELSE 0)
              = Charge(tree, rec, st, q, d)
BY DEF Applied, Charge, BookRec, Vec, Zero

-----------------------------------------------------------------------------
(* The inductive step, one lemma per operation.                            *)

\* An operation on one pod keeps IInv when it moves the two counters by what
\* the pod's charge loses and gains.
LEMMA PodStep ==
  ASSUME IInv, NEW p \in Pods,
         UNCHANGED <<tree, held, gangBook, holBids>>,
         book' \in Books, \A x \in Pods \ {p} : book'[x] = book[x],
         allocated' \in Usage, allocating' \in Usage,
         \A q \in Paths, d \in Dims :
           /\ allocated'[q][d] = allocated[q][d] - Charge(tree, book[p], "committed", q, d)
                                 + Charge(tree, book'[p], "committed", q, d)
           /\ allocating'[q][d] = allocating[q][d] - Charge(tree, book[p], "reserved", q, d)
                                  + Charge(tree, book'[p], "reserved", q, d)
  PROVE  IInv'
<1>0. TypeOK /\ HeldGangsAreBound /\ CountersAgree
  BY DEF IInv
<1>1. TypeOK'
  BY <1>0 DEF TypeOK, Books, Usage
<1>2. HeldGangsAreBound'
  BY <1>0 DEF HeldGangsAreBound, Admitted
<1>3. CountersAgree'
  <2> SUFFICES ASSUME NEW q \in Paths, NEW d \in Dims
               PROVE  /\ allocated'[q][d] = ChargedPods(tree, book', "committed", q, d)
                      /\ allocating'[q][d] = ChargedPods(tree, book', "reserved", q, d)
                                             + ChargedGangs(held, gangBook, q, d)
    BY DEF CountersAgree
  <2>0. book \in Books
    BY <1>0 DEF TypeOK, Books
  <2>1. ASSUME NEW st \in {"reserved", "committed"}
        PROVE  /\ ChargedPods(tree, book', st, q, d) = ChargedPods(tree, book, st, q, d)
                     - Charge(tree, book[p], st, q, d) + Charge(tree, book'[p], st, q, d)
               /\ Charge(tree, book[p], st, q, d) \in Nat
               /\ Charge(tree, book'[p], st, q, d) \in Nat
               /\ ChargedPods(tree, book, st, q, d) \in Nat
    <3>1. book[p] \in BookRec \cup {NoBook} /\ book'[p] \in BookRec \cup {NoBook}
      BY <2>0 DEF Books
    <3>2. /\ Charge(tree, book[p], st, q, d) \in Nat
          /\ Charge(tree, book'[p], st, q, d) \in Nat
      BY <3>1, ChargeType
    <3>3. ChargedPods(tree, book, st, q, d) \in Nat
      BY <2>0, ChargedPodsType
    <3>4. ChargedPods(tree, book', st, q, d) = ChargedPods(tree, book, st, q, d)
                     - Charge(tree, book[p], st, q, d) + Charge(tree, book'[p], st, q, d)
      <4>1. ASSUME NEW bk2 \in Books, \A x \in Pods \ {p} : bk2[x] = book[x]
            PROVE  ChargedPods(tree, bk2, st, q, d) = ChargedPods(tree, book, st, q, d)
                     - Charge(tree, book[p], st, q, d) + Charge(tree, bk2[p], st, q, d)
        BY SMTT(30), <2>0, <4>1, ChargedPodsUpdate
      <4> QED BY <4>1
    <3> QED BY <3>2, <3>3, <3>4
  <2>2. ChargedGangs(held, gangBook, q, d) \in Nat
    BY ChargedGangsType
  <2>3. /\ allocated[q][d] = ChargedPods(tree, book, "committed", q, d)
        /\ allocating[q][d] = ChargedPods(tree, book, "reserved", q, d)
                              + ChargedGangs(held, gangBook, q, d)
    BY <1>0 DEF CountersAgree
  <2> QED BY SMT, <2>1, <2>2, <2>3
<1> QED BY <1>1, <1>2, <1>3 DEF IInv

\* What IInv says of one pod's booking and of the counters.
LEMMA PodFacts ==
  ASSUME IInv, NEW p \in Pods
  PROVE  /\ book \in Books
         /\ book[p] \in BookRec \cup {NoBook}
         /\ book[p].state \in {"reserved", "committed"} => book[p] \in BookRec
         /\ book[p].state \notin {"reserved", "committed"} => book[p] = NoBook
         /\ allocated \in Usage
         /\ allocating \in Usage
BY SMT DEF IInv, TypeOK, Books, Usage, BookRec, NoBook

\* No booking, no charge; and a booking charges in its own state only.
LEMMA OtherStateCharge ==
  ASSUME NEW t, NEW q, NEW d, NEW rec, NEW st, rec.state # st
  PROVE  Charge(t, rec, st, q, d) = 0
BY DEF Charge

\* A step that changes no booking and no counter.
LEMMA PodStutter ==
  ASSUME IInv, UNCHANGED <<tree, held, gangBook, holBids>>,
         UNCHANGED <<allocated, allocating, book>>
  PROVE  IInv'
BY DEF IInv, TypeOK, HeldGangsAreBound, Admitted, CountersAgree

\* Engine.Reserve keeps IInv: a new booking is charged once, as reserved.
LEMMA ReserveStep ==
  ASSUME IInv, NEW p \in Pods, NEW leaf \in Paths, NEW r \in Requests[p], Reserve(p, leaf, r)
  PROVE  IInv'
<1>1. CASE ~(book[p] = NoBook /\ Bookable(tree, leaf))
  BY <1>1, PodStutter DEF Reserve
<1>2. CASE book[p] = NoBook /\ Bookable(tree, leaf)
  <2> DEFINE rec == [state |-> "reserved", leaf |-> leaf, req |-> r]
  <2>1. r \in Vec
    BY LedgerAssumption
  <2>2. /\ UNCHANGED <<tree, held, gangBook, holBids, allocated>>
        /\ allocating' = RollUp(allocating, leaf, r)
        /\ book' = [book EXCEPT ![p] = rec]
    BY <1>2 DEF Reserve
  <2>3. book' \in Books /\ book'[p] = rec /\ \A x \in Pods \ {p} : book'[x] = book[x]
    BY <2>1, <2>2, PodFacts DEF Books, BookRec
  <2>4. allocating' \in Usage /\ allocated' \in Usage
    BY <2>1, <2>2, RollUpAt, PodFacts
  <2>5. ASSUME NEW q \in Paths, NEW d \in Dims
        PROVE  /\ allocated'[q][d] = allocated[q][d] - Charge(tree, book[p], "committed", q, d)
                                     + Charge(tree, book'[p], "committed", q, d)
               /\ allocating'[q][d] = allocating[q][d] - Charge(tree, book[p], "reserved", q, d)
                                      + Charge(tree, book'[p], "reserved", q, d)
    <3>1. /\ Charge(tree, book[p], "committed", q, d) = 0
          /\ Charge(tree, book[p], "reserved", q, d) = 0
      BY SMT, <1>2 DEF Charge, NoBook
    <3>2. /\ Charge(tree, book'[p], "committed", q, d) = 0
          /\ Charge(tree, book'[p], "reserved", q, d) = IF q \in WalkUp(leaf) THEN r[d] ELSE 0
      BY SMT, <1>2, <2>3 DEF Charge
    <3>3. allocating'[q][d] = allocating[q][d] + (IF q \in WalkUp(leaf) THEN r[d] ELSE 0)
      BY SMT, <2>1, <2>2, RollUpAt, PodFacts
    <3>4. allocated[q][d] \in Int /\ allocating[q][d] \in Int /\ r[d] \in Nat
      BY <2>1, PodFacts DEF Usage, Vec
    <3> QED BY SMT, <2>2, <3>1, <3>2, <3>3, <3>4
  <2> QED BY <2>2, <2>3, <2>4, <2>5, PodStep
<1> QED BY <1>1, <1>2

\* Dropping a booking: the counter of its state gives back what mutate applies.
LEMMA DropStep ==
  ASSUME IInv, NEW p \in Pods, book[p] \in BookRec,
         UNCHANGED <<tree, held, gangBook, holBids>>,
         book' = [book EXCEPT ![p] = NoBook],
         allocated' = IF book[p].state = "committed"
                      THEN RollDown(allocated, book[p].leaf, Applied(book[p].leaf, book[p].req))
                      ELSE allocated,
         allocating' = IF book[p].state = "reserved"
                       THEN RollDown(allocating, book[p].leaf, Applied(book[p].leaf, book[p].req))
                       ELSE allocating
  PROVE  IInv'
<1> DEFINE freed == Applied(book[p].leaf, book[p].req)
<1>1. book[p].state \in {"reserved", "committed"}
  BY DEF BookRec
<1>2. freed \in Vec
  BY DEF Applied, BookRec, Vec, Zero
<1>3. book' \in Books /\ book'[p] = NoBook /\ \A x \in Pods \ {p} : book'[x] = book[x]
  BY PodFacts DEF Books
<1>4. allocating' \in Usage /\ allocated' \in Usage
  BY <1>2, RollDownAt, PodFacts
<1>5. ASSUME NEW q \in Paths, NEW d \in Dims
      PROVE  /\ allocated'[q][d] = allocated[q][d] - Charge(tree, book[p], "committed", q, d)
                                   + Charge(tree, book'[p], "committed", q, d)
             /\ allocating'[q][d] = allocating[q][d] - Charge(tree, book[p], "reserved", q, d)
                                    + Charge(tree, book'[p], "reserved", q, d)
  <2>1. /\ Charge(tree, book'[p], "committed", q, d) = 0
        /\ Charge(tree, book'[p], "reserved", q, d) = 0
    BY SMT, <1>3 DEF Charge, NoBook
  <2>2. allocated[q][d] \in Int /\ allocating[q][d] \in Int
    BY PodFacts DEF Usage
  <2>3. CASE book[p].state = "committed"
    <3>1. Charge(tree, book[p], "reserved", q, d) = 0
      BY <2>3, OtherStateCharge
    <3>2. (IF q \in WalkUp(book[p].leaf) THEN freed[d] ELSE 0) = Charge(tree, book[p], "committed", q, d)
      BY <2>3, AppliedIsCharge
    <3>3. allocated'[q][d] = allocated[q][d] - (IF q \in WalkUp(book[p].leaf) THEN freed[d] ELSE 0)
      BY SMT, <1>2, <2>3, RollDownAt, PodFacts
    <3>4. allocating' = allocating
      BY <2>3
    <3>5. Charge(tree, book[p], "committed", q, d) \in Nat
      BY ChargeType
    <3> HIDE DEF freed
    <3> QED BY SMT, <2>1, <2>2, <3>1, <3>2, <3>3, <3>4, <3>5
  <2>4. CASE book[p].state = "reserved"
    <3>1. Charge(tree, book[p], "committed", q, d) = 0
      BY <2>4, OtherStateCharge
    <3>2. (IF q \in WalkUp(book[p].leaf) THEN freed[d] ELSE 0) = Charge(tree, book[p], "reserved", q, d)
      BY <2>4, AppliedIsCharge
    <3>3. allocating'[q][d] = allocating[q][d] - (IF q \in WalkUp(book[p].leaf) THEN freed[d] ELSE 0)
      BY SMT, <1>2, <2>4, RollDownAt, PodFacts
    <3>4. allocated' = allocated
      BY <2>4
    <3>5. Charge(tree, book[p], "reserved", q, d) \in Nat
      BY ChargeType
    <3> HIDE DEF freed
    <3> QED BY SMT, <2>1, <2>2, <3>1, <3>2, <3>3, <3>4, <3>5
  <2> QED BY <1>1, <2>3, <2>4
<1> QED BY <1>3, <1>4, <1>5, PodStep

\* Engine.Unreserve keeps IInv: only a reservation is taken back.
LEMMA UnreserveStep ==
  ASSUME IInv, NEW p \in Pods, Unreserve(p)
  PROVE  IInv'
<1>1. CASE book[p].state # "reserved"
  BY <1>1, PodStutter DEF Unreserve
<1>2. CASE book[p].state = "reserved"
  BY <1>2, DropStep, PodFacts DEF Unreserve
<1> QED BY <1>1, <1>2

\* Engine.ObserveDeleted keeps IInv: the counter of the booking's state gives it back.
LEMMA ObserveDeletedStep ==
  ASSUME IInv, NEW p \in Pods, ObserveDeleted(p)
  PROVE  IInv'
<1>1. CASE book[p] \in BookRec
  <2>1. book[p].state \in {"reserved", "committed"}
    BY <1>1 DEF BookRec
  <2> QED BY <1>1, <2>1, DropStep DEF ObserveDeleted
<1>2. CASE book[p] = NoBook
  <2>1. book' = book
    BY <1>2, PodFacts DEF ObserveDeleted, Books
  <2>2. UNCHANGED <<allocated, allocating, tree, held, gangBook, holBids>>
    BY SMT, <1>2 DEF ObserveDeleted, NoBook
  <2> QED BY <2>1, <2>2, PodStutter
<1> QED BY <1>1, <1>2, PodFacts

\* Confirming a reservation moves its charge from allocating to allocated.
LEMMA ConfirmStep ==
  ASSUME IInv, NEW p \in Pods, book[p].state = "reserved", Confirm(p),
         UNCHANGED <<tree, held, gangBook, holBids>>
  PROVE  IInv'
<1> DEFINE moved == Applied(book[p].leaf, book[p].req)
<1>1. book[p] \in BookRec
  BY PodFacts
<1>2. moved \in Vec
  BY <1>1 DEF Applied, BookRec, Vec, Zero
<1>3. /\ book' \in Books
      /\ book'[p] = [book[p] EXCEPT !.state = "committed"]
      /\ \A x \in Pods \ {p} : book'[x] = book[x]
  BY <1>1, PodFacts DEF Confirm, Books, BookRec
<1>4. /\ allocating' = RollDown(allocating, book[p].leaf, moved)
      /\ allocated' = RollUp(allocated, book[p].leaf, moved)
  BY DEF Confirm
<1>5. allocating' \in Usage /\ allocated' \in Usage
  BY <1>2, <1>4, RollDownAt, RollUpAt, PodFacts
<1>6. ASSUME NEW q \in Paths, NEW d \in Dims
      PROVE  /\ allocated'[q][d] = allocated[q][d] - Charge(tree, book[p], "committed", q, d)
                                   + Charge(tree, book'[p], "committed", q, d)
             /\ allocating'[q][d] = allocating[q][d] - Charge(tree, book[p], "reserved", q, d)
                                    + Charge(tree, book'[p], "reserved", q, d)
  <2>1. allocated[q][d] \in Int /\ allocating[q][d] \in Int
    BY PodFacts DEF Usage
  <2>2. /\ Charge(tree, book[p], "committed", q, d) = 0
        /\ Charge(tree, book'[p], "reserved", q, d) = 0
    BY <1>1, <1>3 DEF Charge, BookRec
  <2>3. Charge(tree, book'[p], "committed", q, d) = Charge(tree, book[p], "reserved", q, d)
    BY <1>1, <1>3 DEF Charge, BookRec
  <2>4. (IF q \in WalkUp(book[p].leaf) THEN moved[d] ELSE 0) = Charge(tree, book[p], "reserved", q, d)
    BY <1>1, AppliedIsCharge
  <2>5. /\ allocating'[q][d] = allocating[q][d] - (IF q \in WalkUp(book[p].leaf) THEN moved[d] ELSE 0)
        /\ allocated'[q][d] = allocated[q][d] + (IF q \in WalkUp(book[p].leaf) THEN moved[d] ELSE 0)
    BY SMT, <1>2, <1>4, RollDownAt, RollUpAt, PodFacts
  <2>6. Charge(tree, book[p], "reserved", q, d) \in Nat
    BY <1>1, ChargeType
  <2> HIDE DEF moved
  <2> QED BY SMT, <2>1, <2>2, <2>3, <2>4, <2>5, <2>6
<1> QED BY <1>3, <1>5, <1>6, PodStep

\* Engine.Commit keeps IInv.
LEMMA CommitStep ==
  ASSUME IInv, NEW p \in Pods, Commit(p)
  PROVE  IInv'
<1>1. CASE book[p].state # "reserved"
  BY <1>1, PodStutter DEF Commit
<1>2. CASE book[p].state = "reserved"
  BY <1>2, ConfirmStep DEF Commit
<1> QED BY <1>1, <1>2

\* Engine.ObserveBound keeps IInv: it confirms, charges an unknown pod, or does nothing.
LEMMA ObserveBoundStep ==
  ASSUME IInv, NEW p \in Pods, NEW leaf \in Paths, NEW r \in Requests[p], ObserveBound(p, leaf, r)
  PROVE  IInv'
<1>1. CASE book[p].state = "reserved"
  BY SMT, <1>1, ConfirmStep DEF ObserveBound, NoBook
<1>2. CASE book[p] = NoBook /\ leaf \in tree.nodes
  <2> DEFINE rec == [state |-> "committed", leaf |-> leaf, req |-> r]
             booked == Applied(leaf, r)
  <2>1. r \in Vec /\ booked \in Vec
    BY LedgerAssumption DEF Applied, Zero, Vec
  <2>2. /\ UNCHANGED <<tree, held, gangBook, holBids, allocating>>
        /\ allocated' = RollUp(allocated, leaf, booked)
        /\ book' = [book EXCEPT ![p] = rec]
    BY SMT, <1>2 DEF ObserveBound, NoBook
  <2>3. book' \in Books /\ book'[p] = rec /\ \A x \in Pods \ {p} : book'[x] = book[x]
    BY <2>1, <2>2, PodFacts DEF Books, BookRec
  <2>4. allocating' \in Usage /\ allocated' \in Usage
    BY <2>1, <2>2, RollUpAt, PodFacts
  <2>5. ASSUME NEW q \in Paths, NEW d \in Dims
        PROVE  /\ allocated'[q][d] = allocated[q][d] - Charge(tree, book[p], "committed", q, d)
                                     + Charge(tree, book'[p], "committed", q, d)
               /\ allocating'[q][d] = allocating[q][d] - Charge(tree, book[p], "reserved", q, d)
                                      + Charge(tree, book'[p], "reserved", q, d)
    <3>1. /\ Charge(tree, book[p], "committed", q, d) = 0
          /\ Charge(tree, book[p], "reserved", q, d) = 0
      BY SMT, <1>2 DEF Charge, NoBook
    <3>2. /\ Charge(tree, book'[p], "reserved", q, d) = 0
          /\ Charge(tree, book'[p], "committed", q, d) = IF q \in WalkUp(leaf) THEN booked[d] ELSE 0
      BY SMT, <2>3 DEF Charge, Applied, Zero
    <3>3. allocated'[q][d] = allocated[q][d] + (IF q \in WalkUp(leaf) THEN booked[d] ELSE 0)
      BY SMT, <2>1, <2>2, RollUpAt, PodFacts
    <3>4. allocated[q][d] \in Int /\ allocating[q][d] \in Int /\ booked[d] \in Nat
      BY <2>1, PodFacts DEF Usage, Vec
    <3> HIDE DEF booked
    <3> QED BY SMT, <2>2, <3>1, <3>2, <3>3, <3>4
  <2> QED BY <2>2, <2>3, <2>4, <2>5, PodStep
<1>3. CASE ~(book[p].state = "reserved") /\ ~(book[p] = NoBook /\ leaf \in tree.nodes)
  BY <1>3, PodStutter DEF ObserveBound
<1> QED BY <1>1, <1>2, <1>3

\* A sweep splits the bookings into the live ones and the stale ones, and
\* gives back what the stale ones charge.
LEMMA GCBookingsStep ==
  ASSUME IInv, NEW live \in SUBSET Pods, GCBookings(live)
  PROVE  IInv'
<1> DEFINE stale == [p \in Pods |-> IF p \in live THEN NoBook ELSE book[p]]
<1>1. TypeOK /\ HeldGangsAreBound /\ CountersAgree
  BY DEF IInv
<1>2. book \in Books /\ stale \in Books /\ book' \in Books
  BY <1>1 DEF TypeOK, Books, GCBookings
<1>3. UNCHANGED <<tree, held, gangBook, holBids>>
  BY DEF GCBookings
<1>4. ASSUME NEW q \in Paths, NEW d \in Dims, NEW st \in {"reserved", "committed"}
      PROVE  /\ ChargedPods(tree, book, st, q, d)
                  = ChargedPods(tree, book', st, q, d) + ChargedPods(tree, stale, st, q, d)
             /\ ChargedPods(tree, book', st, q, d) \in Nat
             /\ ChargedPods(tree, stale, st, q, d) \in Nat
  <2> DEFINE w == [p \in Pods |-> Charge(tree, book[p], st, q, d)]
             u == [p \in Pods |-> Charge(tree, book'[p], st, q, d)]
             v == [p \in Pods |-> Charge(tree, stale[p], st, q, d)]
  <2>1. w \in [Pods -> Nat] /\ u \in [Pods -> Nat] /\ v \in [Pods -> Nat]
    BY <1>2, ChargeType DEF Books
  <2>2. \A p \in Pods : (u[p] = w[p] /\ v[p] = 0) \/ (u[p] = 0 /\ v[p] = w[p])
    <3>1. ASSUME NEW p \in Pods, p \in live PROVE u[p] = w[p] /\ v[p] = 0
      BY <3>1 DEF GCBookings, Charge, NoBook
    <3>2. ASSUME NEW p \in Pods, p \notin live PROVE u[p] = 0 /\ v[p] = w[p]
      BY <3>2 DEF GCBookings, Charge, NoBook
    <3> QED BY <3>1, <3>2
  <2>3. /\ Total(w) = ChargedPods(tree, book, st, q, d)
        /\ Total(u) = ChargedPods(tree, book', st, q, d)
        /\ Total(v) = ChargedPods(tree, stale, st, q, d)
    BY DEF ChargedPods
  <2> HIDE DEF w, u, v
  <2>4. Total(u) \in Nat /\ Total(v) \in Nat
    BY <2>1, TotalType, LedgerAssumption
  <2>5. Total(w) = Total(u) + Total(v)
    BY SMTT(30), <2>1, <2>2, TotalSplit, LedgerAssumption
  <2> QED BY <2>3, <2>4, <2>5
<1>5. ASSUME NEW q \in Paths, NEW d \in Dims
      PROVE  /\ allocated'[q][d] = allocated[q][d] - ChargedPods(tree, stale, "committed", q, d)
             /\ allocating'[q][d] = allocating[q][d] - ChargedPods(tree, stale, "reserved", q, d)
  BY DEF GCBookings
<1>6. allocated' \in Usage /\ allocating' \in Usage
  <2>1. ASSUME NEW q \in Paths, NEW d \in Dims
        PROVE  /\ allocated[q][d] - ChargedPods(tree, stale, "committed", q, d) \in Int
               /\ allocating[q][d] - ChargedPods(tree, stale, "reserved", q, d) \in Int
    <3>1. allocated[q][d] \in Int /\ allocating[q][d] \in Int
      BY <1>1 DEF TypeOK
    <3> HIDE DEF stale
    <3> QED BY SMT, <1>4, <3>1
  <2> QED BY <2>1 DEF GCBookings, Usage
<1> HIDE DEF stale
<1>7. CountersAgree'
  <2> SUFFICES ASSUME NEW q \in Paths, NEW d \in Dims
               PROVE  /\ allocated'[q][d] = ChargedPods(tree, book', "committed", q, d)
                      /\ allocating'[q][d] = ChargedPods(tree, book', "reserved", q, d)
                                             + ChargedGangs(held, gangBook, q, d)
    BY <1>3 DEF CountersAgree
  <2>1. ChargedGangs(held, gangBook, q, d) \in Nat
    BY ChargedGangsType
  <2>2. /\ allocated[q][d] = ChargedPods(tree, book, "committed", q, d)
        /\ allocating[q][d] = ChargedPods(tree, book, "reserved", q, d)
                              + ChargedGangs(held, gangBook, q, d)
    BY <1>1 DEF CountersAgree
  <2> QED BY SMT, <1>4, <1>5, <2>1, <2>2
<1>8. TypeOK'
  BY <1>1, <1>2, <1>3, <1>6 DEF TypeOK, Books, Usage
<1>9. HeldGangsAreBound'
  BY <1>1, <1>3 DEF HeldGangsAreBound, Admitted
<1> QED BY <1>7, <1>8, <1>9 DEF IInv

\* Reserving a gang: the leaf and its ancestors gain its minResources once.
LEMMA HoldStep ==
  ASSUME IInv, NEW g \in Gangs, NEW leaf \in Paths, ~Admitted(g), Hold(g, leaf),
         holBids' \in [Paths -> Bid \cup {NoBid}]
  PROVE  IInv'
<1>1. TypeOK /\ HeldGangsAreBound /\ CountersAgree
  BY DEF IInv
<1>2. /\ UNCHANGED <<tree, allocated, book>>
      /\ allocating' = RollUp(allocating, leaf, MinRes[g])
      /\ held' = held \cup {g}
      /\ gangBook' = [gangBook EXCEPT ![g] = leaf]
      /\ Bookable(tree, leaf)
  BY DEF Hold, Inadmissible
<1>3. g \notin held
  BY <1>1 DEF HeldGangsAreBound
<1>4. gangBook'[g] = leaf /\ \A x \in Gangs \ {g} : gangBook'[x] = gangBook[x]
  BY <1>1, <1>2 DEF TypeOK
<1>5. MinRes[g] \in Vec
  BY LedgerAssumption
<1>6. allocating \in Usage
  BY <1>1 DEF TypeOK, Usage
<1>7. allocating' \in Usage
  BY <1>2, <1>5, <1>6, RollUpAt
<1>8. TypeOK'
  BY <1>1, <1>2, <1>7 DEF TypeOK, Usage
<1>9. leaf # NoLeaf
  BY TreeAssumption DEF Paths
<1>10. HeldGangsAreBound'
  BY <1>1, <1>2, <1>4, <1>9 DEF HeldGangsAreBound, Admitted, TypeOK
<1>11. CountersAgree'
  <2> SUFFICES ASSUME NEW q \in Paths, NEW d \in Dims
               PROVE  /\ allocated[q][d] = ChargedPods(tree, book, "committed", q, d)
                      /\ allocating'[q][d] = ChargedPods(tree, book, "reserved", q, d)
                                             + ChargedGangs(held', gangBook', q, d)
    BY <1>2 DEF CountersAgree
  <2>1. /\ allocated[q][d] = ChargedPods(tree, book, "committed", q, d)
        /\ allocating[q][d] = ChargedPods(tree, book, "reserved", q, d)
                              + ChargedGangs(held, gangBook, q, d)
    BY <1>1 DEF CountersAgree
  <2>2. ASSUME NEW gb2, \A x \in Gangs \ {g} : gb2[x] = gangBook[x]
        PROVE  ChargedGangs(held \cup {g}, gb2, q, d)
                 = ChargedGangs(held, gangBook, q, d)
                   + (IF q \in WalkUp(gb2[g]) THEN MinRes[g][d] ELSE 0)
    BY SMT, <1>3, <2>2, ChargedGangsAdd
  <2>3. ChargedGangs(held', gangBook', q, d)
           = ChargedGangs(held, gangBook, q, d) + (IF q \in WalkUp(leaf) THEN MinRes[g][d] ELSE 0)
    BY <1>2, <1>4, <2>2
  <2>4. allocating'[q][d] = allocating[q][d] + (IF q \in WalkUp(leaf) THEN MinRes[g][d] ELSE 0)
    BY SMT, <1>2, <1>5, <1>6, RollUpAt
  <2>5. /\ ChargedGangs(held, gangBook, q, d) \in Nat
        /\ ChargedPods(tree, book, "reserved", q, d) \in Nat
    BY <1>1, ChargedGangsType, ChargedPodsType DEF TypeOK, Books
  <2>6. MinRes[g][d] \in Nat
    BY <1>5 DEF Vec
  <2> QED BY SMT, <2>1, <2>3, <2>4, <2>5, <2>6
<1> QED BY <1>8, <1>10, <1>11 DEF IInv

\* A step that touches the bids alone.
LEMMA BidStep ==
  ASSUME IInv, UNCHANGED <<treeVars, book, gangBook>>, holBids' \in [Paths -> Bid \cup {NoBid}]
  PROVE  IInv'
BY DEF IInv, TypeOK, HeldGangsAreBound, Admitted, CountersAgree, treeVars

\* Engine.AdmitGang, the recovery path, keeps IInv.
LEMMA AdmitGangStep ==
  ASSUME IInv, NEW g \in Gangs, NEW leaf \in Paths, AdmitGang(g, leaf)
  PROVE  IInv'
BY HoldStep DEF AdmitGang, IInv, TypeOK

\* Engine.AdmitGangWW keeps IInv, whichever of its four outcomes is reached.
LEMMA AdmitGangWWStep ==
  ASSUME IInv, NEW g \in Gangs, NEW leaf \in Paths, NEW prio \in Priorities,
         AdmitGangWW(g, leaf, prio)
  PROVE  IInv'
<1> DEFINE key == WWKey(g, prio)
<1>1. holBids \in [Paths -> Bid \cup {NoBid}]
  BY DEF IInv, TypeOK
<1>2. key \in WoundWaitKey
  BY RankAssumption DEF WWKey, WoundWaitKey
<1>3. LiveBid(leaf) \in Bid \cup {NoBid}
  BY <1>1 DEF LiveBid
<1>4. 0 \in 0 .. BidTimeout + 1
  BY SMT, RankAssumption
<1>5. ASSUME NEW bid \in Bid \cup {NoBid}, SetBid(leaf, bid)
      PROVE  holBids' \in [Paths -> Bid \cup {NoBid}]
  BY <1>1, <1>5 DEF SetBid
<1>6. ~Admitted(g)
  BY DEF AdmitGangWW
<1> HIDE DEF key
<1>7. CASE YieldToBid(g, leaf, key)
  <2>1. holBids[leaf] \in Bid
    BY <1>1, <1>7 DEF YieldToBid, Outranked, LiveBid
  <2>2. [key |-> holBids[leaf].key, age |-> 0] \in Bid
    BY <1>4, <2>1 DEF Bid
  <2> QED BY <1>5, <1>7, <2>2, BidStep DEF YieldToBid
<1>8. CASE RefuseGang(g, leaf, key)
  BY <1>3, <1>5, <1>8, BidStep DEF RefuseGang
<1>9. CASE EnterGang(g, leaf, key)
  <2>1. holBids' \in [Paths -> Bid \cup {NoBid}]
    BY <1>3, <1>5, <1>9 DEF EnterGang
  <2> QED BY <1>6, <1>9, <2>1, HoldStep DEF EnterGang
<1>10. CASE ClaimBid(g, leaf, key)
  <2>1. [key |-> key, age |-> 0] \in Bid
    BY <1>2, <1>4 DEF Bid
  <2> QED BY <1>5, <1>10, <2>1, BidStep DEF ClaimBid
<1> QED BY <1>7, <1>8, <1>9, <1>10 DEF AdmitGangWW, key

\* Releasing a set of gangs (Engine.ReleaseGang, Engine.GCGangs) keeps IInv.
LEMMA ReleaseGangsStep ==
  ASSUME IInv, NEW G \in SUBSET Gangs, ReleaseGangs(G)
  PROVE  IInv'
<1>1. TypeOK /\ HeldGangsAreBound /\ CountersAgree
  BY DEF IInv
<1>2. /\ UNCHANGED <<tree, allocated, book, holBids>>
      /\ held' = held \ G
      /\ gangBook' = [g \in Gangs |-> IF g \in G THEN NoLeaf ELSE gangBook[g]]
  BY DEF ReleaseGangs
<1>3. \A x \in Gangs \ G : gangBook'[x] = gangBook[x]
  BY <1>2
<1>4. ASSUME NEW q \in Paths, NEW d \in Dims
      PROVE  /\ allocating'[q][d] = allocating[q][d] - ChargedGangs(G \cap held, gangBook, q, d)
             /\ allocating[q][d] \in Int
             /\ ChargedGangs(G \cap held, gangBook, q, d) \in Nat
  BY <1>1, ChargedGangsType DEF ReleaseGangs, TypeOK
<1>5. allocating' \in Usage
  <2>1. ASSUME NEW q \in Paths, NEW d \in Dims
        PROVE  allocating[q][d] - ChargedGangs(G \cap held, gangBook, q, d) \in Int
    <3>1. allocating[q][d] \in Int /\ ChargedGangs(G \cap held, gangBook, q, d) \in Nat
      BY <1>4
    <3> QED BY SMT, <3>1
  <2> QED BY <2>1 DEF ReleaseGangs, Usage
<1>6. TypeOK'
  BY <1>1, <1>2, <1>5 DEF TypeOK, Usage
<1>7. HeldGangsAreBound'
  BY <1>1, <1>2, <1>3 DEF HeldGangsAreBound, Admitted, TypeOK
<1>8. CountersAgree'
  <2> SUFFICES ASSUME NEW q \in Paths, NEW d \in Dims
               PROVE  /\ allocated[q][d] = ChargedPods(tree, book, "committed", q, d)
                      /\ allocating'[q][d] = ChargedPods(tree, book, "reserved", q, d)
                                             + ChargedGangs(held', gangBook', q, d)
    BY <1>2 DEF CountersAgree
  <2>1. /\ allocated[q][d] = ChargedPods(tree, book, "committed", q, d)
        /\ allocating[q][d] = ChargedPods(tree, book, "reserved", q, d)
                              + ChargedGangs(held, gangBook, q, d)
    BY <1>1 DEF CountersAgree
  <2> DEFINE w == [x \in Gangs |-> IF x \in held /\ q \in WalkUp(gangBook[x]) THEN MinRes[x][d] ELSE 0]
             u == [x \in Gangs |-> IF x \in held' /\ q \in WalkUp(gangBook'[x]) THEN MinRes[x][d] ELSE 0]
             v == [x \in Gangs |-> IF x \in G \cap held /\ q \in WalkUp(gangBook[x])
                                   THEN MinRes[x][d] ELSE 0]
  <2>2. /\ Total(w) = ChargedGangs(held, gangBook, q, d)
        /\ Total(u) = ChargedGangs(held', gangBook', q, d)
        /\ Total(v) = ChargedGangs(G \cap held, gangBook, q, d)
    BY DEF ChargedGangs
  <2>3. Total(w) = Total(u) + Total(v) /\ Total(u) \in Nat /\ Total(v) \in Nat
    <3>1. w \in [Gangs -> Nat] /\ u \in [Gangs -> Nat] /\ v \in [Gangs -> Nat]
      BY LedgerAssumption DEF Vec
    <3>2. \A x \in Gangs : (u[x] = w[x] /\ v[x] = 0) \/ (u[x] = 0 /\ v[x] = w[x])
      BY <1>2, <1>3
    <3> HIDE DEF w, u, v
    <3> QED BY SMT, <3>1, <3>2, TotalSplit, TotalType, LedgerAssumption
  <2> HIDE DEF w, u, v
  <2>4. ChargedPods(tree, book, "reserved", q, d) \in Nat
    BY <1>1, ChargedPodsType DEF TypeOK, Books
  <2> QED BY SMT, <1>4, <2>1, <2>2, <2>3, <2>4
<1> QED BY <1>6, <1>7, <1>8 DEF IInv

\* The passing of time keeps IInv.
LEMMA TickStep ==
  ASSUME IInv, Tick
  PROVE  IInv'
<1>1. holBids \in [Paths -> Bid \cup {NoBid}] /\ BidTimeout \in Nat
  BY RankAssumption DEF IInv, TypeOK
<1>2. holBids' \in [Paths -> Bid \cup {NoBid}]
  <2> SUFFICES ASSUME NEW q \in Paths, holBids[q] # NoBid, holBids[q].age <= BidTimeout
               PROVE  [holBids[q] EXCEPT !.age = @ + 1] \in Bid
    BY <1>1 DEF Tick
  <2> QED BY SMT, <1>1 DEF Bid
<1> QED BY <1>2, BidStep DEF Tick

\* A rebuild charges the fresh tree from the ledger it carries over: a booking
\* it drops would have charged nothing.
LEMMA RebuildStep ==
  ASSUME IInv, NEW t \in Trees, NEW H \in SUBSET Gangs, Rebuild(t, H)
  PROVE  IInv'
<1>1. TypeOK
  BY DEF IInv
<1>2. book \in Books /\ CarriedBook(t) \in Books
  BY <1>1 DEF TypeOK, Books, CarriedBook
<1>3. ASSUME NEW q, NEW d \in Dims, NEW st \in {"reserved", "committed"}
      PROVE  ChargedPods(t, CarriedBook(t), st, q, d) = ChargedPods(t, book, st, q, d)
  <2>1. ASSUME NEW p \in Pods
        PROVE  Charge(t, CarriedBook(t)[p], st, q, d) = Charge(t, book[p], st, q, d)
    <3>1. CASE book[p] # NoBook /\ book[p].leaf \notin t.nodes
      <4>1. CarriedBook(t)[p] = NoBook
        BY <3>1 DEF CarriedBook
      <4>2. Charge(t, NoBook, st, q, d) = 0
        BY DEF Charge, NoBook
      <4>3. Charge(t, book[p], st, q, d) = 0
        BY <3>1 DEF Charge, Bookable
      <4> QED BY <4>1, <4>2, <4>3
    <3>2. CASE ~(book[p] # NoBook /\ book[p].leaf \notin t.nodes)
      BY <3>2 DEF CarriedBook
    <3> QED BY <3>1, <3>2
  <2> QED BY <2>1 DEF ChargedPods
<1>4. TypeOK'
  <2>1. allocated' \in Usage
    <3>1. ASSUME NEW q \in Paths, NEW d \in Dims
          PROVE  ChargedPods(t, book, "committed", q, d) \in Int
      <4>1. ChargedPods(t, book, "committed", q, d) \in Nat
        BY <1>2, ChargedPodsType
      <4> QED BY SMT, <4>1
    <3> QED BY <3>1 DEF Rebuild, Usage
  <2>2. allocating' \in Usage
    <3>1. ASSUME NEW q \in Paths, NEW d \in Dims
          PROVE  ChargedPods(t, book, "reserved", q, d)
                   + ChargedGangs(H, CarriedGangs(t), q, d) \in Int
      <4>1. /\ ChargedPods(t, book, "reserved", q, d) \in Nat
            /\ ChargedGangs(H, CarriedGangs(t), q, d) \in Nat
        BY <1>2, ChargedPodsType, ChargedGangsType
      <4> QED BY SMT, <4>1
    <3> QED BY <3>1 DEF Rebuild, Usage
  <2>3. gangBook' \in [Gangs -> Paths \cup {NoLeaf}]
    <3>1. gangBook' = CarriedGangs(t)
      BY DEF Rebuild
    <3>2. gangBook \in [Gangs -> Paths \cup {NoLeaf}]
      BY <1>1 DEF TypeOK
    <3> QED BY <3>1, <3>2 DEF CarriedGangs
  <2> QED BY <1>1, <1>2, <2>1, <2>2, <2>3 DEF TypeOK, Rebuild, Usage, Books
<1>5. HeldGangsAreBound'
  BY DEF HeldGangsAreBound, Admitted, Rebuild, Reseeded, Inadmissible
<1>6. CountersAgree'
  <2> SUFFICES ASSUME NEW q \in Paths, NEW d \in Dims
               PROVE  /\ allocated'[q][d] = ChargedPods(t, CarriedBook(t), "committed", q, d)
                      /\ allocating'[q][d] = ChargedPods(t, CarriedBook(t), "reserved", q, d)
                                             + ChargedGangs(H, CarriedGangs(t), q, d)
    BY DEF CountersAgree, Rebuild
  <2> QED BY <1>3 DEF Rebuild
<1> QED BY <1>4, <1>5, <1>6 DEF IInv

-----------------------------------------------------------------------------
(* The theorems.                                                           *)

\* Ledgers without an entry and counters at zero, on whatever tree.
EmptyLedgers ==
  /\ tree \in Trees \cup {NoTree}
  /\ allocated = [q \in Paths |-> Zero]
  /\ allocating = [q \in Paths |-> Zero]
  /\ held = {}
  /\ book = [p \in Pods |-> NoBook]
  /\ gangBook = [g \in Gangs |-> NoLeaf]
  /\ holBids = [q \in Paths |-> NoBid]

\* An engine without bookings satisfies IInv.
LEMMA InitIInv ==
  ASSUME EmptyLedgers
  PROVE  IInv
<1>1. TypeOK
  BY SMT DEF EmptyLedgers, TypeOK, Zero
<1>2. HeldGangsAreBound
  BY DEF EmptyLedgers, HeldGangsAreBound
<1>3. CountersAgree
  <2> SUFFICES ASSUME NEW q \in Paths, NEW d \in Dims
               PROVE  /\ allocated[q][d] = ChargedPods(tree, book, "committed", q, d)
                      /\ allocating[q][d] = ChargedPods(tree, book, "reserved", q, d)
                                            + ChargedGangs(held, gangBook, q, d)
    BY DEF CountersAgree
  <2>1. allocated[q][d] = 0 /\ allocating[q][d] = 0
    BY DEF EmptyLedgers, Zero
  <2>2. ASSUME NEW st \in {"reserved", "committed"}
        PROVE  ChargedPods(tree, book, st, q, d) = 0
    <3> DEFINE w == [p \in Pods |-> Charge(tree, book[p], st, q, d)]
    <3>1. \A p \in Pods : w[p] = 0
      BY DEF EmptyLedgers, Charge, NoBook
    <3>2. w \in [Pods -> Nat]
      BY SMT, <3>1
    <3>3. Total(w) = ChargedPods(tree, book, st, q, d)
      BY DEF ChargedPods
    <3> HIDE DEF w
    <3> QED BY <3>1, <3>2, <3>3, TotalZero, LedgerAssumption
  <2>3. ChargedGangs(held, gangBook, q, d) = 0
    <3> DEFINE w == [g \in Gangs |-> IF g \in held /\ q \in WalkUp(gangBook[g])
                                     THEN MinRes[g][d] ELSE 0]
    <3>1. \A g \in Gangs : w[g] = 0
      BY DEF EmptyLedgers
    <3>2. w \in [Gangs -> Nat]
      BY SMT, <3>1
    <3>3. Total(w) = ChargedGangs(held, gangBook, q, d)
      BY DEF ChargedGangs
    <3> HIDE DEF w
    <3> QED BY <3>1, <3>2, <3>3, TotalZero, LedgerAssumption
  <2> QED BY SMT, <2>1, <2>2, <2>3
<1> QED BY <1>1, <1>2, <1>3 DEF IInv

\* Every call of an engine method keeps IInv.
LEMMA NextIInv ==
  ASSUME IInv, [Next]_engineVars
  PROVE  IInv'
<1>1. ASSUME NEW p \in Pods, PodCall(p) PROVE IInv'
  <2>1. ASSUME NEW leaf \in Paths, NEW r \in Requests[p], Reserve(p, leaf, r) PROVE IInv'
    BY <2>1, ReserveStep
  <2>2. ASSUME NEW leaf \in Paths, NEW r \in Requests[p], ObserveBound(p, leaf, r) PROVE IInv'
    BY <2>2, ObserveBoundStep
  <2>3. CASE Unreserve(p)
    BY <2>3, UnreserveStep
  <2>4. CASE Commit(p)
    BY <2>4, CommitStep
  <2>5. CASE ObserveDeleted(p)
    BY <2>5, ObserveDeletedStep
  <2> QED BY <1>1, <2>1, <2>2, <2>3, <2>4, <2>5 DEF PodCall
<1>2. ASSUME NEW g \in Gangs, GangCall(g) PROVE IInv'
  <2>1. ASSUME NEW leaf \in Paths, AdmitGang(g, leaf) PROVE IInv'
    BY <2>1, AdmitGangStep
  <2>2. ASSUME NEW leaf \in Paths, NEW prio \in Priorities, AdmitGangWW(g, leaf, prio) PROVE IInv'
    BY <2>2, AdmitGangWWStep
  <2>3. CASE ReleaseGang(g)
    BY <2>3, ReleaseGangsStep DEF ReleaseGang
  <2> QED BY <1>2, <2>1, <2>2, <2>3 DEF GangCall
<1>3. ASSUME NEW live \in SUBSET Pods, GCBookings(live) PROVE IInv'
  BY <1>3, GCBookingsStep
<1>4. ASSUME NEW live \in SUBSET Gangs, GCGangs(live) PROVE IInv'
  BY <1>4, ReleaseGangsStep DEF GCGangs
<1>5. ASSUME NEW t \in Trees, NEW H \in SUBSET Gangs, Rebuild(t, H) PROVE IInv'
  BY <1>5, RebuildStep
<1>6. CASE Tick
  BY <1>6, TickStep
<1>7. CASE UNCHANGED engineVars
  BY <1>7, PodStutter DEF engineVars
<1> QED BY <1>1, <1>2, <1>3, <1>4, <1>5, <1>6, <1>7 DEF Next

-----------------------------------------------------------------------------
(* What counts against max, allocated and allocating together, as a sum    *)
(* over the ledgers.                                                       *)

\* What booking rec takes of queue q of tree t, whichever its state.
Share(t, rec, q, d) ==
  IF rec # NoBook /\ Bookable(t, rec.leaf) /\ q \in WalkUp(rec.leaf) THEN rec.req[d] ELSE 0

Shares(t, bk, q, d) == Total([p \in Pods |-> Share(t, bk[p], q, d)])

\* A booking's share is what it charges to the counter of its state.
LEMMA ShareIsCharge ==
  ASSUME NEW t, NEW rec \in BookRec \cup {NoBook}, NEW q, NEW d \in Dims
  PROVE  /\ Share(t, rec, q, d) \in Nat
         /\ \/ /\ Charge(t, rec, "committed", q, d) = Share(t, rec, q, d)
               /\ Charge(t, rec, "reserved", q, d) = 0
            \/ /\ Charge(t, rec, "committed", q, d) = 0
               /\ Charge(t, rec, "reserved", q, d) = Share(t, rec, q, d)
<1>1. CASE rec = NoBook
  BY <1>1 DEF Share, Charge, NoBook
<1>2. CASE rec \in BookRec
  <2>1. rec # NoBook
    BY SMT, <1>2 DEF BookRec, NoBook
  <2> QED BY <1>2, <2>1 DEF Share, Charge, BookRec, Vec
<1> QED BY <1>1, <1>2

\* The shares add up to the charges of both states.
LEMMA SharesAreCharges ==
  ASSUME NEW t, NEW bk \in Books, NEW q, NEW d \in Dims
  PROVE  /\ [p \in Pods |-> Share(t, bk[p], q, d)] \in [Pods -> Nat]
         /\ Shares(t, bk, q, d) \in Nat
         /\ Shares(t, bk, q, d) = ChargedPods(t, bk, "committed", q, d)
                                  + ChargedPods(t, bk, "reserved", q, d)
<1> DEFINE w == [p \in Pods |-> Share(t, bk[p], q, d)]
           u == [p \in Pods |-> Charge(t, bk[p], "committed", q, d)]
           v == [p \in Pods |-> Charge(t, bk[p], "reserved", q, d)]
<1>1. w \in [Pods -> Nat] /\ u \in [Pods -> Nat] /\ v \in [Pods -> Nat]
  BY ShareIsCharge, ChargeType DEF Books
<1>2. \A p \in Pods : (u[p] = w[p] /\ v[p] = 0) \/ (u[p] = 0 /\ v[p] = w[p])
  BY ShareIsCharge DEF Books
<1>3. /\ Total(w) = Shares(t, bk, q, d)
      /\ Total(u) = ChargedPods(t, bk, "committed", q, d)
      /\ Total(v) = ChargedPods(t, bk, "reserved", q, d)
  BY DEF Shares, ChargedPods
<1>4. [p \in Pods |-> Share(t, bk[p], q, d)] \in [Pods -> Nat]
  BY <1>1
<1> HIDE DEF w, u, v
<1>5. Total(w) = Total(u) + Total(v) /\ Total(w) \in Nat
  BY SMT, <1>1, <1>2, TotalSplit, TotalType, LedgerAssumption
<1> QED BY <1>3, <1>4, <1>5

\* Replacing the booking of one pod changes the shares by that pod's share.
LEMMA SharesUpdate ==
  ASSUME NEW t, NEW bk \in Books, NEW bk2 \in Books, NEW q, NEW d \in Dims,
         NEW p \in Pods, \A x \in Pods \ {p} : bk2[x] = bk[x]
  PROVE  Shares(t, bk2, q, d) = Shares(t, bk, q, d) - Share(t, bk[p], q, d) + Share(t, bk2[p], q, d)
<1> DEFINE w == [x \in Pods |-> Share(t, bk[x], q, d)]
           v == [x \in Pods |-> Share(t, bk2[x], q, d)]
<1>1. w \in [Pods -> Nat] /\ v \in [Pods -> Nat]
  BY ShareIsCharge DEF Books
<1>2. \A y \in Pods \ {p} : v[y] = w[y]
  OBVIOUS
<1>3. /\ Total(w) = Shares(t, bk, q, d) /\ Total(v) = Shares(t, bk2, q, d)
      /\ w[p] = Share(t, bk[p], q, d) /\ v[p] = Share(t, bk2[p], q, d)
  BY DEF Shares
<1> HIDE DEF w, v
<1>4. Total(v) = Total(w) - w[p] + v[p]
  BY SMT, <1>1, <1>2, TotalUpdate, LedgerAssumption
<1> QED BY <1>3, <1>4

\* The two counters of a queue, taken together.
LEMMA CountersAreShares ==
  ASSUME NEW t, NEW bk \in Books, NEW H, NEW gb, NEW q, NEW d \in Dims, NEW a, NEW b,
         a = ChargedPods(t, bk, "committed", q, d),
         b = ChargedPods(t, bk, "reserved", q, d) + ChargedGangs(H, gb, q, d)
  PROVE  a + b = Shares(t, bk, q, d) + ChargedGangs(H, gb, q, d)
<1>1. /\ ChargedPods(t, bk, "committed", q, d) \in Nat
      /\ ChargedPods(t, bk, "reserved", q, d) \in Nat
      /\ ChargedGangs(H, gb, q, d) \in Nat
  BY ChargedPodsType, ChargedGangsType
<1>2. Shares(t, bk, q, d)
        = ChargedPods(t, bk, "committed", q, d) + ChargedPods(t, bk, "reserved", q, d)
  BY SMTT(30), SharesAreCharges
<1> QED BY SMT, <1>1, <1>2

\* What counts against max is what the bookings and the held gangs take.
LEMMA UsedIsShares ==
  ASSUME IInv, NEW q \in Paths, NEW d \in Dims
  PROVE  Used[q][d] = Shares(tree, book, q, d) + ChargedGangs(held, gangBook, q, d)
<1>1. book \in Books /\ Used[q][d] = allocated[q][d] + allocating[q][d]
  BY DEF IInv, TypeOK, Books, Used, Plus
<1>2. /\ allocated[q][d] = ChargedPods(tree, book, "committed", q, d)
      /\ allocating[q][d] = ChargedPods(tree, book, "reserved", q, d)
                            + ChargedGangs(held, gangBook, q, d)
  BY DEF IInv, CountersAgree
<1> QED BY SMT, <1>1, <1>2, CountersAreShares

\* The same of the state after a step.
LEMMA UsedIsSharesNext ==
  ASSUME IInv', NEW q \in Paths, NEW d \in Dims
  PROVE  /\ Used'[q][d] = Shares(tree', book', q, d) + ChargedGangs(held', gangBook', q, d)
         /\ book' \in Books
<1>1. book' \in Books /\ Used'[q][d] = allocated'[q][d] + allocating'[q][d]
  BY DEF IInv, TypeOK, Books, Used, Plus
<1>2. /\ allocated'[q][d] = ChargedPods(tree', book', "committed", q, d)
      /\ allocating'[q][d] = ChargedPods(tree', book', "reserved", q, d)
                             + ChargedGangs(held', gangBook', q, d)
  BY DEF IInv, CountersAgree
<1>3. ASSUME NEW t, NEW bk \in Books, NEW H, NEW gb, NEW a, NEW b,
             a = ChargedPods(t, bk, "committed", q, d),
             b = ChargedPods(t, bk, "reserved", q, d) + ChargedGangs(H, gb, q, d)
      PROVE  a + b = Shares(t, bk, q, d) + ChargedGangs(H, gb, q, d)
  BY SMT, <1>3, CountersAreShares
<1> QED BY SMT, <1>1, <1>2, <1>3

\* What a step does not rewrite: the leaf and the request of a booking, and the
\* leaf of a gang that stays held.
TermsKept ==
  /\ \A p \in Pods : (book[p] # NoBook /\ book'[p] # NoBook)
                        => book'[p].leaf = book[p].leaf /\ book'[p].req = book[p].req
  /\ \A g \in held : g \in held' => gangBook'[g] = gangBook[g]

\* Every call of the engine keeps the terms of what it does not release.
LEMMA NextKeepsTerms ==
  ASSUME IInv, [Next]_engineVars
  PROVE  TermsKept
<1>1. /\ TypeOK /\ HeldGangsAreBound /\ book \in [Pods -> BookRec \cup {NoBook}]
      /\ gangBook \in [Gangs -> Paths \cup {NoLeaf}]
  BY DEF IInv, TypeOK
<1>2. CASE UNCHANGED <<book, gangBook>>
  BY <1>2 DEF TermsKept
<1>3. ASSUME NEW p \in Pods, UNCHANGED gangBook,
             \/ book' = book
             \/ book' = [book EXCEPT ![p] = NoBook]
             \/ book' = [book EXCEPT ![p].state = "committed"] /\ book[p] # NoBook
             \/ book[p] = NoBook /\ \E rec : book' = [book EXCEPT ![p] = rec]
      PROVE  TermsKept
  <2>1. \A x \in Pods \ {p} : book'[x] = book[x]
    BY <1>1, <1>3
  <2>2. (book[p] # NoBook /\ book'[p] # NoBook)
           => book'[p].leaf = book[p].leaf /\ book'[p].req = book[p].req
    BY <1>1, <1>3 DEF BookRec
  <2> QED BY <1>3, <2>1, <2>2 DEF TermsKept
<1>4. ASSUME NEW p \in Pods, PodCall(p) PROVE TermsKept
  <2>1. UNCHANGED gangBook
    BY <1>4 DEF PodCall, Reserve, ObserveBound, Unreserve, Commit, ObserveDeleted
  <2>2. \/ book' = book
        \/ book' = [book EXCEPT ![p] = NoBook]
        \/ book' = [book EXCEPT ![p].state = "committed"] /\ book[p] # NoBook
        \/ book[p] = NoBook /\ \E rec : book' = [book EXCEPT ![p] = rec]
    <3> DEFINE OneBooking == \/ book' = book
                             \/ book' = [book EXCEPT ![p] = NoBook]
                             \/ book' = [book EXCEPT ![p].state = "committed"] /\ book[p] # NoBook
                             \/ book[p] = NoBook /\ \E rec : book' = [book EXCEPT ![p] = rec]
    <3>1. book[p].state = "reserved" => book[p] # NoBook
      BY SMT DEF NoBook
    <3>2. ASSUME NEW leaf \in Paths, NEW r \in Requests[p], Reserve(p, leaf, r) PROVE OneBooking
      BY <3>2 DEF Reserve
    <3>3. ASSUME NEW leaf \in Paths, NEW r \in Requests[p], ObserveBound(p, leaf, r) PROVE OneBooking
      BY <3>1, <3>3 DEF ObserveBound, Confirm
    <3>4. ASSUME Unreserve(p) \/ Commit(p) \/ ObserveDeleted(p) PROVE OneBooking
      BY <3>1, <3>4 DEF Unreserve, Commit, ObserveDeleted, Confirm
    <3> QED BY <1>4, <3>2, <3>3, <3>4 DEF PodCall
  <2> QED BY <1>3, <2>1, <2>2
<1>5. ASSUME NEW g \in Gangs, GangCall(g) PROVE TermsKept
  <2>1. CASE ReleaseGang(g)
    BY <1>1, <2>1 DEF ReleaseGang, ReleaseGangs, TermsKept, TypeOK
  <2>2. ASSUME NEW leaf \in Paths, ~Admitted(g), Hold(g, leaf) PROVE TermsKept
    <3>1. g \notin held
      BY <1>1, <2>2 DEF HeldGangsAreBound
    <3> QED BY <1>1, <2>2, <3>1 DEF Hold, TermsKept, TypeOK
  <2> QED BY <1>2, <1>5, <2>1, <2>2
          DEF GangCall, AdmitGang, AdmitGangWW, YieldToBid, RefuseGang, EnterGang, ClaimBid
<1>6. ASSUME NEW live \in SUBSET Pods, GCBookings(live) PROVE TermsKept
  BY <1>1, <1>6 DEF GCBookings, TermsKept
<1>7. ASSUME NEW live \in SUBSET Gangs, GCGangs(live) PROVE TermsKept
  BY <1>1, <1>7 DEF GCGangs, ReleaseGangs, TermsKept, TypeOK
<1>8. ASSUME NEW t \in Trees, NEW H \in SUBSET Gangs, Rebuild(t, H) PROVE TermsKept
  <2>1. ASSUME NEW g \in H PROVE gangBook'[g] = gangBook[g]
    <3>1. CarriedGangs(t)[g] # NoLeaf
      BY <1>8 DEF Rebuild, Reseeded
    <3> QED BY <1>8, <3>1 DEF Rebuild, CarriedGangs
  <2>2. ASSUME NEW p \in Pods, book'[p] # NoBook PROVE book'[p] = book[p]
    BY <1>8, <2>2 DEF Rebuild, CarriedBook
  <2> QED BY <1>8, <2>1, <2>2 DEF TermsKept, Rebuild
<1>9. CASE Tick \/ UNCHANGED engineVars
  BY <1>2, <1>9 DEF Tick, engineVars
<1> QED BY <1>4, <1>5, <1>6, <1>7, <1>8, <1>9 DEF Next

\* As long as the same bookings and gangs are there, on the same terms and the
\* same tree, usage is the same.
LEMMA SameTermsSameUsage ==
  ASSUME IInv, IInv', TermsKept, tree' = tree, held' = held,
         \A p \in Pods : (book'[p] = NoBook) = (book[p] = NoBook)
  PROVE  Used' = Used
<1>1. ASSUME NEW q \in Paths, NEW d \in Dims PROVE Used'[q][d] = Used[q][d]
  <2>1. [p \in Pods |-> Share(tree, book'[p], q, d)] = [p \in Pods |-> Share(tree, book[p], q, d)]
    BY DEF TermsKept, Share
  <2>2. [g \in Gangs |-> IF g \in held' /\ q \in WalkUp(gangBook'[g]) THEN MinRes[g][d] ELSE 0]
          = [g \in Gangs |-> IF g \in held /\ q \in WalkUp(gangBook[g]) THEN MinRes[g][d] ELSE 0]
    BY DEF TermsKept
  <2>3. /\ Shares(tree', book', q, d) = Shares(tree, book, q, d)
        /\ ChargedGangs(held', gangBook', q, d) = ChargedGangs(held, gangBook, q, d)
    BY <2>1, <2>2 DEF Shares, ChargedGangs
  <2> QED BY <2>3, UsedIsShares, UsedIsSharesNext
<1>2. /\ Used = [q \in Paths |-> [d \in Dims |-> Used[q][d]]]
      /\ Used' = [q \in Paths |-> [d \in Dims |-> Used'[q][d]]]
  BY DEF Used, Plus
<1> QED BY <1>1, <1>2

\* The inductive invariant holds in every reachable state of the engine.
THEOREM EngineInvariant == Spec => []IInv
<1>1. Init => IInv
  BY InitIInv DEF Init, EmptyLedgers
<1>2. IInv /\ [Next]_engineVars => IInv'
  BY NextIInv
<1> QED BY <1>1, <1>2, PTL DEF Spec

\* Whatever calls the engine's methods receive, in whatever order, the
\* ledgers, counters and bids keep their shape.
THEOREM TypeCorrect == Spec => []TypeOK
BY EngineInvariant, PTL DEF IInv

\* Whatever calls the engine's methods receive, in whatever order, the roll-up
\* counters of every queue are exactly what the ledgers charge to it, and a gang
\* the tree holds room for is bound to a leaf of that tree.
THEOREM ConservationHolds == Spec => []Conservation
BY EngineInvariant, PTL DEF IInv, Conservation

\* Whatever calls the engine receives, on one tree a step that adds and removes
\* no booking and no hold leaves the usage of every queue as it was; confirming
\* a bind is such a step (queue.go, commit).
THEOREM UsageFollowsLedgerHolds == Spec => UsageFollowsLedger
<1>1. IInv /\ IInv' /\ [Next]_engineVars
        => [ (/\ tree' = tree /\ held' = held
              /\ \A p \in Pods : (book'[p] = NoBook) = (book[p] = NoBook))
             => Used' = Used ]_engineVars
  BY NextKeepsTerms, SameTermsSameUsage
<1> QED BY <1>1, EngineInvariant, PTL DEF Spec, UsageFollowsLedger

-----------------------------------------------------------------------------
(* Gangs and the ceilings.                                                 *)

\* Without new holds and bookings a queue's usage does not rise.
LEMMA FewerHeldUseLess ==
  ASSUME IInv, IInv', TermsKept, tree' = tree, book' = book, held' \subseteq held,
         NEW q \in Paths, NEW d \in Dims
  PROVE  ~(Used'[q][d] > Used[q][d])
<1> DEFINE w == [g \in Gangs |-> IF g \in held /\ q \in WalkUp(gangBook[g]) THEN MinRes[g][d] ELSE 0]
           v == [g \in Gangs |-> IF g \in held' /\ q \in WalkUp(gangBook'[g]) THEN MinRes[g][d] ELSE 0]
<1>1. w \in [Gangs -> Nat] /\ v \in [Gangs -> Nat]
  BY LedgerAssumption DEF Vec
<1>2. ASSUME NEW g \in Gangs PROVE v[g] = w[g] \/ v[g] = 0
  BY DEF TermsKept
<1>3. \A g \in Gangs : v[g] <= w[g]
  <2> HIDE DEF v, w
  <2> QED BY SMT, <1>1, <1>2
<1>4. Total(v) <= Total(w) /\ Total(v) \in Nat /\ Total(w) \in Nat
  <2> HIDE DEF v, w
  <2> QED BY <1>1, <1>3, TotalMonotone, TotalType, LedgerAssumption
<1>5. /\ Used[q][d] = Shares(tree, book, q, d) + Total(w)
      /\ Used'[q][d] = Shares(tree, book, q, d) + Total(v)
  BY UsedIsShares, UsedIsSharesNext DEF ChargedGangs
<1>6. Shares(tree, book, q, d) \in Nat
  BY SharesAreCharges DEF IInv, TypeOK, Books
<1> HIDE DEF v, w
<1> QED BY SMT, <1>4, <1>5, <1>6

\* Where one more gang is held it fits; elsewhere nothing changes.
LEMMA HoldFits ==
  ASSUME IInv, NEW g \in Gangs, NEW leaf, Hold(g, leaf), NEW q \in Paths, NEW d \in Dims,
         d \in DOMAIN tree.max[q], Used'[q][d] > Used[q][d]
  PROVE  Used'[q][d] <= tree.max[q][d]
<1>1. allocating \in Usage /\ allocated \in Usage /\ MinRes[g] \in Vec
  BY LedgerAssumption DEF IInv, TypeOK, Usage
<1>2. allocated' = allocated /\ allocating' = RollUp(allocating, leaf, MinRes[g])
  BY DEF Hold
<1>3. allocating'[q][d] = allocating[q][d] + (IF q \in WalkUp(leaf) THEN MinRes[g][d] ELSE 0)
  BY SMT, <1>1, <1>2, RollUpAt
<1>4. /\ Used[q][d] = allocated[q][d] + allocating[q][d]
      /\ Used'[q][d] = allocated[q][d] + allocating'[q][d]
  BY <1>2 DEF Used, Plus
<1>5. allocated[q][d] \in Int /\ allocating[q][d] \in Int /\ MinRes[g][d] \in Nat
  BY <1>1 DEF Usage, Vec
<1>6. q \in WalkUp(leaf) /\ MinRes[g][d] > 0
  BY SMT, <1>3, <1>4, <1>5
<1>7. Used[q][d] + MinRes[g][d] <= tree.max[q][d]
  BY <1>6 DEF Hold, CanFit
<1>8. Used'[q][d] = Used[q][d] + MinRes[g][d]
  BY SMT, <1>3, <1>4, <1>5, <1>6
<1> QED BY <1>7, <1>8

\* A rebuild on the same tree raises a queue's usage for a gang that fits there.
LEMMA RebuildFits ==
  ASSUME IInv, IInv', NEW H \in SUBSET Gangs, Rebuild(tree, H), book' = book,
         NEW q \in Paths, NEW d \in Dims, d \in DOMAIN tree.max[q], Used'[q][d] > Used[q][d]
  PROVE  Used'[q][d] <= tree.max[q][d]
<1> DEFINE gb == CarriedGangs(tree)
           v == [g \in Gangs |-> IF g \in H /\ q \in WalkUp(gb[g]) THEN MinRes[g][d] ELSE 0]
           C == ChargedPods(tree, book, "committed", q, d)
           R == ChargedPods(tree, book, "reserved", q, d)
<1>1. v \in [Gangs -> Nat] /\ ChargedGangs(H, gb, q, d) = Total(v) /\ Total(v) \in Nat
  <2>1. v \in [Gangs -> Nat] /\ ChargedGangs(H, gb, q, d) = Total(v)
    BY LedgerAssumption DEF Vec, ChargedGangs
  <2> HIDE DEF v
  <2> QED BY <2>1, TotalType, LedgerAssumption
<1>2. C \in Nat /\ R \in Nat
  BY ChargedPodsType DEF IInv, TypeOK, Books
<1>3. Used'[q][d] = C + (R + Total(v))
  BY <1>1 DEF Rebuild, Used, Plus
<1>4. CASE \E g \in H : q \in WalkUp(gb[g]) /\ MinRes[g][d] > 0
  <2>1. C + R + Total(v) <= tree.max[q][d]
    BY <1>1, <1>4 DEF Rebuild, Reseeded
  <2>2. C + (R + Total(v)) = C + R + Total(v)
    BY SMT, <1>1, <1>2
  <2> QED BY <1>3, <2>1, <2>2
<1>5. CASE ~\E g \in H : q \in WalkUp(gb[g]) /\ MinRes[g][d] > 0
  <2>1. ASSUME NEW g \in Gangs PROVE v[g] = 0
    <3>1. MinRes[g][d] \in Nat
      BY LedgerAssumption DEF Vec
    <3>2. MinRes[g][d] > 0 \/ MinRes[g][d] = 0
      BY SMT, <3>1
    <3> QED BY <1>5, <3>2
  <2>2. Total(v) = 0
    <3> HIDE DEF v
    <3> QED BY <1>1, <2>1, TotalZero, LedgerAssumption
  <2>3. /\ Used[q][d] = C + (R + ChargedGangs(held, gangBook, q, d))
        /\ ChargedGangs(held, gangBook, q, d) \in Nat
    BY ChargedGangsType DEF IInv, CountersAgree, Used, Plus
  <2> HIDE DEF C, R, v
  <2> QED BY SMT, <1>2, <1>3, <2>2, <2>3
<1> QED BY <1>4, <1>5

\* The calls that add a hold.
LEMMA NewHolds ==
  ASSUME [Next]_engineVars
  PROVE  \/ held' \subseteq held
         \/ \E g \in Gangs : \E leaf \in Paths : Hold(g, leaf)
         \/ \E t \in Trees, H \in SUBSET Gangs : Rebuild(t, H)
<1>1. ASSUME NEW p \in Pods, PodCall(p) PROVE held' = held
  BY <1>1 DEF PodCall, Reserve, ObserveBound, Unreserve, Commit, ObserveDeleted
<1>2. ASSUME NEW g \in Gangs, GangCall(g)
      PROVE  held' \subseteq held \/ \E leaf \in Paths : Hold(g, leaf)
  BY <1>2 DEF GangCall, AdmitGang, AdmitGangWW, YieldToBid, RefuseGang, EnterGang, ClaimBid,
              ReleaseGang, ReleaseGangs, treeVars
<1>3. ASSUME NEW live, GCBookings(live) \/ GCGangs(live) PROVE held' \subseteq held
  BY <1>3 DEF GCBookings, GCGangs, ReleaseGangs
<1>4. CASE Tick \/ UNCHANGED engineVars
  BY <1>4 DEF Tick, treeVars, engineVars
<1> QED BY <1>1, <1>2, <1>3, <1>4 DEF Next

\* Whatever calls the engine receives, on every tree it can be given, admitting,
\* recovering and re-admitting gangs pushes no queue over its ceiling.
THEOREM GangsNeverOverbookHolds == Spec => GangsNeverOverbook
<1>1. ASSUME IInv, IInv', [Next]_engineVars, tree' = tree, book' = book,
             NEW q \in tree.nodes, NEW d \in DOMAIN tree.max[q], Used'[q][d] > Used[q][d]
      PROVE  Used'[q][d] <= tree.max[q][d]
  <2>1. tree \in Trees /\ q \in Paths /\ d \in Dims
    <3>1. tree \in Trees
      <4>1. tree # NoTree
        BY SMT, <1>1 DEF NoTree
      <4> QED BY <1>1, <4>1 DEF IInv, TypeOK
    <3>2. q \in Paths
      BY <1>1, <3>1 DEF Paths
    <3>3. d \in Dims
      BY <1>1, <3>1, TreeAssumption DEF IsLimit
    <3> QED BY <3>1, <3>2, <3>3
  <2>2. CASE held' \subseteq held
    BY <1>1, <2>1, <2>2, NextKeepsTerms, FewerHeldUseLess
  <2>3. ASSUME NEW g \in Gangs, NEW leaf \in Paths, Hold(g, leaf) PROVE Used'[q][d] <= tree.max[q][d]
    BY <1>1, <2>1, <2>3, HoldFits
  <2>4. ASSUME NEW t \in Trees, NEW H \in SUBSET Gangs, Rebuild(t, H) PROVE Used'[q][d] <= tree.max[q][d]
    <3>1. Rebuild(tree, H)
      BY <1>1, <2>4 DEF Rebuild
    <3> QED BY <1>1, <2>1, <3>1, RebuildFits
  <2> QED BY <1>1, <2>2, <2>3, <2>4, NewHolds
<1>2. IInv /\ IInv' /\ [Next]_engineVars
        => [ tree' = tree /\ book' = book =>
               \A q \in tree.nodes : \A d \in DOMAIN tree.max[q] :
                 Used'[q][d] > Used[q][d] => Used'[q][d] <= tree.max[q][d] ]_engineVars
  BY <1>1
<1> QED BY <1>2, EngineInvariant, PTL DEF Spec, GangsNeverOverbook

-----------------------------------------------------------------------------
(* The head-of-line bids.                                                  *)

\* What BidsOnlyRise says of the bid on q in a step.
BidRises(q) ==
  holBids[q] # NoBid =>
    \/ holBids[q].age > BidTimeout
    \/ /\ holBids'[q] # NoBid
       /\ holBids'[q].key = holBids[q].key \/ WoundWaitLess(holBids'[q].key, holBids[q].key)
    \/ \E g \in Gangs, prio \in Priorities :
         holBids[q].key = WWKey(g, prio) /\ ~Admitted(g) /\ gangBook'[g] = q

\* A bid is told from no bid by having a key.
LEMMA BidIsNoNoBid ==
  ASSUME NEW k, NEW a
  PROVE  [key |-> k, age |-> a] # NoBid
BY DEF NoBid

\* A bid gives way to its like and to one that ranks before it.
LEMMA BidReplaced ==
  ASSUME NEW q, NEW k, NEW a, holBids'[q] = [key |-> k, age |-> a],
         k = holBids[q].key \/ WoundWaitLess(k, holBids[q].key)
  PROVE  BidRises(q)
<1>1. holBids'[q] # NoBid
  BY BidIsNoNoBid
<1>2. holBids'[q].key = k
  BY SMT
<1> QED BY <1>1, <1>2 DEF BidRises

\* The wound-wait order is total on the keys.
LEMMA RankTotal ==
  ASSUME NEW a \in WoundWaitKey, NEW b \in WoundWaitKey, ~WoundWaitLess(a, b)
  PROVE  a = b \/ WoundWaitLess(b, a)
BY SMT DEF WoundWaitKey, WoundWaitLess

\* An attempt to admit a gang.
LEMMA AdmitGangWWBids ==
  ASSUME TypeOK, NEW g \in Gangs, NEW leaf \in Paths, NEW prio \in Priorities,
         AdmitGangWW(g, leaf, prio), NEW q \in Paths
  PROVE  BidRises(q)
<1> DEFINE key == WWKey(g, prio)
<1>1. SUFFICES ASSUME q = leaf, holBids[leaf] \in Bid, holBids[leaf] # NoBid,
                      ~(holBids[leaf].age > BidTimeout)
               PROVE  BidRises(leaf)
  <2>1. CASE q # leaf
    BY <2>1 DEF AdmitGangWW, YieldToBid, RefuseGang, EnterGang, ClaimBid, SetBid, BidRises, TypeOK
  <2> QED BY <2>1 DEF BidRises, TypeOK
<1>2. LiveBid(leaf) = holBids[leaf] /\ holBids[leaf].key \in WoundWaitKey
  BY <1>1 DEF LiveBid, Bid
<1>3. key \in WoundWaitKey /\ ~Admitted(g)
  BY RankAssumption DEF AdmitGangWW, WWKey, WoundWaitKey
<1>4. ASSUME NEW b, SetBid(leaf, b) PROVE holBids'[leaf] = b
  BY <1>4 DEF SetBid, TypeOK
<1>5. CASE YieldToBid(g, leaf, key)
  <2>1. holBids'[leaf] = [key |-> holBids[leaf].key, age |-> 0]
    BY <1>4, <1>5 DEF YieldToBid
  <2> QED BY <2>1, BidReplaced
<1>6. CASE RefuseGang(g, leaf, key)
  BY <1>1, <1>2, <1>4, <1>6 DEF RefuseGang, BidRises
<1>7. CASE EnterGang(g, leaf, key)
  <2>1. CASE holBids[leaf].key = key
    <3>1. gangBook'[g] = leaf
      BY <1>7 DEF EnterGang, Hold, TypeOK
    <3> QED BY <1>3, <2>1, <3>1 DEF BidRises
  <2>2. CASE holBids[leaf].key # key
    <3>1. holBids'[leaf] = holBids[leaf]
      BY <1>2, <1>4, <1>7, <2>2 DEF EnterGang
    <3> QED BY <1>1, <3>1 DEF BidRises
  <2> QED BY <2>1, <2>2
<1>8. CASE ClaimBid(g, leaf, key)
  <2>1. holBids'[leaf] = [key |-> key, age |-> 0]
    BY <1>4, <1>8 DEF ClaimBid
  <2>2. holBids[leaf].key = key \/ ~WoundWaitLess(holBids[leaf].key, key)
    BY <1>1, <1>2, <1>8 DEF ClaimBid, Outranked
  <2>3. holBids[leaf].key = key \/ WoundWaitLess(key, holBids[leaf].key)
    BY <1>2, <1>3, <2>2, RankTotal
  <2> HIDE DEF key
  <2> QED BY <2>1, <2>3, BidReplaced
<1> QED BY <1>5, <1>6, <1>7, <1>8 DEF AdmitGangWW

\* Where no bid changes, and when time passes.
LEMMA OtherBids ==
  ASSUME TypeOK, UNCHANGED holBids \/ Tick, NEW q \in Paths
  PROVE  BidRises(q)
<1>1. CASE UNCHANGED holBids
  BY <1>1 DEF BidRises
<1>2. CASE Tick /\ holBids[q] # NoBid /\ holBids[q].age <= BidTimeout
  <2>1. /\ holBids'[q] = [holBids[q] EXCEPT !.age = @ + 1]
        /\ holBids[q] \in Bid
    BY <1>2 DEF Tick, TypeOK
  <2>2. holBids'[q] = [key |-> holBids[q].key, age |-> holBids[q].age + 1]
    BY <2>1 DEF Bid
  <2> QED BY SMT, <2>2, BidIsNoNoBid DEF BidRises
<1>3. CASE Tick /\ ~(holBids[q] # NoBid /\ holBids[q].age <= BidTimeout)
  BY <1>3, RankAssumption DEF BidRises, Tick, TypeOK, Bid
<1> QED BY <1>1, <1>2, <1>3

\* Every call of an engine method, and every tick.
LEMMA NextBids ==
  ASSUME TypeOK, [Next]_engineVars, NEW q \in Paths
  PROVE  BidRises(q)
<1>1. ASSUME NEW p \in Pods, PodCall(p) PROVE UNCHANGED holBids
  BY <1>1 DEF PodCall, Reserve, ObserveBound, Unreserve, Commit, ObserveDeleted
<1>2. ASSUME NEW g \in Gangs, GangCall(g) PROVE BidRises(q)
  <2>1. ASSUME NEW leaf \in Paths, AdmitGang(g, leaf) PROVE UNCHANGED holBids
    BY <2>1 DEF AdmitGang
  <2>2. CASE ReleaseGang(g)
    BY <2>2, OtherBids DEF ReleaseGang, ReleaseGangs
  <2> QED BY <1>2, <2>1, <2>2, AdmitGangWWBids, OtherBids DEF GangCall
<1>3. ASSUME NEW live, GCBookings(live) PROVE UNCHANGED holBids
  BY <1>3 DEF GCBookings
<1>4. ASSUME NEW live, GCGangs(live) PROVE UNCHANGED holBids
  BY <1>4 DEF GCGangs, ReleaseGangs
<1>5. ASSUME NEW t, NEW H, Rebuild(t, H) PROVE UNCHANGED holBids
  BY <1>5 DEF Rebuild
<1> QED BY <1>1, <1>2, <1>3, <1>4, <1>5, OtherBids DEF Next, engineVars

\* Whatever calls the engine receives, the bid on a leaf is lost only by expiry, to
\* a gang of a higher rank, or because its own gang gets in.
THEOREM BidsRise == Spec => BidsOnlyRise
<1>1. TypeOK /\ [Next]_engineVars => [\A q \in Paths : BidRises(q)]_engineVars
  BY NextBids
<1> QED BY <1>1, TypeCorrect, PTL DEF Spec, BidsOnlyRise, BidRises

-----------------------------------------------------------------------------
(* The gang plugin's admission on one tree.                                *)

\* The engine's invariant, the shape of the plugin's state, and the gangs that the
\* tree has room for.
GInv == IInv /\ AdmissionTypeOK /\ LedgerHoldsRoom

\* The ticks until a gang's next attempt are set or activated.
LEMMA DueKept ==
  ASSUME AdmissionTypeOK, \/ \E g \in Gangs : due' = [due EXCEPT ![g] = RetryWithin]
                          \/ ActivatePending
                          \/ UNCHANGED due
  PROVE  due' \in [Gangs -> 0 .. RetryWithin]
BY SMT, AdmissionAssumption DEF AdmissionTypeOK, ActivatePending

\* An attempt books the gang in the ledger and in the tree, or in neither.
LEMMA AdmitStep ==
  ASSUME GInv, NEW g \in Gangs, Admit(g)
  PROVE  GInv'
<1>1. PICK prio \in Priorities : AdmitGangWW(g, LeafOf[g], prio)
  BY DEF Admit
<1>2. IInv'
  BY <1>1, AdmitGangWWStep, AdmissionAssumption DEF GInv
<1>3. AdmissionTypeOK'
  <2>1. due' \in [Gangs -> 0 .. RetryWithin]
    BY DueKept DEF Admit, GInv
  <2> QED BY <2>1 DEF Admit, GInv, AdmissionTypeOK
<1>4. CASE Hold(g, LeafOf[g])
  <2>1. LeafOf[g] # NoLeaf
    BY AdmissionAssumption, TreeAssumption DEF Paths
  <2>2. held' = held \cup {g} /\ gangBook' = [gangBook EXCEPT ![g] = LeafOf[g]]
    BY <1>4 DEF Hold
  <2> QED BY <1>2, <1>3, <2>1, <2>2 DEF GInv, LedgerHoldsRoom, AdmittedGangs, Admitted, IInv, TypeOK
<1>5. CASE UNCHANGED <<treeVars, gangBook>>
  BY <1>2, <1>3, <1>5 DEF GInv, LedgerHoldsRoom, AdmittedGangs, Admitted, treeVars
<1> QED BY <1>1, <1>4, <1>5 DEF AdmitGangWW, YieldToBid, RefuseGang, EnterGang, ClaimBid

\* A release takes a gang out of the ledger and out of the tree.
LEMMA ReleaseHoldsRoom ==
  ASSUME LedgerHoldsRoom, NEW G, ReleaseGangs(G)
  PROVE  LedgerHoldsRoom'
<1>1. held' = held \ G /\ gangBook' = [g \in Gangs |-> IF g \in G THEN NoLeaf ELSE gangBook[g]]
  BY DEF ReleaseGangs
<1> QED BY <1>1 DEF LedgerHoldsRoom, AdmittedGangs, Admitted

\* A deleted PodGroup, and the sweep.
LEMMA ReleaseStep ==
  ASSUME GInv, GCGroupSweep \/ \E g \in Gangs : OnPodGroupDelete(g)
  PROVE  GInv'
<1>1. PICK G \in SUBSET Gangs : ReleaseGangs(G)
  <2>1. CASE GCGroupSweep
    BY <2>1 DEF GCGroupSweep, GCGangs
  <2>2. ASSUME NEW g \in Gangs, OnPodGroupDelete(g) PROVE ReleaseGangs({g})
    BY <2>2 DEF OnPodGroupDelete, ReleaseGang
  <2> QED BY <2>1, <2>2
<1>2. IInv' /\ LedgerHoldsRoom'
  BY <1>1, ReleaseGangsStep, ReleaseHoldsRoom DEF GInv
<1>3. due' \in [Gangs -> 0 .. RetryWithin]
  BY DueKept DEF GCGroupSweep, OnPodGroupDelete, GInv
<1> QED BY <1>2, <1>3 DEF GInv, GCGroupSweep, OnPodGroupDelete, AdmissionTypeOK

\* The steps that leave the ledgers alone.
LEMMA OtherAdmissionStep ==
  ASSUME GInv, \/ \E g \in Gangs : PreEnqueue(g) \/ OnPodGroupUpsert(g)
               \/ GCListGroups \/ TimePasses
               \/ UNCHANGED admissionVars
  PROVE  GInv'
<1>1. CASE TimePasses
  <2>1. IInv'
    BY <1>1, TickStep DEF TimePasses, GInv
  <2>2. due' \in [Gangs -> 0 .. RetryWithin]
    BY SMT, <1>1, AdmissionAssumption DEF TimePasses, GInv, AdmissionTypeOK
  <2>3. UNCHANGED <<group, admitting, groupSweep, gangBook, held>>
    BY <1>1 DEF TimePasses, Tick, treeVars
  <2> QED BY <2>1, <2>2, <2>3 DEF GInv, AdmissionTypeOK, LedgerHoldsRoom, AdmittedGangs, Admitted
<1>2. CASE ~TimePasses
  <2>1. UNCHANGED engineVars
    BY <1>2 DEF PreEnqueue, OnPodGroupUpsert, GCListGroups, admissionVars
  <2>2. IInv'
    BY <2>1, BidStep DEF engineVars, treeVars, GInv, IInv, TypeOK
  <2>3. due' \in [Gangs -> 0 .. RetryWithin]
    BY <1>2, DueKept DEF PreEnqueue, OnPodGroupUpsert, GCListGroups, admissionVars, GInv
  <2>4. AdmissionTypeOK'
    BY <1>2, <2>3 DEF PreEnqueue, OnPodGroupUpsert, GCListGroups, admissionVars, GInv, AdmissionTypeOK
  <2> QED BY <2>1, <2>2, <2>4 DEF GInv, LedgerHoldsRoom, AdmittedGangs, Admitted, engineVars
<1> QED BY <1>1, <1>2

\* The invariant of gang admission.
THEOREM AdmissionInvariant == AdmissionSpec => []GInv
<1>1. AdmissionInit => GInv
  <2> SUFFICES ASSUME AdmissionInit PROVE GInv
    OBVIOUS
  <2>1. IInv
    BY InitIInv DEF AdmissionInit, EmptyLedgers
  <2>2. due \in [Gangs -> 0 .. RetryWithin]
    BY SMT, AdmissionAssumption DEF AdmissionInit
  <2>3. LedgerHoldsRoom
    BY DEF AdmissionInit, LedgerHoldsRoom, AdmittedGangs, Admitted
  <2> QED BY <2>1, <2>2, <2>3 DEF GInv, AdmissionInit, AdmissionTypeOK
<1>2. GInv /\ [AdmissionNext]_admissionVars => GInv'
  BY AdmitStep, ReleaseStep, OtherAdmissionStep DEF AdmissionNext
<1> QED BY <1>1, <1>2, PTL DEF AdmissionSpec

\* For any gangs, ranks and retries, with PodGroups deleted under a member that is
\* being admitted and sweeps that are out of date, the ledger and the tree agree on
\* the gangs that are in.
THEOREM LedgerHoldsRoomHolds == AdmissionSpec => []LedgerHoldsRoom
BY AdmissionInvariant, PTL DEF GInv

\* Under the plugin's traffic too the counters are what the ledgers charge.
THEOREM AdmissionConservation == AdmissionSpec => []Conservation
BY AdmissionInvariant, PTL DEF GInv, IInv, Conservation

\* Nor does the plugin's traffic ever let a lower-ranked gang take over a bid.
THEOREM AdmissionBidsRise == AdmissionSpec => BidsOnlyRise
<1>1. GInv /\ [AdmissionNext]_admissionVars => [\A q \in Paths : BidRises(q)]_engineVars
  <2> SUFFICES ASSUME GInv, [AdmissionNext]_admissionVars, NEW q \in Paths
               PROVE  BidRises(q)
    OBVIOUS
  <2>1. TypeOK
    BY DEF GInv, IInv
  <2>2. ASSUME NEW g \in Gangs, Admit(g) PROVE BidRises(q)
    BY <2>1, <2>2, AdmitGangWWBids, AdmissionAssumption DEF Admit
  <2>3. ASSUME NEW g \in Gangs, PreEnqueue(g) \/ OnPodGroupDelete(g) \/ OnPodGroupUpsert(g)
        PROVE  UNCHANGED holBids
    BY <2>3 DEF PreEnqueue, OnPodGroupDelete, ReleaseGang, ReleaseGangs, OnPodGroupUpsert, engineVars
  <2>4. CASE GCListGroups \/ GCGroupSweep
    BY <2>1, <2>4, OtherBids DEF GCListGroups, GCGroupSweep, GCGangs, ReleaseGangs, engineVars
  <2> QED BY <2>1, <2>2, <2>3, <2>4, OtherBids DEF AdmissionNext, TimePasses, admissionVars, engineVars
<1> QED BY <1>1, AdmissionInvariant, PTL DEF AdmissionSpec, BidsOnlyRise, BidRises
=============================================================================
