------------------------------- MODULE Engine -------------------------------
(***************************************************************************)
(* pkg/framework/engine.go: the booking ledgers of one scheduler process   *)
(* and the queue tree they are charged to.                                 *)
(*                                                                         *)
(* Every method of Engine runs under e.mu, so each is one action here; who *)
(* calls them, and in which order, is left to the modules that extend this *)
(* one.  Next below lets every goroutine call everything at any time: what *)
(* it satisfies holds whatever the plugins, informer handlers, rebuild     *)
(* loop and garbage collector do between them.                             *)
(***************************************************************************)
EXTENDS QueueTree

CONSTANTS
  Pods,        \* pod UIDs
  Gangs,       \* PodGroup keys (namespace/name)
  Trees,       \* the queue trees a rebuild may install
  Requests,    \* the footprints a pod is booked with: PreFilter adds the DRA
               \*   device counts, the informer path does not
  MinRes,      \* a gang's aggregate minResources
  Priorities,  \* priorities a gang member may carry
  GangAge,     \* a gang's age: larger is older
  GangUid,     \* position of the gang's key in the order of strings
  BidTimeout   \* GangScheduleTimeout, in ticks

Paths == UNION {t.nodes : t \in Trees}

ASSUME LedgerAssumption ==
  /\ IsFiniteSet(Pods) /\ IsFiniteSet(Gangs)
  /\ Requests \in [Pods -> SUBSET Vec]
  /\ MinRes \in [Gangs -> Vec]

ASSUME TreeAssumption ==
  \A t \in Trees :
    /\ NoLeaf \notin t.nodes
    /\ \A q \in t.nodes : q \in WalkUp(q) /\ WalkUp(q) \subseteq t.nodes
    /\ \A q \in t.nodes : IsLimit(t.max[q])

ASSUME TreesAreValid ==
  \A t \in Trees : ValidBuild(t) /\ ValidatePlacement(t)

ASSUME RankAssumption ==
  /\ Priorities \subseteq Int
  /\ GangAge \in [Gangs -> Int]
  /\ GangUid \in [Gangs -> Int]
  /\ \A g, h \in Gangs : GangUid[g] = GangUid[h] => g = h
  /\ BidTimeout \in Nat

VARIABLES
  tree,        \* snapshot.tree; NoTree until the first rebuild
  allocated,   \* per queue: confirmed usage, rolled up
  allocating,  \* per queue: in-flight reservations and gang holds, rolled up
  held,        \* QueueManager.gangs: the gangs the current tree holds room for
  book,        \* Engine.book: pod -> booking
  gangBook,    \* Engine.gangBook: gang -> leaf it is bound to, or NoLeaf
  holBids      \* Engine.holBids: leaf -> head-of-line bid, with its age

treeVars == <<tree, allocated, allocating, held>>
engineVars == <<tree, allocated, allocating, held, book, gangBook, holBids>>

NoTree == [nodes |-> {}, max |-> <<>>, guaranteed |-> <<>>, sas |-> <<>>, dflt |-> {}]

NoBook == [state |-> "none"]
BookRec == [state : {"reserved", "committed"}, leaf : Paths, req : Vec]

WoundWaitKey == [prio : Int, age : Int, uid : Int]
NoBid == [age |-> 0]
Bid == [key : WoundWaitKey, age : 0 .. BidTimeout + 1]

Admitted(g) == gangBook[g] # NoLeaf
AdmittedGangs == {g \in Gangs : Admitted(g)}

Init ==
  /\ tree = NoTree
  /\ allocated = [q \in Paths |-> Zero]
  /\ allocating = [q \in Paths |-> Zero]
  /\ held = {}
  /\ book = [p \in Pods |-> NoBook]
  /\ gangBook = [g \in Gangs |-> NoLeaf]
  /\ holBids = [q \in Paths |-> NoBid]

-----------------------------------------------------------------------------
(* Roll-ups (Queue.reserve, unreserve, commit, allocate, release): r is    *)
(* added to, or taken from, a counter on the leaf and all its ancestors.   *)

Plus(a, b) == [d \in Dims |-> a[d] + b[d]]
Minus(a, b) == [d \in Dims |-> a[d] - b[d]]

RollUp(acc, leaf, r) ==
  [q \in Paths |-> IF q \in WalkUp(leaf) THEN Plus(acc[q], r) ELSE acc[q]]

RollDown(acc, leaf, r) ==
  [q \in Paths |-> IF q \in WalkUp(leaf) THEN Minus(acc[q], r) ELSE acc[q]]

\* What QueueManager.mutate really applies: nothing unless leaf is a leaf now.
Applied(leaf, r) == IF Bookable(tree, leaf) THEN r ELSE Zero

Used == [q \in Paths |-> Plus(allocated[q], allocating[q])]

-----------------------------------------------------------------------------
(* Pod bookings.                                                           *)

Reserve(p, leaf, r) ==
  /\ IF book[p] = NoBook /\ Bookable(tree, leaf)
     THEN /\ allocating' = RollUp(allocating, leaf, r)
          /\ book' = [book EXCEPT ![p] = [state |-> "reserved", leaf |-> leaf, req |-> r]]
     ELSE UNCHANGED <<allocating, book>>
  /\ UNCHANGED <<tree, allocated, held, gangBook, holBids>>

\* Mutant: a rollback also takes back what has been confirmed.
UnreserveAnyState(p) ==
  /\ IF book[p] # NoBook
     THEN /\ allocating' = RollDown(allocating, book[p].leaf, Applied(book[p].leaf, book[p].req))
          /\ book' = [book EXCEPT ![p] = NoBook]
     ELSE UNCHANGED <<allocating, book>>
  /\ UNCHANGED <<tree, allocated, held, gangBook, holBids>>

Unreserve(p) ==
  /\ IF book[p].state = "reserved"
     THEN /\ allocating' = RollDown(allocating, book[p].leaf, Applied(book[p].leaf, book[p].req))
          /\ book' = [book EXCEPT ![p] = NoBook]
     ELSE UNCHANGED <<allocating, book>>
  /\ UNCHANGED <<tree, allocated, held, gangBook, holBids>>

\* Mutant: the in-flight share is not taken back on confirmation.
ConfirmTwice(p) ==
  /\ allocated' = RollUp(allocated, book[p].leaf, Applied(book[p].leaf, book[p].req))
  /\ book' = [book EXCEPT ![p].state = "committed"]
  /\ UNCHANGED allocating

Confirm(p) ==
  /\ allocating' = RollDown(allocating, book[p].leaf, Applied(book[p].leaf, book[p].req))
  /\ allocated' = RollUp(allocated, book[p].leaf, Applied(book[p].leaf, book[p].req))
  /\ book' = [book EXCEPT ![p].state = "committed"]

\* Mutant: the ledger is written without looking the pod up.
CommitUnchecked(p) ==
  /\ book' = [book EXCEPT ![p].state = "committed"]
  /\ UNCHANGED <<allocated, allocating, tree, held, gangBook, holBids>>

Commit(p) ==
  /\ IF book[p].state = "reserved" THEN Confirm(p)
     ELSE UNCHANGED <<allocated, allocating, book>>
  /\ UNCHANGED <<tree, held, gangBook, holBids>>

\* A pod never seen before is charged directly, with no fit check.
ObserveBound(p, leaf, r) ==
  /\ CASE book[p].state = "reserved" -> Confirm(p)
       [] book[p] = NoBook /\ leaf \in tree.nodes ->
            /\ allocated' = RollUp(allocated, leaf, Applied(leaf, r))
            /\ book' = [book EXCEPT ![p] = [state |-> "committed", leaf |-> leaf, req |-> r]]
            /\ UNCHANGED allocating
       [] OTHER -> UNCHANGED <<allocated, allocating, book>>
  /\ UNCHANGED <<tree, held, gangBook, holBids>>

ObserveDeleted(p) ==
  LET freed == Applied(book[p].leaf, book[p].req)
  IN  /\ CASE book[p].state = "committed" ->
                /\ allocated' = RollDown(allocated, book[p].leaf, freed)
                /\ UNCHANGED allocating
           [] book[p].state = "reserved" ->
                /\ allocating' = RollDown(allocating, book[p].leaf, freed)
                /\ UNCHANGED allocated
           [] OTHER -> UNCHANGED <<allocated, allocating>>
      /\ book' = [book EXCEPT ![p] = NoBook]
      /\ UNCHANGED <<tree, held, gangBook, holBids>>

-----------------------------------------------------------------------------
(* What the ledgers charge to a queue: the amount of dimension d that the  *)
(* booking rec, in state st, puts on queue q of tree t.                    *)

Charge(t, rec, st, q, d) ==
  IF rec.state = st /\ Bookable(t, rec.leaf) /\ q \in WalkUp(rec.leaf)
  THEN rec.req[d] ELSE 0

ChargedPods(t, bk, st, q, d) == Total([p \in Pods |-> Charge(t, bk[p], st, q, d)])

ChargedGangs(H, gb, q, d) ==
  Total([g \in Gangs |-> IF g \in H /\ q \in WalkUp(gb[g]) THEN MinRes[g][d] ELSE 0])

\* One sweep of GCBookings: every booking outside live is released.
GCBookings(live) ==
  LET stale == [p \in Pods |-> IF p \in live THEN NoBook ELSE book[p]]
  IN  /\ tree # NoTree
      /\ allocated' = [q \in Paths |-> [d \in Dims |->
            allocated[q][d] - ChargedPods(tree, stale, "committed", q, d)]]
      /\ allocating' = [q \in Paths |-> [d \in Dims |->
            allocating[q][d] - ChargedPods(tree, stale, "reserved", q, d)]]
      /\ book' = [p \in Pods |-> IF p \in live THEN book[p] ELSE NoBook]
      /\ UNCHANGED <<tree, held, gangBook, holBids>>

-----------------------------------------------------------------------------
(* Gang reservations.                                                      *)

\* The errors of QueueManager.AdmitGang: retrying cannot help in this tree.
Inadmissible(t, leaf, g) ==
  ~(StrictlyGtZero(MinRes[g]) /\ Bookable(t, leaf) /\ FitsMax(t, leaf, MinRes[g]))

\* The whole gang is reserved and bound to the leaf, or nothing is.
Hold(g, leaf) ==
  /\ ~Inadmissible(tree, leaf, g)
  /\ CanFit(tree, Used, leaf, MinRes[g])
  /\ allocating' = RollUp(allocating, leaf, MinRes[g])
  /\ held' = held \cup {g}
  /\ gangBook' = [gangBook EXCEPT ![g] = leaf]
  /\ UNCHANGED <<tree, allocated, book>>

\* Plain AdmitGang, the recovery path: no head-of-line bid is looked at.
AdmitGang(g, leaf) ==
  /\ ~Admitted(g)
  /\ Hold(g, leaf)
  /\ UNCHANGED holBids

WWKey(g, prio) == [prio |-> prio, age |-> GangAge[g], uid |-> GangUid[g]]

WoundWaitLess(a, b) ==
  \/ a.prio > b.prio
  \/ a.prio = b.prio /\ a.age > b.age
  \/ a.prio = b.prio /\ a.age = b.age /\ a.uid < b.uid

\* The bid on a leaf, once a stale one has been dropped.
LiveBid(leaf) ==
  IF holBids[leaf] # NoBid /\ holBids[leaf].age > BidTimeout THEN NoBid ELSE holBids[leaf]

\* Mutant: no gang ever yields to a bid.
NeverOutranked(leaf, key) == FALSE

Outranked(leaf, key) ==
  LET bid == LiveBid(leaf)
  IN  bid # NoBid /\ bid.key # key /\ WoundWaitLess(bid.key, key)

SetBid(leaf, bid) == holBids' = [holBids EXCEPT ![leaf] = bid]

YieldToBid(g, leaf, key) ==
  /\ Outranked(leaf, key)
  /\ SetBid(leaf, [key |-> holBids[leaf].key, age |-> 0])
  /\ UNCHANGED <<treeVars, book, gangBook>>

RefuseGang(g, leaf, key) ==
  /\ ~Outranked(leaf, key)
  /\ Inadmissible(tree, leaf, g)
  /\ SetBid(leaf, LiveBid(leaf))
  /\ UNCHANGED <<treeVars, book, gangBook>>

EnterGang(g, leaf, key) ==
  /\ ~Outranked(leaf, key)
  /\ Hold(g, leaf)
  /\ SetBid(leaf, IF LiveBid(leaf) # NoBid /\ LiveBid(leaf).key = key
                  THEN NoBid ELSE LiveBid(leaf))

ClaimBid(g, leaf, key) ==
  /\ ~Outranked(leaf, key)
  /\ ~Inadmissible(tree, leaf, g)
  /\ ~CanFit(tree, Used, leaf, MinRes[g])
  /\ SetBid(leaf, [key |-> key, age |-> 0])
  /\ UNCHANGED <<treeVars, book, gangBook>>

AdmitGangWW(g, leaf, prio) ==
  LET key == WWKey(g, prio)
  IN  /\ ~Admitted(g)
      /\ tree # NoTree
      /\ \/ YieldToBid(g, leaf, key)
         \/ RefuseGang(g, leaf, key)
         \/ EnterGang(g, leaf, key)
         \/ ClaimBid(g, leaf, key)

\* Mutant: the ledger forgets the gangs, the tree does not.
ReleaseLedgerOnly(G) ==
  /\ gangBook' = [g \in Gangs |-> IF g \in G THEN NoLeaf ELSE gangBook[g]]
  /\ UNCHANGED <<treeVars, book, holBids>>

\* ReleaseGang and GCGangs: every gang of G loses its hold and its binding.
ReleaseGangs(G) ==
  /\ allocating' = [q \in Paths |-> [d \in Dims |->
        allocating[q][d] - ChargedGangs(G \cap held, gangBook, q, d)]]
  /\ held' = held \ G
  /\ gangBook' = [g \in Gangs |-> IF g \in G THEN NoLeaf ELSE gangBook[g]]
  /\ UNCHANGED <<tree, allocated, book, holBids>>

ReleaseGang(g) == ReleaseGangs({g})

GCGangs(live) == ReleaseGangs(Gangs \ live)

\* Time passes; a bid's age stops counting once it can only be stale.
Tick ==
  /\ holBids' = [q \in Paths |->
        IF holBids[q] # NoBid /\ holBids[q].age <= BidTimeout
        THEN [holBids[q] EXCEPT !.age = @ + 1] ELSE holBids[q]]
  /\ UNCHANGED <<treeVars, book, gangBook>>

-----------------------------------------------------------------------------
(* Rebuild re-seeds the fresh tree t from the ledgers and swaps it in.     *)
(* Bookings on a path that t lacks are dropped; the others are booked on t *)
(* again, where booking on a queue that is no longer a leaf fails and its  *)
(* error is ignored.  The gangs are then admitted one by one in the order  *)
(* of a Go map, each only if it fits, and a refusal is ignored as well.    *)
(* Whatever the order, the set H that gets in is one that fits as a whole  *)
(* and leaves no room for any gang outside it.                             *)

CarriedBook(t) == [p \in Pods |->
  IF book[p] # NoBook /\ book[p].leaf \notin t.nodes THEN NoBook ELSE book[p]]

CarriedGangs(t) == [g \in Gangs |->
  IF gangBook[g] \in t.nodes THEN gangBook[g] ELSE NoLeaf]

Reseeded(t, H) ==
  LET gb   == CarriedGangs(t)
      can  == {g \in Gangs : gb[g] # NoLeaf /\ ~Inadmissible(t, gb[g], g)}
      used == [q \in Paths |-> [d \in Dims |->
                 ChargedPods(t, book, "committed", q, d)
                 + ChargedPods(t, book, "reserved", q, d)
                 + ChargedGangs(H, gb, q, d)]]
  IN  /\ H \subseteq can
      /\ \A g \in H : \A n \in WalkUp(gb[g]) : \A d \in DOMAIN t.max[n] :
           MinRes[g][d] > 0 => used[n][d] <= t.max[n][d]
      /\ \A g \in can \ H : ~CanFit(t, used, gb[g], MinRes[g])

Rebuild(t, H) ==
  /\ Reseeded(t, H)
  /\ tree' = t
  /\ book' = CarriedBook(t)
  /\ gangBook' = CarriedGangs(t)
  /\ held' = H
  /\ allocated' = [q \in Paths |-> [d \in Dims |->
        ChargedPods(t, book, "committed", q, d)]]
  /\ allocating' = [q \in Paths |-> [d \in Dims |->
        ChargedPods(t, book, "reserved", q, d) + ChargedGangs(H, CarriedGangs(t), q, d)]]
  /\ UNCHANGED holBids

-----------------------------------------------------------------------------
PodCall(p) ==
  \/ \E leaf \in Paths, r \in Requests[p] : Reserve(p, leaf, r) \/ ObserveBound(p, leaf, r)
  \/ Unreserve(p)
  \/ Commit(p)
  \/ ObserveDeleted(p)

GangCall(g) ==
  \/ \E leaf \in Paths : AdmitGang(g, leaf)
  \/ \E leaf \in Paths, prio \in Priorities : AdmitGangWW(g, leaf, prio)
  \/ ReleaseGang(g)

Next ==
  \/ \E p \in Pods : PodCall(p)
  \/ \E g \in Gangs : GangCall(g)
  \/ \E live \in SUBSET Pods : GCBookings(live)
  \/ \E live \in SUBSET Gangs : GCGangs(live)
  \/ \E t \in Trees, H \in SUBSET Gangs : Rebuild(t, H)
  \/ Tick

Spec == Init /\ [][Next]_engineVars

-----------------------------------------------------------------------------
(* Properties.                                                             *)

\* The shape of the ledgers, the tree's counters and the bids.
TypeOK ==
  /\ tree \in Trees \cup {NoTree}
  /\ allocated \in [Paths -> [Dims -> Int]]
  /\ allocating \in [Paths -> [Dims -> Int]]
  /\ held \subseteq Gangs
  /\ book \in [Pods -> BookRec \cup {NoBook}]
  /\ gangBook \in [Gangs -> Paths \cup {NoLeaf}]
  /\ holBids \in [Paths -> Bid \cup {NoBid}]

\* Every counter of every queue is exactly what the ledgers charge to it.
CountersAgree ==
  \A q \in Paths, d \in Dims :
    /\ allocated[q][d] = ChargedPods(tree, book, "committed", q, d)
    /\ allocating[q][d] = ChargedPods(tree, book, "reserved", q, d)
                          + ChargedGangs(held, gangBook, q, d)

\* Every gang the tree holds room for is bound, in the ledger, to a leaf of
\* that tree, so that releasing it finds the room it must give back.
HeldGangsAreBound ==
  \A g \in held : Admitted(g) /\ Bookable(tree, gangBook[g])

\* Conservation.  Whatever the order of reserves, commits, observed binds and
\* deletes, rollbacks, sweeps and rebuilds, the tree's counters and its gangs are
\* what the ledgers say: nothing is counted twice, nothing is released twice and
\* nothing leaks (engine.go: "keyed by uid and idempotent").
Conservation == CountersAgree /\ HeldGangsAreBound

\* Usage follows the ledger.  On one tree, a step that neither adds nor removes
\* a booking or a gang hold leaves what counts against max unchanged on every
\* queue; in particular a bind confirmation does (queue.go, commit: "the used
\* total is unchanged, so no fit re-check races").
UsageFollowsLedger ==
  [][ (/\ tree' = tree /\ held' = held
       /\ \A p \in Pods : (book'[p] = NoBook) = (book[p] = NoBook))
      => Used' = Used ]_engineVars

\* Gangs never overbook.  A queue is pushed over its max by bookings of pods alone
\* (those of running pods are made without a check, engine.go:419-443): a step that
\* leaves them as they are, be it the admission of a gang, its recovery or a rebuild
\* that takes in gangs an earlier one had refused (engine.go:207-213), ends within the
\* ceiling of every queue, ancestors included, whose usage it raises.
GangsNeverOverbook ==
  [][ tree' = tree /\ book' = book =>
        \A q \in tree.nodes : \A d \in DOMAIN tree.max[q] :
          Used'[q][d] > Used[q][d] => Used'[q][d] <= tree.max[q][d] ]_engineVars

\* A head-of-line reservation is only lost upwards (engine.go:264-289): the bid on
\* a leaf stays with its gang, refreshed or older, until it has outlived
\* GangScheduleTimeout, a gang that outranks it takes it over, or its own gang gets
\* in there.  However the members of gangs of any rank are retried, sweeps release
\* gangs and rebuilds swap trees, no lower-ranked gang ever displaces it.
BidsOnlyRise ==
  [][\A q \in Paths : holBids[q] # NoBid =>
       \/ holBids[q].age > BidTimeout
       \/ /\ holBids'[q] # NoBid
          /\ holBids'[q].key = holBids[q].key \/ WoundWaitLess(holBids'[q].key, holBids[q].key)
       \/ \E g \in Gangs, prio \in Priorities :
            holBids[q].key = WWKey(g, prio) /\ ~Admitted(g) /\ gangBook'[g] = q]_engineVars
=============================================================================
