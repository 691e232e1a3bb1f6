--------------------------- MODULE TotalTheorems ---------------------------
(***************************************************************************)
(* What Total computes: the facts about sums that the conservation and     *)
(* quota proofs rest on, for a function from a finite set to Nat; and that *)
(* finite sets have extreme elements.                                      *)
(***************************************************************************)
EXTENDS Totals, FiniteSetTheorems, TLAPS

\* A leaf is for Zenon unless it names another prover: arithmetic is for SMT.
USE ZenonT(30)

\* Membership in the cells of w, spelled out.
LEMMA CellsMember ==
  ASSUME NEW S, NEW w \in [S -> Nat]
  PROVE  \A c : c \in Cells(w) <=> \E x \in S, i \in Nat : i \in 1 .. w[x] /\ c = <<x, i>>
BY SMT DEF Cells

\* A column of cells is finite and as tall as the value it stands for.
LEMMA ColumnSize ==
  ASSUME NEW x, NEW n \in Nat
  PROVE  /\ IsFiniteSet({x} \X (1 .. n))
         /\ Cardinality({x} \X (1 .. n)) = n
<1>1. IsFiniteSet({x}) /\ Cardinality({x}) = 1
  BY FS_Singleton
<1>2. IsFiniteSet(1 .. n) /\ Cardinality(1 .. n) = n
  BY SMT, FS_Interval
<1>3. /\ IsFiniteSet({x} \X (1 .. n))
      /\ Cardinality({x} \X (1 .. n)) = Cardinality({x}) * Cardinality(1 .. n)
  BY <1>1, <1>2, FS_Product
<1> QED BY SMT, <1>1, <1>2, <1>3

\* A function from a finite set to Nat has a natural number as its total.
LEMMA TotalType ==
  ASSUME NEW S, IsFiniteSet(S), NEW w \in [S -> Nat]
  PROVE  /\ IsFiniteSet(Cells(w))
         /\ Total(w) \in Nat
<1> DEFINE Cols == {{x} \X (1 .. w[x]) : x \in S}
           f == [x \in S |-> {x} \X (1 .. w[x])]
<1>1. f \in Surjection(S, Cols)
  BY DEF Surjection
<1>2. IsFiniteSet(Cols)
  BY <1>1, FS_Surjection
<1>3. \A T \in Cols : IsFiniteSet(T)
  <2>1. ASSUME NEW x \in S PROVE IsFiniteSet({x} \X (1 .. w[x]))
    <3>1. w[x] \in Nat
      OBVIOUS
    <3> QED BY <3>1, ColumnSize
  <2> QED BY <2>1
<1>4. IsFiniteSet(UNION Cols)
  BY <1>2, <1>3, FS_UNION
<1>5. Cells(w) = UNION Cols
  BY DEF Cells
<1> QED BY <1>4, <1>5, FS_CardinalityType DEF Total

\* If every value of w is found either in u or in v, whole, and the other one
\* has 0 there, the total of w is split between them.
LEMMA TotalSplit ==
  ASSUME NEW S, IsFiniteSet(S),
         NEW w \in [S -> Nat], NEW u \in [S -> Nat], NEW v \in [S -> Nat],
         \A x \in S : (u[x] = w[x] /\ v[x] = 0) \/ (u[x] = 0 /\ v[x] = w[x])
  PROVE  Total(w) = Total(u) + Total(v)
<1>1. Cells(w) = Cells(u) \cup Cells(v)
  <2>1. ASSUME NEW c \in Cells(w) PROVE c \in Cells(u) \cup Cells(v)
    <3>1. PICK x \in S, i \in Nat : i \in 1 .. w[x] /\ c = <<x, i>>
      BY SMT, <2>1, CellsMember
    <3>2. i \in 1 .. u[x] \/ i \in 1 .. v[x]
      BY <3>1
    <3> QED BY <3>1, <3>2, CellsMember
  <2>2. ASSUME NEW c \in Cells(u) \cup Cells(v) PROVE c \in Cells(w)
    <3>1. PICK x \in S, i \in Nat : (i \in 1 .. u[x] \/ i \in 1 .. v[x]) /\ c = <<x, i>>
      BY SMT, <2>2, CellsMember
    <3>2. i \in 1 .. w[x]
      BY SMT, <3>1
    <3> QED BY <3>1, <3>2, CellsMember
  <2> QED BY <2>1, <2>2
<1>2. Cells(u) \cap Cells(v) = {}
  <2>1. ASSUME NEW c \in Cells(u), c \in Cells(v) PROVE FALSE
    <3>1. PICK x \in S, i \in Nat : i \in 1 .. u[x] /\ c = <<x, i>>
      BY SMT, <2>1, CellsMember
    <3>2. PICK y \in S, j \in Nat : j \in 1 .. v[y] /\ c = <<y, j>>
      BY SMT, <2>1, CellsMember
    <3>3. x = y /\ i = j
      BY SMT, <3>1, <3>2
    <3> QED BY SMT, <3>1, <3>2, <3>3
  <2> QED BY <2>1
<1>3. IsFiniteSet(Cells(u)) /\ IsFiniteSet(Cells(v))
  BY TotalType
<1>4. Cardinality(Cells(w)) = Cardinality(Cells(u)) + Cardinality(Cells(v))
                              - Cardinality(Cells(u) \cap Cells(v))
  BY <1>1, <1>3, FS_Union
<1>5. Cardinality(Cells(u) \cap Cells(v)) = 0
  BY <1>2, FS_EmptySet
<1>6. Total(u) \in Nat /\ Total(v) \in Nat
  BY TotalType
<1> QED BY SMT, <1>4, <1>5, <1>6 DEF Total

\* A function that is 0 everywhere but at x has its value there as its total.
LEMMA TotalSingle ==
  ASSUME NEW S, IsFiniteSet(S), NEW w \in [S -> Nat], NEW x \in S,
         \A y \in S \ {x} : w[y] = 0
  PROVE  Total(w) = w[x]
<1>1. Cells(w) = {x} \X (1 .. w[x])
  <2>1. ASSUME NEW c \in Cells(w) PROVE c \in {x} \X (1 .. w[x])
    <3>1. PICK y \in S, i \in Nat : i \in 1 .. w[y] /\ c = <<y, i>>
      BY SMT, <2>1, CellsMember
    <3>2. y = x
      BY SMT, <3>1
    <3> QED BY <3>1, <3>2
  <2>2. ASSUME NEW c \in {x} \X (1 .. w[x]) PROVE c \in Cells(w)
    BY SMT, <2>2, CellsMember
  <2> QED BY <2>1, <2>2
<1>2. w[x] \in Nat
  OBVIOUS
<1>3. Cardinality({x} \X (1 .. w[x])) = w[x]
  BY <1>2, ColumnSize
<1> QED BY <1>1, <1>3 DEF Total

\* The total of a function that is 0 everywhere is 0.
LEMMA TotalZero ==
  ASSUME NEW S, IsFiniteSet(S), NEW w \in [S -> Nat], \A x \in S : w[x] = 0
  PROVE  Total(w) = 0
<1>1. Total(w) = Total(w) + Total(w)
  BY SMT, TotalSplit
<1>2. Total(w) \in Nat
  BY TotalType
<1>3. \A n \in Nat : n = n + n => n = 0
  BY SMT
<1> HIDE DEF Total
<1> QED BY <1>1, <1>2, <1>3

\* Changing one value changes the total by as much.
LEMMA TotalUpdate ==
  ASSUME NEW S, IsFiniteSet(S), NEW w \in [S -> Nat], NEW v \in [S -> Nat],
         NEW x \in S, \A y \in S \ {x} : v[y] = w[y]
  PROVE  Total(v) = Total(w) - w[x] + v[x]
<1> DEFINE rest == [y \in S |-> IF y = x THEN 0 ELSE w[y]]
           wx == [y \in S |-> IF y = x THEN w[x] ELSE 0]
           vx == [y \in S |-> IF y = x THEN v[x] ELSE 0]
<1>1. rest \in [S -> Nat] /\ wx \in [S -> Nat] /\ vx \in [S -> Nat]
  OBVIOUS
<1>2. Total(w) = Total(rest) + Total(wx)
  BY SMT, <1>1, TotalSplit
<1>3. Total(v) = Total(rest) + Total(vx)
  BY SMT, <1>1, TotalSplit
<1>4. Total(wx) = w[x] /\ Total(vx) = v[x]
  BY <1>1, TotalSingle
<1>5. Total(rest) \in Nat
  BY <1>1, TotalType
<1> HIDE DEF rest, wx, vx
<1> QED BY SMT, <1>2, <1>3, <1>4, <1>5

\* A function that is nowhere larger has no larger total.
LEMMA TotalMonotone ==
  ASSUME NEW S, IsFiniteSet(S), NEW w \in [S -> Nat], NEW v \in [S -> Nat],
         \A x \in S : v[x] <= w[x]
  PROVE  Total(v) <= Total(w)
<1>1. Cells(v) \subseteq Cells(w)
  <2>1. ASSUME NEW c \in Cells(v) PROVE c \in Cells(w)
    <3>1. PICK x \in S, i \in Nat : i \in 1 .. v[x] /\ c = <<x, i>>
      BY SMT, <2>1, CellsMember
    <3>2. i \in 1 .. w[x]
      BY SMT, <3>1
    <3> QED BY <3>1, <3>2, CellsMember
  <2> QED BY <2>1
<1> QED BY <1>1, TotalType, FS_Subset DEF Total

\* Functions with the same values have the same total.
LEMMA TotalEqual ==
  ASSUME NEW S, NEW w \in [S -> Nat], NEW v \in [S -> Nat], \A x \in S : v[x] = w[x]
  PROVE  Total(v) = Total(w)
<1>1. v = w
  BY SMT
<1> QED BY <1>1

\* Where a function is zero it need not be defined: the total over a subset.
LEMMA TotalRestrict ==
  ASSUME NEW T, NEW S \in SUBSET T, NEW w \in [S -> Nat], NEW v \in [T -> Nat],
         \A x \in S : v[x] = w[x], \A x \in T \ S : v[x] = 0
  PROVE  Total(v) = Total(w)
<1>1. ASSUME NEW c PROVE c \in Cells(v) <=> c \in Cells(w)
  <2>1. ASSUME c \in Cells(v) PROVE c \in Cells(w)
    <3>1. PICK x \in T, i \in Nat : i \in 1 .. v[x] /\ c = <<x, i>>
      BY SMT, <2>1, CellsMember
    <3>2. x \in S
      BY SMT, <3>1
    <3> QED BY <3>1, <3>2, CellsMember
  <2>2. ASSUME c \in Cells(w) PROVE c \in Cells(v)
    <3>1. PICK x \in S, i \in Nat : i \in 1 .. w[x] /\ c = <<x, i>>
      BY SMT, <2>2, CellsMember
    <3> QED BY <3>1, CellsMember
  <2> QED BY <2>1, <2>2
<1>2. Cells(v) = Cells(w)
  BY <1>1
<1> QED BY <1>2 DEF Total

-----------------------------------------------------------------------------
(* Extreme elements.                                                       *)

\* A set of numbers has a least one.
LEMMA LeastNat ==
  ASSUME NEW T \in SUBSET Nat, T # {}
  PROVE  \E x \in T : \A y \in T : x <= y
<1> DEFINE R == {ss \in Nat \X Nat : ss[1] < ss[2]}
<1>1. IsWellFoundedOn(R, Nat)
  BY NatLessThanWellFounded DEF OpToRel
<1>2. \A x, y \in Nat : x < y => <<x, y>> \in R
  OBVIOUS
<1> HIDE DEF R
<1>3. PICK x \in T : \A y \in T : ~(<<y, x>> \in R)
  BY <1>1, WFMin
<1>4. x \in Nat /\ \A y \in T : y \in Nat
  OBVIOUS
<1>5. ASSUME NEW y \in T PROVE x <= y
  <2>1. ~(y < x)
    BY <1>2, <1>3, <1>4
  <2> QED BY SMT, <1>4, <2>1
<1> QED BY <1>5

\* A finite set has a minimal element under a strict order: one with the fewest
\* elements below it.
LEMMA MinimalExists ==
  ASSUME NEW D, IsFiniteSet(D), D # {}, NEW R,
         \A x \in D : <<x, x>> \notin R,
         \A x, y, z \in D : <<x, y>> \in R /\ <<y, z>> \in R => <<x, z>> \in R
  PROVE  \E w \in D : \A u \in D : <<u, w>> \notin R
<1> DEFINE below(w) == {u \in D : <<u, w>> \in R}
           sizes == {Cardinality(below(w)) : w \in D}
<1>1. \A w \in D : IsFiniteSet(below(w)) /\ Cardinality(below(w)) \in Nat
  <2> TAKE w \in D
  <2>1. below(w) \in SUBSET D
    OBVIOUS
  <2>2. IsFiniteSet(below(w))
    BY <2>1, FS_Subset
  <2> QED BY <2>2, FS_CardinalityType
<1>2. sizes \in SUBSET Nat /\ sizes # {}
  <2> HIDE DEF below
  <2> QED BY SMT, <1>1
<1>3. PICK n \in sizes : \A k \in sizes : n <= k
  <2> HIDE DEF sizes
  <2> QED BY <1>2, LeastNat
<1>4. PICK w \in D : n = Cardinality(below(w))
  OBVIOUS
<1>5. ASSUME NEW u \in D, <<u, w>> \in R PROVE FALSE
  <2>1. below(u) \in SUBSET below(w) /\ u \in below(w) /\ u \notin below(u)
    BY <1>5
  <2>2. Cardinality(below(u)) <= Cardinality(below(w))
        /\ (Cardinality(below(w)) = Cardinality(below(u)) => below(w) = below(u))
    <3>1. IsFiniteSet(below(w))
      BY <1>1
    <3> HIDE DEF below
    <3> QED BY <2>1, <3>1, FS_Subset
  <2>3. Cardinality(below(w)) <= Cardinality(below(u))
    <3>1. Cardinality(below(u)) \in sizes
      <4> HIDE DEF below
      <4> QED OBVIOUS
    <3> QED BY <1>3, <1>4, <3>1
  <2>4. Cardinality(below(w)) = Cardinality(below(u))
    <3>1. Cardinality(below(w)) \in Nat /\ Cardinality(below(u)) \in Nat
      BY <1>1
    <3> HIDE DEF below
    <3> QED BY SMT, <2>2, <2>3, <3>1
  <2> QED BY <2>1, <2>2, <2>4
<1> QED BY <1>5
=============================================================================
