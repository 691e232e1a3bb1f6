------------------------------- MODULE Totals -------------------------------
(***************************************************************************)
(* The total of a function with values in Nat: the number of unit cells it *)
(* spans.  Counting cells keeps the definition free of recursion, so that  *)
(* facts about totals follow from facts about cardinalities.               *)
(***************************************************************************)
EXTENDS Integers, FiniteSets

Cells(w) == UNION {{x} \X (1 .. w[x]) : x \in DOMAIN w}
Total(w) == Cardinality(Cells(w))
=============================================================================
