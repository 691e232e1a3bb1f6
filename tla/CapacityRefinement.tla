------------------------- MODULE CapacityRefinement -------------------------
(***************************************************************************)
(* CapacityCycle implements AtomicAdmission.  A pod counts as placed from  *)
(* the moment PreBind lets it through, a gang as reserved from the moment  *)
(* it is admitted; the reservations of pods that PreBind has yet to look   *)
(* at are not seen from the outside.                                       *)
(***************************************************************************)
EXTENDS CapacityCycle

PlacedOf(C, lf) == [p \in Pods |-> IF p \in C THEN lf[p] ELSE NoLeaf]
ReservedOf(H, gb) == [g \in Gangs |-> IF g \in H THEN gb[g] ELSE NoLeaf]

Atomic == INSTANCE AtomicAdmission WITH
  placed <- PlacedOf(ClearedPods, leafOf), reserved <- ReservedOf(held, gangBook)

\* The cycle implements atomic admission: a pod is admitted when PreBind lets it
\* through and withdrawn when its bind fails or it ends, a gang when its
\* reservation is taken and given back, each against everything admitted before
\* it; no other step of the cycle is visible.
ImplementsAtomic == Atomic!AtomicSpec
=============================================================================
