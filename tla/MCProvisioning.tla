--------------------------- MODULE MCProvisioning ---------------------------
(***************************************************************************)
(* A gang of three of which two are enough.                                *)
(***************************************************************************)
EXTENDS Provisioning

mcGangs == {"g"}
mcPods == {"g1", "g2", "g3"}
mcGangOf == [p \in mcPods |-> "g"]
mcMinMember == [x \in mcGangs |-> 2]
=============================================================================
