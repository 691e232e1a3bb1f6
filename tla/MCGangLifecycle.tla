--------------------------- MODULE MCGangLifecycle ---------------------------
(***************************************************************************)
(* The gang's life on small instances: one gang of one member.             *)
(***************************************************************************)
EXTENDS GangLifecycle, TLC

CONSTANTS gang, m1, main

mcGangOf == [p \in Pods |-> gang]
mcMinMember == gang :> Cardinality(Pods)
mcScheduleTO == gang :> 1
mcReadyTO == gang :> 0
=============================================================================
