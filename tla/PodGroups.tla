----------------------------- MODULE PodGroups -----------------------------
(***************************************************************************)
(* The gangs of the cluster and their members, as the models of the        *)
(* controllers that work on PodGroups have them in common.                 *)
(***************************************************************************)
EXTENDS Naturals, FiniteSets

CONSTANTS
  Gangs,      \* the PodGroups' names
  Pods,
  GangOf,     \* pod -> gang, its PodGroup annotation
  MinMember   \* gang -> spec.minMember

ASSUME PodGroupsAssumption ==
  /\ IsFiniteSet(Gangs) /\ IsFiniteSet(Pods)
  /\ GangOf \in [Pods -> Gangs] /\ MinMember \in [Gangs -> Nat]
=============================================================================
