\* Both loops that evict, on a tree the quota fills and on one the nodes do.
SPECIFICATION FairReclaimSpec
\* Once every pod runs and no job is left to finish, nothing happens.
CHECK_DEADLOCK FALSE
CONSTANTS
  Dims <- mcDims
  Pods <- mcPods
  Trees <- mcTrees
  Identity <- mcIdentity
  Req <- mcReq
  Prio <- mcPrio
  Age <- mcAge
  Uid <- mcAge
  Gangs <- mcGangs
  GangOf <- mcGangOf
  MinMember <- mcMinMember
  GangRes <- mcGangRes
  GangIdentity <- mcGangIdentity
  PoolNodes <- mcPoolNodes
  Capacity <- mcCapacity
  Jobs <- mcJobs
  Recreated <- mcRecreated
  Budgets <- mcBudgets
INVARIANTS
  ReclaimTypeOK
  VictimsSuffice
PROPERTIES
  RoundKeepsGuarantee
  EvictedForAPeer
  BudgetsAreKept
  EntitledGetsIn
