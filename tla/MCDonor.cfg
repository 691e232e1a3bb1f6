\* A donor whose victim is still terminating gives again.
SPECIFICATION ReclaimSpec
CHECK_DEADLOCK FALSE
CONSTANTS
  Dims <- mcDims
  Pods <- mcPods
  Trees <- mcTrees
  Identity <- mcIdentity
  Req <- mcReq
  Prio <- mcPrio
  Age <- mcAge
  Uid <- mcAge
  Gangs <- mcGangs
  GangOf <- mcGangOf
  MinMember <- mcMinMember
  GangRes <- mcGangRes
  GangIdentity <- mcGangIdentity
  PoolNodes <- mcPoolNodes
  Capacity <- mcCapacity
  Jobs <- mcJobs
  Recreated <- mcRecreated
  Budgets <- mcBudgets
PROPERTIES
  DonorKeepsGuarantee
