\* Provisioning under failing calls, restarts and a changing cluster.
SPECIFICATION FairProvisioningSpec
CONSTANTS
  Gangs <- mcGangs
  Pods <- mcPods
  GangOf <- mcGangOf
  MinMember <- mcMinMember
INVARIANT
  ProvisioningTypeOK
PROPERTIES
  KeptWhileWanted
  DemandSettles
