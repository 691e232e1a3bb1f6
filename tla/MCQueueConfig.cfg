SPECIFICATION FairConfigSpec
CONSTANTS
  Dims = {"cpu"}
  Queues <- mcQueues
  SpecsOf <- mcSpecsOf
  Starts <- mcStarts
  Quotas <- mcQuotas
  Tenants = {"p"}
  TenantIdentity <- mcIdentity
  MaxEdits = 1
CHECK_DEADLOCK FALSE
INVARIANTS
  ConfigTypeOK
  NoChangeLost
PROPERTIES
  OwnersWordStands
  ConfigConverges
  DrainedQueuesGo
