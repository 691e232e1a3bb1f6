\* The capacity plugin's cycle on a fixed tree: safety and liveness.
SPECIFICATION FairCycleSpec
CONSTANTS
  Dims <- mcDims
  Pods <- mcPods
  Gangs <- mcGangs
  Trees <- mcTrees
  Requests <- mcRequests
  MinRes <- mcMinRes
  Priorities <- mcPriorities
  GangAge <- mcGangAge
  GangUid <- mcGangUid
  BidTimeout = 0
  Late <- mcLate
  Identity <- mcIdentity
  Footprint <- mcFootprint
  Observed <- mcFootprint
  GangQueue <- mcGangQueue
  App <- mcApp
  MaxApps <- mcMaxApps
  Limits <- mcLimits
INVARIANTS
  CycleTypeOK
  ClearedWithinMax
  BoundedOvershoot
  BookedAsScheduled
  AccountsWithinLimit
PROPERTIES
  CapacityComesBack
  ImplementsAtomic
