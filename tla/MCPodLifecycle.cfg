\* One pod, created at any time, every fault, the configuration changing at any
\* time.
SPECIFICATION FairLifeSpec
CONSTANTS
  Dims <- mcDims
  Pods <- mcOnePod
  Gangs <- mcNoGangs
  Trees <- mcMoving
  Requests <- mcRequests
  MinRes <- mcNone
  Priorities <- mcPriorities
  GangAge <- mcNone
  GangUid <- mcNone
  BidTimeout = 0
  Identity <- mcIdentity
  Footprint <- mcFootprint
  Observed <- mcFootprint
  GangQueue <- mcNone
  App <- mcApp
  MaxApps <- mcMaxApps
  Limits <- mcNoLimits
  Late <- mcLate
  Faults <- mcAllFaults
INVARIANTS
  LifeTypeOK
  TrackedAreCharged
PROPERTIES
  LeaksHeal
