\* The engine under arbitrary calls, with two pods, two gangs and three trees.
SPECIFICATION Spec
CONSTANTS
  Dims <- mcDims
  Pods <- mcPods
  Gangs <- mcGangs
  Trees <- mcTrees
  Requests <- mcRequests
  MinRes <- mcMinRes
  Priorities <- mcPriorities
  GangAge <- mcGangAge
  GangUid <- mcGangUid
  BidTimeout = 0
INVARIANTS
  TypeOK
  Conservation
PROPERTIES
  UsageFollowsLedger
  GangsNeverOverbook
