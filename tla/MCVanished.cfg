\* The bid of a gang that was deleted while it waited.
SPECIFICATION FairAdmissionSpec
CONSTANTS
  Dims <- mcDims
  Pods <- mcNoPods
  Gangs <- mcThree
  Trees <- mcTrees
  Requests <- mcNone
  MinRes <- mcMinRes
  Priorities <- mcPriorities
  GangAge <- mcGangAge
  GangUid <- mcGangUid
  BidTimeout = 1
  LeafOf <- mcLeafOf
  Recurring <- mcNoPods
  Vanishing <- mcOld
  RetryWithin = 1
PROPERTY
  VanishedNeverDeadlocks
