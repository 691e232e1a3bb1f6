\* No starvation when waiting gangs are retried before their bid expires.
SPECIFICATION FairAdmissionSpec
CONSTANTS
  Dims <- mcDims
  Pods <- mcNoPods
  Gangs <- mcCrowd
  Trees <- mcTrees
  Requests <- mcNone
  MinRes <- mcMinRes
  Priorities <- mcPriorities
  GangAge <- mcGangAge
  GangUid <- mcGangUid
  BidTimeout = 1
  LeafOf <- mcLeafOf
  Recurring <- mcSmall
  Vanishing <- mcSmall
  RetryWithin = 1
INVARIANT
  LedgerHoldsRoom
PROPERTIES
  BidsOnlyRise
  NoStarvation
