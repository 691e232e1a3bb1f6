\* The pure algorithms against their reference definitions.  The inputs are bounded:
\* pods and claims have a few entries, and a behaviour ends when all are read.
SPECIFICATION AlgorithmsSpec
CHECK_DEADLOCK FALSE
CONSTANTS
  Dims <- mcDims
  Classes <- mcClasses
  PodSpecs <- mcPodSpecs
  Most = 3
  Uids <- mcUids
  Keys <- mcKeys
  MaxWaiting = 3
  Resources <- mcResources
  Asks <- mcAsks
  NodeShapes <- mcNodeShapes
INVARIANTS
  EffectiveIsPeak
  DevicesAreCovered
  LessIsTotal
  ScoreTellsNodesApart
