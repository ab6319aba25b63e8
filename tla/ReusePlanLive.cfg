\* four variables over three positions, every order of the map
CONSTANTS
  Var = {a, b, c, d}
  MaxCycle = 2
  Lifecycles <- MCLifecycles
SPECIFICATION FairSpec
INVARIANTS
  NoOverlapInCluster
  HeadKeepsItsName
PROPERTIES
  PlanEnds
  KeepsPromise
CHECK_DEADLOCK FALSE
