\* two predictors with two inputs and none, and a light one with one
CONSTANTS
  c1 = c1
  c2 = c2
  l1 = l1
  host = host
  cl = cl
  Cxx = {c1, c2}
  Light = {l1}
  Registered <- OneModel
  Devices = {cl}
  Targets <- SomeTargets
  Columns <- SomeColumns
  Values = {v1, v2}
  MayOverlap <- OneOfAKind
  nil = nil
  null = null
SPECIFICATION Spec
INVARIANTS
  OwnInstructions
  SavedModelLoads
  InputsReachTheRun
  NeverAborts
