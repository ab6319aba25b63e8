\* two loads at the same time, any of which may fail
CONSTANTS
  Predictions = {p1}
  Loads = {l1, l2}
  Clears = {}
  MayOverlap <- LoadAndLoad
  nil = nil
SPECIFICATION RunnerSpec
INVARIANTS
  LoadsDoNotTrap
CHECK_DEADLOCK FALSE
