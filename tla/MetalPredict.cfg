\* three predictions, two loads of which any may fail, one clear
CONSTANTS
  Predictions = {p1, p2, p3}
  Loads = {l1, l2}
  Clears = {c1}
  MayOverlap <- PredictAndClear
  nil = nil
SPECIFICATION FairSpec
INVARIANTS
  OwnResult
  AnsweredOnce
PROPERTIES
  PredictAnswered
CHECK_DEADLOCK FALSE
