\* all programs of four operators over two names
CONSTANTS
  x = x
  y = y
  MaxOps = 4
  Name <- MCName
  OpType = {"calc"}
  Target = {"arm"}
  Programs <- MCPrograms
SPECIFICATION GraphSpec
INVARIANTS
  BoundToLastWriter
  DependsOnEarlier
CHECK_DEADLOCK FALSE
