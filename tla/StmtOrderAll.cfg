\* all acyclic graphs of five statements, every order of the addresses
CONSTANTS
  Size = 5
  Graphs <- MCGraphs
SPECIFICATION FairSortSpec
INVARIANTS
  ProducersFirst
PROPERTIES
  SortEnds
  IsSchedule
CHECK_DEADLOCK FALSE
