\* every program of a feed, up to three operators and one or two fetches
CONSTANTS
  Size = 3
  MaxVars = 4
  Var <- MCVar
  Programs <- MCPrograms
SPECIFICATION Spec
INVARIANTS
  OperatorsKeptApart
  OutputsSurvive
PROPERTIES
  KeepsPromise
CHECK_DEADLOCK FALSE
