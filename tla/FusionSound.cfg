\* programs of four operators
CONSTANTS
  Name <- MCName
  OpType <- MCOpType
  Target = {"any"}
  Programs <- SoundPrograms
SPECIFICATION Spec
INVARIANTS
  TypeOK
  SharesNoInner
  KeepsMeaning
CHECK_DEADLOCK FALSE
