\* programs in which what is linked on the NPU is layered and has one head
CONSTANTS
  a = a
  b = b
  c = c
  d = d
  e = e
  f = f
  g = g
  w = w
  Name <- MCName
  OpType <- MCOpType
  Target = {"any"}
  Supported = {"npu"}
  Programs <- SoundPrograms
SPECIFICATION Spec
INVARIANTS
  EachStatementOnce
  ReadersSupplied
  StaysAcyclic
  ConvertsWhatItReads
CHECK_DEADLOCK FALSE
