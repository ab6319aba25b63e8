\* FPGA operators between feed and fetch
CONSTANTS
  feed = feed
  fetch = fetch
  a = a
  b = b
  c = c
  d = d
  w = w
  Name <- MCName
  OpType <- MCOpType
  Target = {"any"}
  Programs <- FpgaPrograms
  Registered <- MCRegistered
SPECIFICATION CastSpec
INVARIANTS
  LayoutsConvert
CHECK_DEADLOCK FALSE
