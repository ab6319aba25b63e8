\* programs over the kernels of ARM and OpenCL, and over those of FPGA
CONSTANTS
  feed = feed
  fetch = fetch
  a = a
  b = b
  c = c
  d = d
  w = w
  Name <- MCName
  OpType <- MCOpType
  Target = {"any"}
  Programs <- SoundPrograms
  Registered <- MCRegistered
SPECIFICATION CastSpec
INVARIANTS
  CastTypeOK
  InputsCompatible
  CastsConvert
  SourcesKept
  OnceFromWeights
  CastNamesUnique
  NeverDequantizes
PROPERTIES
  PassesEnd
CHECK_DEADLOCK FALSE
