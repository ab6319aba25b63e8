\* the programs the pipeline is right for
CONSTANTS
  feed = feed
  fetch = fetch
  a = a
  b = b
  c = c
  d = d
  e = e
  w = w
  Name <- MCName
  OpType <- MCOpType
  Target <- MCTarget
  Programs <- SoundPrograms
  MaxRuns = 2
SPECIFICATION Spec
INVARIANTS
  PipelineTypeOK
  SameDeviceOnly
  ReadsItsProducer
  OutputsIntact
  InputsIntact
PROPERTIES
  RunsEnd
CHECK_DEADLOCK FALSE
