CONSTANTS
  DPDegree = 1
  TotalBatch = 2
  MaxProcessToken = 4
  RealData = FALSE
  Lengths <- ShortContext
  MaxSeqLen = 4
  PrefillMode = FALSE
  DecodeMode = TRUE
  ReuseTenths = 0
  Disagg = FALSE
  Inject = FALSE
  Arrivals <- ArrivalTimes
  Durations = {1}
  WarmIters = 0
  MaxSeqs = 3
SPECIFICATION Spec
INVARIANTS DecodeOutput
