CONSTANTS
  DPDegree = 1
  TotalBatch = 1
  MaxProcessToken = 2
  RealData = FALSE
  Lengths <- OneLength
  MaxSeqLen = 8
  PrefillMode = FALSE
  DecodeMode = FALSE
  ReuseTenths = 0
  Disagg = TRUE
  Inject = FALSE
  Arrivals <- ArrivalTimes
  Durations = {1}
  WarmIters = 0
  MaxSeqs = 3
SPECIFICATION Spec
PROPERTIES IdleAddsTime
