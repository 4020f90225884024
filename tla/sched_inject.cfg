CONSTANTS
  DPDegree = 2
  TotalBatch = 4
  MaxProcessToken = 4
  RealData = FALSE
  Lengths <- OneLength
  MaxSeqLen = 8
  PrefillMode = FALSE
  DecodeMode = FALSE
  ReuseTenths = 4
  Disagg = FALSE
  Inject = TRUE
  Arrivals <- ArrivalTimes
  Durations = {1, 2, 3}
  WarmIters = 2
  MaxSeqs = 8
SPECIFICATION Spec
INVARIANTS SlotsCovered LatencyAccounting ArrivalAccounting ReportedOnce
