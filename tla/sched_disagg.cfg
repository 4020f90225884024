CONSTANTS
  DPDegree = 2
  TotalBatch = 4
  MaxProcessToken = 3
  RealData = TRUE
  Lengths <- LongOutputs
  MaxSeqLen = 8
  PrefillMode = FALSE
  DecodeMode = FALSE
  ReuseTenths = 0
  Disagg = TRUE
  Inject = FALSE
  Arrivals <- NoArrivals
  Durations = {1, 2}
  WarmIters = 2
  MaxSeqs = 5
SPECIFICATION Spec
INVARIANTS HandoverRespected
PROPERTIES KeepsPromises
