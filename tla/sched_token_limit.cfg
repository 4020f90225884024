CONSTANTS
  DPDegree = 1
  TotalBatch = 2
  MaxProcessToken = 8
  RealData = TRUE
  Lengths <- TraceLengths
  MaxSeqLen = 8
  PrefillMode = FALSE
  DecodeMode = FALSE
  ReuseTenths = 0
  Disagg = FALSE
  Inject = FALSE
  Arrivals <- NoArrivals
  Durations = {1}
  WarmIters = 0
  MaxSeqs = 3
SPECIFICATION Spec
INVARIANTS BatchedTokenLimit
