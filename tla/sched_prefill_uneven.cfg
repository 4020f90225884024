CONSTANTS
  DPDegree = 2
  TotalBatch = 3
  MaxProcessToken = 4
  RealData = FALSE
  Lengths <- Prompts
  MaxSeqLen = 8
  PrefillMode = TRUE
  DecodeMode = FALSE
  ReuseTenths = 4
  Disagg = FALSE
  Inject = FALSE
  Arrivals <- ArrivalTimes
  Durations = {1, 2, 3}
  WarmIters = 1
  MaxSeqs = 8
  IntLimit = 32768
  Machines <- MCMachines
SPECIFICATION Spec
INVARIANTS Placement ReportedOnce FitsMemory
