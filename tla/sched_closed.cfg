CONSTANTS
  DPDegree = 2
  TotalBatch = 4
  MaxProcessToken = 3
  RealData = TRUE
  Lengths <- TraceLengths
  MaxSeqLen = 8
  PrefillMode = FALSE
  DecodeMode = FALSE
  ReuseTenths = 0
  Disagg = FALSE
  Inject = FALSE
  Arrivals <- NoArrivals
  Durations = {1}
  WarmIters = 1
  MaxSeqs = 6
SPECIFICATION EndlessSpec
INVARIANTS TypeOK QueueBounded NoOvershoot StageAgrees IterationWork
PROPERTIES AllServed
