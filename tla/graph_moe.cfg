CONSTANTS
  NumDevices = 4
  NeTp = 2
  ETp = 4
  Experts = 2
  Graph <- DenseTwoMoE
  Loads <- SkewedLoads
  MaxIters = 2
SPECIFICATION FairSpec
INVARIANTS TypeOK BarrierSafety SyncTime CleanEnd
PROPERTIES ClockMonotone FreshCounts Completes
CHECK_DEADLOCK FALSE
