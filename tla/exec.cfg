CONSTANTS
  NumDevices = 4
  MaxIters = 2
  Systems <- MCSystems
  Works <- MCWorks
  Calls <- Graph
  Phases <- ExecutionPhases
  FlopTime <- MCFlopTime
  ByteTime <- MCByteTime
  Ramulator <- MCRamulator
  NearBank <- MCNearBank
  Granul = 4
  NumCube = 2
  NumChannel = 2
  NumLogicCube = 2
  NumRank = 2
  NumBankgroup = 4
  NumBank = 4
  NumCol = 32
  NumRow = 4
  BandwidthX <- MCBandwidthX
  SharedMem = 64
  IntLimit = 8192
SPECIFICATION Spec
CHECK_DEADLOCK FALSE
INVARIANTS TypeOK ChosenFastest SameWork AccountedTraffic DevicesAgree OneThingAtATime Collected WorkSharded FlashCovers LongerIsSlower BreakDownAccounts CommandsStandForAll
