CONSTANTS
  NumNode = 1
  NumDevice = 4
  NeTp = 2
  ETp = 2
  NumExpert = 16
  TopK = 2
  MoELayers = 2
  NumLayer = 2
  Lin = 2
  Lout = 2
  SumRows <- PromptRows
  GenRows <- OutputRows
  Selections <- FewChoices
  MaxChunk = 2
  Units = {"parallel", "optimal"}
  HighOpB = 2
  LowOpB = 1
  LogicX = 1
SPECIFICATION Spec
INVARIANTS TypeOK TraceFollowed WorkArrives SentReceived
PROPERTIES RoundTrip SplitOptimal
