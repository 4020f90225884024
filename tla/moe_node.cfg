CONSTANTS
  NumNode = 2
  NumDevice = 2
  NeTp = 1
  ETp = 1
  NumExpert = 4
  TopK = 2
  MoELayers = 2
  NumLayer = 2
  Lin = 2
  Lout = 2
  SumRows <- PromptRows
  GenRows <- OutputRows
  Selections <- FewChoices
  MaxChunk = 2
  Units = {"optimal"}
  HighOpB = 2
  LowOpB = 1
  LogicX = 1
SPECIFICATION Spec
INVARIANTS NodeTraffic
