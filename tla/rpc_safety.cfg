SPECIFICATION Spec
CONSTANTS
  Client = {c1}
  Server = {s1, s2}
  Method = {add, gone}
  OnewayMethod = {}
  InterfaceMethod = {add}
  ServedMethod = {add}
  SkewedMethod = {}
  MaxMsgSeq = 1
  RequestPipeSize = 1
  ResultPipeSize = 1
  NoPipe = NoPipe
  NoFunction = NoFunction
  RecvTimeout = 1
  MaxRequests = 3
  MaxReinits = 1
  PurgeAtStart = FALSE
  HelperMayFail = TRUE
  MaxFaults = 1
SYMMETRY ListenerSymmetry
INVARIANTS
  TypeOK
  AnswerIsCurrentUpToWrap
  ExecutedAtMostOnce
  ResponseTellsExecution
  OkAnswerWasExecuted
