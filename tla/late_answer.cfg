SPECIFICATION Spec
CONSTANTS
  Client = {c1}
  Server = {s1}
  Method = {add}
  OnewayMethod = {}
  InterfaceMethod = {add}
  ServedMethod = {add}
  SkewedMethod = {}
  MaxMsgSeq = 3
  RequestPipeSize = 2
  ResultPipeSize = 2
  NoPipe = NoPipe
  NoFunction = NoFunction
  RecvTimeout = 1
  MaxRequests = 2
  MaxReinits = 1
  PurgeAtStart = FALSE
  HelperMayFail = FALSE
  MaxFaults = 0
INVARIANT AnswerIsCurrent
