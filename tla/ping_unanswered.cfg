SPECIFICATION Spec
CONSTANTS
  Client = {c1}
  Server = {s1}
  Method = {add}
  OnewayMethod = {}
  InterfaceMethod = {add}
  ServedMethod = {add}
  SkewedMethod = {}
  MaxMsgSeq = 3
  RequestPipeSize = 2
  ResultPipeSize = 2
  NoPipe = NoPipe
  NoFunction = NoFunction
  RecvTimeout = 1
  MaxRequests = 1
  MaxReinits = 0
  PurgeAtStart = FALSE
  HelperMayFail = FALSE
  MaxFaults = 1
PROPERTY PingLeavesListenerRunning
