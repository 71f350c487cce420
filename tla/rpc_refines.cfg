SPECIFICATION Spec
CONSTANTS
  Client = {c1, c2}
  Server = {s1}
  Method = {add, skew, gone}
  OnewayMethod = {gone}
  InterfaceMethod = {add, skew}
  ServedMethod = {add, skew}
  SkewedMethod = {skew}
  MaxMsgSeq = 1
  RequestPipeSize = 2
  ResultPipeSize = 2
  NoPipe = NoPipe
  NoFunction = NoFunction
  RecvTimeout = 1
  MaxRequests = 2
  MaxReinits = 0
  PurgeAtStart = TRUE
  HelperMayFail = FALSE
  MaxFaults = 1
INVARIANTS
  InFlightCarriesItsSeq
  ResponsesReachTheirCallers
  AnsweredMeansDrained
PROPERTY ImplementsRpc
