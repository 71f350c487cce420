SPECIFICATION FairSpec
CONSTANTS
  Client = {c1}
  Server = {s1, s2}
  Method = {add, skew, gone}
  OnewayMethod = {gone, skew}
  InterfaceMethod = {add, skew}
  ServedMethod = {add, skew}
  SkewedMethod = {skew}
  MaxMsgSeq = 1
  RequestPipeSize = 1
  ResultPipeSize = 1
  NoPipe = NoPipe
  NoFunction = NoFunction
  RecvTimeout = 1
  MaxRequests = 2
  MaxReinits = 0
  PurgeAtStart = FALSE
  HelperMayFail = FALSE
  MaxFaults = 3
PROPERTIES
  StubsReturn
  SignalledListenerStops
  RequestsAreTaken
