SPECIFICATION Spec
CONSTANTS
  Pipe = {p1, p2}
  DefaultPipe = p1
  Url = {u1, u2}
  Host = {h1, h2}
  Charset = {utf8}
  Null = Null
  Timeout = {10, 60}
  MaxLen = 2
  Calls = 2
INVARIANTS
  TypeOK
  PipeSettingsReachCalls
  SettingsAreRemembered
  WrittenInOrder
PROPERTY CallsKeepSettings
CHECK_DEADLOCK FALSE
