SPECIFICATION Spec
CONSTANTS
  Function = {"mix", "log", "say", "old"}
  Registered = {"mix", "log", "say"}
  Oneway = {"log"}
  Params <- MCParams
  IntMin <- MCIntMin
  IntMax = 3
  Char <- MCChar
  Number <- MCNumber
  Decimal <- MCDecimal
  TwoBytes = {"e"}
  Value <- MCValue
  Result <- MCResult
  MaxRequest = 17
  MaxResponse = 13
  MaxLength = 20
  HexDigits <- MCHexDigits
INVARIANTS
  TypeOK
  ArgumentsArrive
  StubRequestsParse
  ResultsReturn
  ReturnedMeansExecuted
CHECK_DEADLOCK FALSE
