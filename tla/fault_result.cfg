SPECIFICATION Spec
CONSTANTS
  Function = {"mix", "log", "logs", "old"}
  Registered = {"mix", "log", "logs", "old"}
  Oneway = {"log"}
  Params <- MCParams
  Calls <- MCMalformedCalls
  Result <- MCResult
  Markup <- MCMarkup
  Digits <- MCDigits
  NamePieces <- MCNamePieces
  MaxPieces = 2
  IntMin <- MCIntMin
  IntMax = 3
  Char <- MCChar
  Number <- MCNumber
  Decimal <- MCDecimal
  TwoBytes = {}
INVARIANT
  FaultTellsFailure
