SPECIFICATION Spec
CONSTANTS
  Function = {"mix", "log", "logs", "old"}
  Registered = {"mix", "log", "logs"}
  Oneway = {"log"}
  Params <- MCParams
  Calls <- MCCalls
  Result <- MCResult
  Markup <- MCMarkup
  Digits <- MCDigits
  NamePieces <- MCNamePieces
  MaxPieces = 2
  IntMin <- MCIntMin
  IntMax = 3
  Char <- MCChar
  Number <- MCNumber
  Decimal <- MCDecimal
  TwoBytes = {}
INVARIANTS
  TypeOK
  ArgumentsAreTheDocument
  PointerIsOpenArgument
  StubRequestsAreServed
