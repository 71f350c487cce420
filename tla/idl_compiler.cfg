SPECIFICATION Spec
CONSTANTS
  Types = {"INT", "STRING", "DATE", "VOID"}
  Size = {2}
  MaxDateLen = 17
  MaxFunctions = 2
  MaxParameters = 2
  Functions = 2
  Parameters = 2
INVARIANTS
  TypeOK
  GeneratedCodeCompiles
  StubsAndTablesAgree
  ArgumentsInTheirPlace
  ResultsInTheirPlace
CHECK_DEADLOCK FALSE
