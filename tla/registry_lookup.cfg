SPECIFICATION RegistrySpec
CONSTANTS
  Interface = {"demo", "bank", "test"}
  NameOf <- MCNameOf
  FunctionsOf <- MCFunctionsOf
  Null = Null
  Name = {1, 2, 3, 4, 5, 6, 7}
  MaxAdded = 3
INVARIANTS
  RegistryTypeOK
  LookupCorrect
  ServesWithBuffers
CHECK_DEADLOCK FALSE
