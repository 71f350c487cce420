SPECIFICATION FairSpec
CONSTANTS
  NumSignals = 3
  SigChld = 1
  IgnoredByDefault = {1}
  MaxSignals = 2
INVARIANTS
  TypeOK
  DispositionsRestored
  SignalledWorkIsRolledBack
  OkMeansLoggedOff
  SignalledReceiveIsWoken
PROPERTY CaughtSignalEndsListener
CHECK_DEADLOCK FALSE
