SPECIFICATION Spec
CONSTANTS
  MaxSignals = 2
INVARIANTS
  TypeOK
  NothingDangles
  StopCleansUp
PROPERTIES
  SuccessMeansMounted
  ShellReturns
CHECK_DEADLOCK FALSE
