SPECIFICATION Spec
CONSTANTS
  UseEBPF = {TRUE, FALSE}
  GoodInterval = {TRUE, FALSE}
INVARIANTS
  TypeOK
  CursorRestored
  ClosedOnReturn
  ProcessInv
  SignalKept
PROPERTIES
  SignalExits
  FailureExits
CHECK_DEADLOCK FALSE
