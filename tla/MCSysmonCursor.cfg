SPECIFICATION Spec
CONSTANTS
  UseEBPF = {TRUE, FALSE}
  GoodInterval = {TRUE, FALSE}
INVARIANTS
  CursorAlwaysRestored
CHECK_DEADLOCK FALSE
