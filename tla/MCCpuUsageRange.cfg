SPECIFICATION Spec
CONSTANTS
  Word = 128
  Unit = 2
  cpu = cpu
  Core = {cpu0}
  Activity = {"Guest", "Steal", "Idle", "IOWait"}
  Columns = {8, 10}
  MaxUptime = 3
  MaxBack = 1
  MaxRounded = 1
INVARIANTS
  PercentInRange
