SPECIFICATION Spec
CONSTANTS
  Interface = {eth0, eth1}
  Counter = {RxBytes}
  CounterSpan = 3
  MaxBytes = 1
  MaxClock = 2
SYMMETRY Symmetry
INVARIANTS
  ThroughputTypeOK
  NeverOverstated
  SteadyExact
  GapMeasured
  NetworkInv
