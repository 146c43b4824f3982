SPECIFICATION TracedSpec
CONSTANTS
  r1 = r1
  r2 = r2
  r3 = r3
  Requests = {r1, r2}
  dev <- MCdev
  sector <- MCsector
  SectorSpan = 2
  NumCPUs = 2
  MaxEntries = 1
  HIST_BUCKETS = 2
  NsPerUs = 1
  ClockSpan = 1000
  MaxClock = 1
INVARIANTS
  AliasOnlyMisses
CHECK_DEADLOCK FALSE
