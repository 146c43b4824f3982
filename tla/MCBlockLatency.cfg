SPECIFICATION Spec
CONSTANTS
  r1 = r1
  r2 = r2
  r3 = r3
  Requests = {r1, r2, r3}
  dev <- MCdev
  sector <- MCsector
  SectorSpan = 2
  NumCPUs = 2
  MaxEntries = 1
  HIST_BUCKETS = 4
  NsPerUs = 1
  ClockSpan = 1000
  MaxClock = 1
INVARIANTS
  TypeOK
  ExactSamples
  NoEntryLeft
  KernelInv
  LabelsMatch
PROPERTIES
  StartMatchesIssue
CHECK_DEADLOCK FALSE
