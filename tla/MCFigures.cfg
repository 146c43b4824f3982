SPECIFICATION Spec
CONSTANTS
  Word = 128
  Unit = 2
  MemKB = {0, 1, 63}
  CacheKB = {0, 1}
  SwapKB = {0, 5}
  BlockCount = {0, 1, 4, 64, 127}
  BlockSize = {1, 2}
  Count = {0, 1, 3}
  HIST_BUCKETS = 2
  Device <- MCDevice
  name <- MCname
  kind <- MCkind
  under <- MCunder
INVARIANTS
  FiguresTypeOK
  UsedWithinTotal
  MemoryErrorBounded
  BarsFit
  RowsFit
  SizesReadable
  DisksListed
