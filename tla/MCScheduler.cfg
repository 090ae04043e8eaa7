CONSTANTS
  NFiles = 4
  FileSize <- MCFileSize
  ChunkSizes <- MCChunkSizes
  Mode = "Dual"
  Threshold = 5
  Limit = 1
  MaxStride = 5
SPECIFICATION CutSpec
INVARIANTS
  SplitCoversEachByteOnce
  DesktopCutsLikeTheEngine
  LanesShareTheFile
  InflightCountsLeases
  NoChunkTwice
  OverLimitOnlyByFallback
PROPERTY EventuallyDrained
CHECK_DEADLOCK FALSE
