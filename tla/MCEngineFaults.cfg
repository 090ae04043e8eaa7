CONSTANTS
  NFiles = 2
  FileSize <- MCShortFileSize
  ChunkSizes = {1}
  InitialChunkSize = 1
  TornIndices = {1}
  Mode = "AdbOnly"
  Threshold = 2
  Limit = 1
  DemoTask = TRUE
  TickSteps = 2
  IoErrors = TRUE
  TornWrites = TRUE
SPECIFICATION Spec
INVARIANTS
  TypeOK
  LaneTotalsAddUp
  SingleTrackKeepsItsLane
PROPERTY ProgressOnlyGrows
