CONSTANTS
  NFiles = 2
  FileSize <- MCShortFileSize
  ChunkSizes = {1}
  InitialChunkSize = 1
  TornIndices = {1}
  Mode = "Dual"
  Threshold = 2
  Limit = 1
  DemoTask = FALSE
  TickSteps = 1
  IoErrors = FALSE
  TornWrites = TRUE
SPECIFICATION Spec
INVARIANT CompletedMeansAllRecorded
