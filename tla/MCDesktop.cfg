CONSTANTS
  NFiles = 2
  FileSize <- MCTwoFiles
  ChunkSizes = {1}
  InitialChunkSize = 1
  TornIndices = {}
  Mode = "WifiOnly"
  Threshold = 9
  Limit = 1
  DemoTask = FALSE
  TickSteps = 1
  IoErrors = FALSE
  TornWrites = FALSE
  Worker = {w1, w2}
  Prompt = TRUE
  ManifestErrors = TRUE
SPECIFICATION DesktopFairSpec
INVARIANTS
  StopsWithinOneChunk
  OneTransferAtATime
PROPERTY TransfersEnd
