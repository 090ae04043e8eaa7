CONSTANTS
  NFiles = 1
  FileSize <- MCOneChunk
  ChunkSizes = {1}
  InitialChunkSize = 1
  TornIndices = {}
  Mode = "AdbOnly"
  Threshold = 9
  Limit = 1
  DemoTask = FALSE
  TickSteps = 1
  IoErrors = FALSE
  TornWrites = FALSE
  Worker = {w1, w2}
  Prompt = FALSE
  ManifestErrors = FALSE
SPECIFICATION DesktopSpec
INVARIANTS
  RunningCardHasWorker
  DeletedStaysGone
SYMMETRY WorkerSymmetry
