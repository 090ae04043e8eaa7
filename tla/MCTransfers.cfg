CONSTANTS
  NFiles = 3
  FileSize <- MCFileSize
  ChunkSizes = {1}
  LineChunks <- MCLineChunks
  Networks = {"steady", "lossy"}
  Tasks <- MCTasks
  PartLimit = 3
  BundleFiles = 2
SPECIFICATION FairSpec
INVARIANTS
  RecordedChunksOnDevice
  FinalFilesAreWhole
  PulledChunksAreLocal
  AdbAndDualVerifyAll
PROPERTIES
  ImplementsFileTransfer
  RunsEnd
