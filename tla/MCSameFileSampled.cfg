CONSTANTS
  NFiles = 1
  FileSize <- MCSampledFileSize
  ChunkSizes = {1}
  LineChunks <- MCLineChunks
  Networks = {"lossy"}
  Strides = {2}
  Batch = 2
  OldLengths = {}
  Verify = TRUE
  Sampled = TRUE
  Devices <- MCGoodDevices
SPECIFICATION SameFileSpec
INVARIANT FinishedFilesAreWhole
