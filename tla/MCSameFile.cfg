CONSTANTS
  NFiles = 1
  FileSize <- MCFileSize
  ChunkSizes = {1}
  LineChunks <- MCLineChunks
  Networks = {"steady", "lossy"}
  Strides = {2}
  Batch = 2
  OldLengths = {4}
  Verify = TRUE
  Sampled = FALSE
  Devices <- MCDevices
SPECIFICATION SameFileFairSpec
INVARIANTS
  RecordedChunksOnDeviceIfCalm
  FinishedFilesAreWhole
PROPERTIES
  RecordedChunksStay
  RunsEnd
