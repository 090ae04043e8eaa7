CONSTANTS
  NFiles = 3
  FileSize <- MCFileSize
  ChunkSizes = {1}
  LineChunks <- MCLineChunks
  Networks = {"steady"}
  Tasks <- MCWifiTasks
  PartLimit = 3
  BundleFiles = 2
SPECIFICATION Spec
INVARIANT VerifiedTransfersAreWhole
