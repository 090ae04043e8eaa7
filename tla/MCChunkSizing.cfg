CONSTANTS
  Tasks = {"Adb", "Wifi", "Dual", "WifiPull"}
  SourceSizes <- MCSourceSizes
  Requests <- MCRequests
  MaxFiles = 2
  RecordIoErrors = FALSE
SPECIFICATION SizingSpec
INVARIANT WorkersUseTheEngineSplit
PROPERTY RestartKeepsTheSplit
