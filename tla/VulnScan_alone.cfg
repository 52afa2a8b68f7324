SPECIFICATION ScanSpec
CONSTANTS
  Executions = {c1, c2}
  Keys = {p1}
  TargetLists <- Lists
  Syncs = {s1}
  SyncIterations = {0, 1}
  SnykRefs <- Renamed
  Vulnerabilities = {v1, v2}
  FormatFileName <- Apart
  Overlap = FALSE
  MaxPurls = 1
INVARIANTS
  ScanTypeOK
  LatestScanOnFile
PROPERTIES
  FilesOnRecordKept
CHECK_DEADLOCK FALSE
