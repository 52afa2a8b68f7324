SPECIFICATION FairScanSpec
CONSTANTS
  Executions = {c1}
  Keys = {p1, p2}
  TargetLists <- Lists
  Syncs = {s1, s2}
  SyncIterations = {1}
  SnykRefs <- OneRef
  Vulnerabilities = {v1}
  FormatFileName <- Apart
  Overlap = TRUE
  MaxPurls = 2
INVARIANTS
  TypeOK
  StatusTruthful
  RecordedBeforeRun
  RecordedScansHaveFiles
PROPERTIES
  ImplementsTaskRecord
  StartedSettles
CHECK_DEADLOCK FALSE
