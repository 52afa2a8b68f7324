SPECIFICATION SyncSpec
CONSTANTS
  Executions = {e1, e2}
  Keys = {"k1", "k2", "k3"}
  TargetLists <- Lists
  Orgs <- ThreeOrgs
  Purls = {"p1", "d1", ""}
  Attributes <- OfAllKinds
  Answers <- AnswersTwoProjects
  FormatFileName <- Apart
  Storage = "fs"
  Overlap = FALSE
INVARIANTS
  SyncTypeOK
  CompleteIsCommitted
  InstancesInOrder
  FilesMatchChecksums
PROPERTIES
  ImplementsArchive
SYMMETRY Symmetric
CHECK_DEADLOCK FALSE
