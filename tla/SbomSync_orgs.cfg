SPECIFICATION SyncSpec
CONSTANTS
  Executions = {e1}
  Keys = {"k1", "k2", "k3"}
  TargetLists <- Lists
  Orgs <- TwoOrgs
  Purls = {"p1", "d1", ""}
  Attributes <- OfAllKinds
  Answers <- AnswersTwoProjects
  FormatFileName <- Apart
  Storage = "s3"
  Overlap = TRUE
INVARIANTS
  AllOrgsGathered
CHECK_DEADLOCK FALSE
