SPECIFICATION FairSyncSpec
CONSTANTS
  Executions = {e1, e2}
  Keys = {"k1", "k4"}
  TargetLists <- Lists
  Orgs <- OneOrg
  Purls = {"p1", "d1", ""}
  Attributes <- OfAllKinds
  Answers <- AnswersTwoSboms
  FormatFileName <- Colliding
  Storage = "s3"
  Overlap = TRUE
INVARIANTS
  SbomsHaveFiles
  CompleteIsCommitted
PROPERTIES
  StartedSettles
CHECK_DEADLOCK FALSE
