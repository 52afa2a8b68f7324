SPECIFICATION Spec
CONSTANTS
  Syncers = {s1, s2}
  Scanners = {c1}
  Purls = {p0, p1}
  EmptyPurl = p0
  ExternalIds = {e1}
  SnykRefs <- Renamed
  Vulnerabilities = {v1, v2}
  Parallel <- Alone
  MaxDocuments = 3
  MaxIteration = 3
INVARIANTS
  TypeOK
  UniqueDocuments
PROPERTIES
  ImplementsLedger
CHECK_DEADLOCK FALSE
