SPECIFICATION Spec
CONSTANTS
  Syncers = {s1, s2}
  Scanners = {c1}
  Purls = {p1, p2}
  EmptyPurl = p0
  ExternalIds = {e1}
  SnykRefs <- OneRef
  Vulnerabilities = {v1}
  Parallel <- Alone
  MaxDocuments = 3
  MaxIteration = 3
INVARIANTS
  UniqueDependencies
CHECK_DEADLOCK FALSE
