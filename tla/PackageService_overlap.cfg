SPECIFICATION Spec
CONSTANTS
  Syncers = {s1, s2, s3}
  Scanners = {c1}
  Purls = {p1}
  EmptyPurl = p0
  ExternalIds = {}
  SnykRefs <- OneRef
  Vulnerabilities = {v1}
  Parallel <- Anything
  MaxDocuments = 1
  MaxIteration = 2
INVARIANTS
  OneRefPerTask
PROPERTIES
  FrozenDuplicates
CHECK_DEADLOCK FALSE
