SPECIFICATION Spec
CONSTANTS
  Scans = {c1, c2}
  Syncs = {s1, s2}
  Replies <- AnyReply
INVARIANTS
  TypeOK
  RecordedWasAnswered
PROPERTIES
  ImplementsFindingsBook
  FirstReadingKept
  
SYMMETRY Symmetric
CHECK_DEADLOCK FALSE
