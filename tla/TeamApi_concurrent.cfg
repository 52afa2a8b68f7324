SPECIFICATION Spec
CONSTANTS
  Requests = {r1, r2, r3}
  Contents = {a, b}
  Unknown = unknown
  None = none
  MaxTeams = 2
INVARIANTS
  TypeOK
  DeletedOnce
PROPERTIES
  ListingTruthful
  ImplementsRegister
SYMMETRY Symmetric
CHECK_DEADLOCK FALSE
