SPECIFICATION Spec
CONSTANTS
  Applications = {a1, a2, a3}
  MaxAtOnce = 2
INVARIANTS
  TypeOK
  UniqueDefaults
  NeverRefused
  AppliedIsLinked
  DuplicatesFoundOut
SYMMETRY Symmetric
CHECK_DEADLOCK FALSE
