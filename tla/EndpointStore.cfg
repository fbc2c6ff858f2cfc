SPECIFICATION Spec
CONSTANTS
  Request = {1, 2}
  Target = {t1, t2}
  Clear = {c1}
  MaxRequests = 1
SYMMETRY Symmetry
INVARIANTS
  TypeOK
  NoPendingDoomed
  DeletedTargetIsQuiet
PROPERTIES
  PendingEndsByItsOwnCommit
  ResultsAreFinal
  ClearIsComplete
  CaptureSweepsStranded
  LifecycleSpec
CONSTRAINT AtMostTwoOpen
CHECK_DEADLOCK FALSE
