SPECIFICATION Spec
CONSTANTS
  Endpoint = {"e1", "e2"}
  None = "none"
  LastRequest = 2
  PageSize = 1
  Slot = {c1, c2}
  Owner <- OwnerValue
  Hit <- HitValue
  History <- HistoryValue
SYMMETRY Symmetry
CONSTRAINT Bounded
INVARIANTS
  TypeOK
  OnlyMatchingShown
PROPERTIES
  ClearedStaysCleared
  AnswersKeepToTheirEndpoint
  OnlyClearStrandsLoading
CHECK_DEADLOCK FALSE
