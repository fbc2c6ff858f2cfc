SPECIFICATION Spec
CONSTANTS
  Endpoint = {"e1"}
  None = "none"
  LastRequest = 3
  PageSize = 1
  Slot = {c1, c2}
  Owner <- OwnerValue
  Hit <- All
  History <- All
SYMMETRY Symmetry
INVARIANT OlderPagesAreContiguous
CHECK_DEADLOCK FALSE
