SPECIFICATION Spec
CONSTANTS
  Endpoint = {e1, e2}
  Key = {k1, k2}
  Target = {t1, t2, t3}
  Call = {c1, c2}
  None = None
  MaxEnabled = 1
  MaxRows = 2
SYMMETRY Symmetry
CONSTRAINT Bounded
INVARIANTS
  TypeOK
  ValidRows
PROPERTY DeletedStaysHidden
CHECK_DEADLOCK FALSE
