SPECIFICATION Spec
CONSTANTS
  Endpoint = {e1, e2, e3}
  Session = {s1}
  User = {u1, u2}
  Save = {save1, save2}
  Touch = {t1}
  Cap = 1
  None = None
SYMMETRY Symmetry
INVARIANTS
  TypeOK
  CapHolds
PROPERTY OnlyOwnIsSaved
CONSTRAINT FourCalls
CHECK_DEADLOCK FALSE
