SPECIFICATION Spec
CONSTANTS
  Client = {c1, c2, c3, c4, c5}
  Caller = {k1, k2, k3}
  NoClient = NoClient
  MaxDelay = 4
  MaxFailures = 3
INVARIANTS
  TypeOK
  OnlyCurrentIsOpen
  ConnectsOutsideBackOff
PROPERTIES
  CountedOnce
  Recovers
CHECK_DEADLOCK FALSE
