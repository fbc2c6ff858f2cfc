SPECIFICATION Spec
CONSTANTS
  Request = {r1}
  Target = {t1}
  RetryLimit = 1
PROPERTIES
  ClearedIsDeleted
CHECK_DEADLOCK FALSE
