SPECIFICATION Spec
CONSTANTS
  Request = {1, 2, 3}
  Target = {t1}
  Clear = {}
  MaxRequests = 2
PROPERTIES
  KeepsLatestRequests
CHECK_DEADLOCK FALSE
