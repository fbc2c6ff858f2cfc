SPECIFICATION Spec
CONSTANTS
  LastRequest = 2
  MaxWaiting = 0
  MaxRequests = 2
  PageSize = 1
  MaxPages = 2
  History = 1
  Concurrency = 1
PROPERTIES
  ListedIsDelivered
  ComesToRest
CHECK_DEADLOCK FALSE
