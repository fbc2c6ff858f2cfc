SPECIFICATION Spec
CONSTANTS
  LastRequest = 3
  MaxWaiting = 1
  MaxRequests = 2
  PageSize = 1
  MaxPages = 2
  History = 2
  Concurrency = 1
INVARIANTS
  TypeOK
  HistoryIsSkipped
  NothingIsMissed
PROPERTY RepeatsAreApart
CONSTRAINT RunsOn
CHECK_DEADLOCK FALSE
