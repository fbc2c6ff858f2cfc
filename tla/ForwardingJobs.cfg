SPECIFICATION Spec
CONSTANTS
  Request = {r1}
  Target = {t1}
  RetryLimit = 2
INVARIANTS
  TypeOK
  CompletedIsSettled
  GivenUpIsSettled
PROPERTIES
  LifecycleSpec
  DeliveriesSettle
CHECK_DEADLOCK FALSE
