SPECIFICATION FairSpec
CONSTANTS
  Stream = {s1, s2}
  Endpoint = {e}
  Owner = {s1}
  EndpointOf <- Endpoints
  KeyOf <- Keys
  Scopes = 2
  Limit <- Limits
  LeaseTicks = 3
  HeartbeatTicks = 1
INVARIANTS
  TypeOK
  WithinLimit
PROPERTIES
  LeasesRunOut
  LostAccessEnds
CHECK_DEADLOCK FALSE
