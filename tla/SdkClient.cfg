CONSTANTS
  Requests = {q1, q2}
  Clients = {here, there}
  Accepting = {q2}
  Nobody = Nobody
SPECIFICATION SdkSpec
INVARIANTS
  SdkTypeOK
  NothingLeaks
  NoLostWakeup
  OwnAnswer
PROPERTIES
  CallEnds
CHECK_DEADLOCK FALSE
