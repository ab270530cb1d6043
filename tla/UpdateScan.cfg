CONSTANTS
  Rows <- MCRows
  InitialRows <- MCRows
  MaxEdits = 9
  PushedLimits <- MCPushedLimits
  PageSize = 2
  VectorSize = 2
  NoToken = NoToken
SPECIFICATION UpdateSpec
INVARIANTS
  EveryRowUpdated
  RewrittenBySyncCheckOnly
PROPERTIES
  UpdateEnds
CHECK_DEADLOCK FALSE
