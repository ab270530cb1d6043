CONSTANTS
  Rows <- MCRows
  InitialRows <- MCInitialRows
  MaxEdits = 3
  PushedLimits <- MCPushedLimits
  PageSize = 2
  VectorSize = 2
  NoToken = NoToken
SPECIFICATION Spec
INVARIANTS
  TypeOK
  NoRowLost
  SeenIsHistory
  SyncCheckCatchesUp
  LimitOverrun
PROPERTIES
  ImplementsScan
CHECK_DEADLOCK FALSE
