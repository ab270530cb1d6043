CONSTANTS
  Rows <- MCRows
  InitialRows <- MCRows
  MaxEdits = 9
  PushedLimits <- MCPushedLimits
  PageSize = 2
  VectorSize = 2
  NoToken = NoToken
SPECIFICATION UpdateSpec
INVARIANTS
  RowsUpdatedOnce
CHECK_DEADLOCK FALSE
