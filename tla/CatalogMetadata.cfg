CONSTANTS
  Tables <- MCTables
  Columns <- MCColumns
  TableNames <- MCTableNames
  ColumnNames <- MCColumnNames
  Documents <- MCDocuments
  PageSize = 2
  MaxEdits = 0
  CreatedAt = CreatedAt
  UpdatedAt = UpdatedAt
  Unborn = Unborn
  Gone = Gone
SPECIFICATION Spec
INVARIANT MetadataUnderItsName
CHECK_DEADLOCK FALSE
