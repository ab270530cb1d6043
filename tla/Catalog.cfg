CONSTANTS
  Tables <- MCTables
  Columns <- MCColumns
  TableNames <- MCTableNames
  ColumnNames <- MCColumnNames
  Documents <- MCDocuments
  PageSize = 2
  MaxEdits = 2
  CreatedAt = CreatedAt
  UpdatedAt = UpdatedAt
  Unborn = Unborn
  Gone = Gone
SPECIFICATION Spec
INVARIANTS
  ColumnNamesDistinct
  SteadyTablesFound
  SteadyColumnsListed
CHECK_DEADLOCK FALSE
