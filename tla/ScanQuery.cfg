CONSTANTS
  plain = plain
  list = list
  created = created
  Rows <- MCRows
  UserColumns = {plain}
  ListColumns = {list}
  MetaColumns = {created}
  RowId = RowId
  Cell <- MCCell
  Null = Null
  Odd = Odd
  Unwritable = Unwritable
  None = None
  Asked <- MCAsked
  MaxAllocations = 8
  Nothing = Nothing
SPECIFICATION Spec
INVARIANTS
  TypeOK
  AnswerIsExact
  NothingDangles
  OnlyThrownValuesLeak
CHECK_DEADLOCK FALSE
