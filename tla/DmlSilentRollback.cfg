CONSTANTS
  Conns = {1}
  NoPlan = NoPlan
  MaxRows = 3
  VectorSize = 2
  Statements <- AloneStatements
SPECIFICATION Spec
INVARIANTS
  SilentRollbackMeansNothingWritten
