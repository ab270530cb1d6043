CONSTANTS
  Conns <- MCConns
  NoPlan = NoPlan
  MaxRows = 3
  VectorSize = 2
  Statements <- MCStatements
SPECIFICATION Spec
INVARIANTS
  TypeOK
  CountIsTruthful
  WritesInOrder
  AtMostOnce
  TransactionsBracketStatements
  RollbackRefusalIsTrue
PROPERTIES
  NoWriteInExplicitTransaction
  ImplementsStatement
