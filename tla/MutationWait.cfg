CONSTANTS
  Timeouts <- MCTimeouts
  PollInterval = 2
  RequestTimeout = 3
  MaxOversleep = 1
SPECIFICATION Spec
INVARIANTS
  TypeOK
  VerdictMatchesDocument
  TimeoutIsHonest
  BoundedWait
  PollsAreSpaced
PROPERTIES
  ImplementsOutcome
CHECK_DEADLOCK FALSE
