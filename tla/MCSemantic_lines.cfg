SPECIFICATION Spec
CONSTANTS
  MaxFiles = 2
  MaxTokens = 9
  MaxStack = 4
CHECK_DEADLOCK FALSE
INVARIANTS
  TypeOK
  GraphIsMeaning
  AcceptsLines
  ReportsErrors
  FailsAfterError
