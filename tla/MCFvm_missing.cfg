SPECIFICATION Spec
CONSTANTS
  FileSets <- OneMissing
  Request <- MCRequest
  Lines = 2
  Capacity = 1
  PoolSize = 5
CHECK_DEADLOCK FALSE
PROPERTY AlwaysEnds
