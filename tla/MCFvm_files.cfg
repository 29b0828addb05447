SPECIFICATION Spec
CONSTANTS
  FileSets <- AnyFiles
  Request <- MCRequest
  Lines = 2
  Capacity = 1
  PoolSize = 5
CHECK_DEADLOCK FALSE
INVARIANTS JoinsQuiet
PROPERTIES FlattensTheFiles GoodFilesLoad
